--------------------------- MODULE CreationProofs ---------------------------
(***************************************************************************)
(* Proofs about three services of a deal.                                  *)
(*                                                                         *)
(* DealCreation: CreationInv is an invariant for any plans, earlier deals, *)
(* properties, URLs and number of attempts, and with it CreationSafety.    *)
(* The table grows by one row (Originals, Copies) or commits or loses an   *)
(* open one (Ends); each keeps RowsInOrder and numbers no series back.     *)
(* What a request knows survives the steps of the others because committed *)
(* deals stay as they are and versions are only added.                     *)
(*                                                                         *)
(* DealNumbers: NumbersInv, for any payloads and whatever the calculator   *)
(* computes: the stored figures are what it gives for the stored inputs.   *)
(* With the laws of fractions proved first, summing the children before or *)
(* after makes no difference, and a loan's level payments leave what the   *)
(* closed form of its balance says (LoanInv): FiguresFollowInputs.         *)
(*                                                                         *)
(* DealList: ListInv, for any books, queries and page size: the rows shown *)
(* are the first of the walk, and each is its own deal's; with it          *)
(* ListSafety.  Two stable passes by NewestFirst and ByKey are shown to be *)
(* the one order of Precedes.                                              *)
(***************************************************************************)
EXTENDS DealCreation, DealNumbers, DealList, FiniteSetTheorems, SequenceTheorems,
        WellFoundedInduction, TLAPS

-----------------------------------------------------------------------------
(***************************************************************************)
(* Numbers.                                                                *)
(***************************************************************************)

\* A set of numbers has a smallest member.
LEMMA LeastNat ==
    ASSUME NEW S, S \subseteq Nat, S # {}
    PROVE  \E m \in S : \A x \in S : m <= x
<1> DEFINE Segments == {0 .. x : x \in S}
<1>1. \A x \in S : 0 .. x \in FiniteSubsetsOf(Nat)
  <2> SUFFICES ASSUME NEW x \in S PROVE 0 .. x \in FiniteSubsetsOf(Nat)
    OBVIOUS
  <2>1. IsFiniteSet(0 .. x)
    BY FS_Interval
  <2> QED BY <2>1 DEF FiniteSubsetsOf
<1>2. Segments \subseteq FiniteSubsetsOf(Nat) /\ Segments # {}
  BY <1>1
<1>3. IsWellFoundedOn(StrictSubsetOrdering(Nat), FiniteSubsetsOf(Nat))
  BY FS_StrictSubsetOrderingWellFounded
<1>4. PICK B \in Segments : \A C \in Segments : ~(<<C, B>> \in StrictSubsetOrdering(Nat))
  <2> HIDE DEF Segments
  <2> QED BY <1>2, <1>3, WFMin
<1>5. PICK m \in S : B = 0 .. m
  BY <1>4
<1>6. ASSUME NEW x \in S, x < m
      PROVE  FALSE
  <2>1. 0 .. x \in Segments /\ 0 .. x \subseteq 0 .. m /\ 0 .. x # 0 .. m
    BY <1>6
  <2>2. 0 .. x \in SUBSET Nat /\ 0 .. m \in SUBSET Nat
    OBVIOUS
  <2> QED BY <1>4, <1>5, <2>1, <2>2 DEF StrictSubsetOrdering
<1> QED BY <1>6

LEMMA OldestFound ==
    ASSUME NEW S, S \subseteq Nat, S # {}
    PROVE  Oldest(S) \in S /\ \A x \in S : Oldest(S) <= x
<1>1. \E m \in S : \A x \in S : m <= x
  BY LeastNat
<1> QED BY <1>1 DEF Oldest, Min

\* What follows versions 0 .. n - 1.
LEMMA NextFound ==
    ASSUME NEW rows, NEW s, NEW n \in Nat, VersionsIn(rows, s) = 0 .. n - 1
    PROVE  NextIn(rows, s) = n
<1> DEFINE V == {-1} \cup VersionsIn(rows, s)
<1>1. n - 1 \in V /\ V \subseteq Int
  BY SMT
<1>2. \A y \in V : n - 1 >= y
  OBVIOUS
<1> HIDE DEF V
<1>3. \A x \in V : (\A y \in V : x >= y) => x = n - 1
  BY <1>1, <1>2
<1>4. Max(V) = n - 1
  BY <1>1, <1>2, <1>3 DEF Max
<1> QED BY <1>4 DEF NextIn, V

-----------------------------------------------------------------------------
(***************************************************************************)
(* What becomes of a table in order.                                       *)
(***************************************************************************)

LEMMA VersionsAre ==
    ASSUME NEW rows, NEW s
    PROVE  \A v : v \in VersionsIn(rows, s) <=>
             \E i \in DOMAIN rows : /\ rows[i].state = "committed" /\ rows[i].series = s
                                    /\ rows[i].version = v
  BY DEF VersionsIn

LEMMA AppendedRows ==
    ASSUME NEW rows \in Seq(Rows), NEW row \in Rows
    PROVE  /\ Append(rows, row) \in Seq(Rows) /\ Len(rows) \in Nat
           /\ DOMAIN rows = 1 .. Len(rows)
           /\ DOMAIN Append(rows, row) = 1 .. Len(rows) + 1
           /\ \A i \in DOMAIN rows : Append(rows, row)[i] = rows[i]
           /\ Append(rows, row)[Len(rows) + 1] = row
  OBVIOUS

LEMMA RowFields ==
    ASSUME NEW rows \in Seq(Rows), NEW i \in DOMAIN rows
    PROVE  /\ rows[i] \in Rows
           /\ rows[i].series \in Nat /\ rows[i].version \in Nat /\ rows[i].seen \subseteq Nat
           /\ rows[i].state \in {"open", "committed", "lost"}
<1>1. rows[i] \in Rows
  OBVIOUS
<1> QED BY <1>1 DEF Rows

\* A new series.
LEMMA Originals ==
    ASSUME NEW rows \in Seq(Rows), RowsInOrder(rows), NEW row \in Rows,
           row.state = "committed", row.version = 0, row.series = Len(rows) + 1,
           \A i \in row.seen : /\ i \in DOMAIN rows
                               /\ row.zpid # None => rows[i].zpid # row.zpid
    PROVE  /\ RowsInOrder(Append(rows, row))
           /\ \A s \in DOMAIN rows : NextIn(Append(rows, row), s) = NextIn(rows, s)
<1> DEFINE new == Append(rows, row)
           n == Len(rows)
<1>1. /\ n \in Nat /\ DOMAIN rows = 1 .. n /\ DOMAIN new = 1 .. n + 1
      /\ \A i \in DOMAIN rows : new[i] = rows[i]
      /\ new[n + 1] = row
  BY AppendedRows
<1>2. \A i \in DOMAIN rows : /\ rows[i].series \in 1 .. i /\ rows[i].series \in DOMAIN rows
                             /\ rows[i].version \in Nat
  BY <1>1, RowFields DEF RowsInOrder
<1> HIDE DEF new, n
<1>3. ASSUME NEW s \in DOMAIN rows
      PROVE  /\ VersionsIn(new, s) = VersionsIn(rows, s)
             /\ NextIn(new, s) = NextIn(rows, s) /\ NextIn(new, s) \in Nat
             /\ VersionsIn(new, s) = 0 .. NextIn(new, s) - 1
  <2>1. VersionsIn(new, s) = VersionsIn(rows, s)
    <3>1. \A v : v \in VersionsIn(new, s) <=> v \in VersionsIn(rows, s)
      BY <1>1, VersionsAre DEF n
    <3> QED BY <3>1
  <2> QED BY <2>1, NextFound DEF RowsInOrder
<1>4. NextIn(new, n + 1) \in Nat
      /\ VersionsIn(new, n + 1) = 0 .. NextIn(new, n + 1) - 1
  <2>1. VersionsIn(new, n + 1) = {0}
    <3>1. \A v : v \in VersionsIn(new, n + 1) <=> v = 0
      BY <1>1, <1>2, VersionsAre DEF n
    <3> QED BY <3>1
  <2>2. VersionsIn(new, n + 1) = 0 .. 1 - 1
    BY <2>1
  <2>3. NextIn(new, n + 1) = 1
    BY <2>2, NextFound
  <2>4. 0 .. NextIn(new, n + 1) - 1 = 0 .. 1 - 1 /\ NextIn(new, n + 1) \in Nat
    BY <2>3
  <2> QED BY <2>2, <2>4, Zenon
<1>5. \A i \in DOMAIN new : new[i].series \in 1 .. i
  BY <1>1, <1>2 DEF n
<1>6. \A s \in DOMAIN new :
        NextIn(new, s) \in Nat /\ VersionsIn(new, s) = 0 .. NextIn(new, s) - 1
  BY <1>1, <1>3, <1>4
<1>7. ASSUME NEW i \in DOMAIN new, NEW k \in DOMAIN new, new[i].state # "lost",
             new[k].state # "lost", new[i].series = new[k].series,
             new[i].version = new[k].version
      PROVE  i = k
  <2>1. CASE i \in DOMAIN rows /\ k \in DOMAIN rows
    <3>1. new[i] = rows[i] /\ new[k] = rows[k]
      BY <1>1, <2>1
    <3>2. \A a, b \in DOMAIN rows :
            rows[a].state # "lost" /\ rows[b].state # "lost"
              /\ rows[a].series = rows[b].series /\ rows[a].version = rows[b].version
            => a = b
      BY DEF RowsInOrder
    <3> QED BY <1>7, <2>1, <3>1, <3>2
  <2>2. CASE i = n + 1 \/ k = n + 1
    BY <1>1, <1>2, <1>7, <2>2 DEF n
  <2> QED BY <1>1, <2>1, <2>2
<1>8. ASSUME NEW i \in DOMAIN new, new[i].state = "open"
      PROVE  new[i].version = NextIn(new, new[i].series)
  <2>1. i \in DOMAIN rows
    BY <1>1, <1>8
  <2> QED BY <1>1, <1>2, <1>3, <1>8, <2>1 DEF RowsInOrder
<1>9. ASSUME NEW k \in DOMAIN new, new[k].version > 0
      PROVE  \E i \in 1 .. k - 1 : /\ new[i].state = "committed"
                                   /\ new[i].url = new[k].url /\ new[i].zpid = new[k].zpid
  <2>1. k \in DOMAIN rows
    BY <1>1, <1>9
  <2>2. PICK i \in 1 .. k - 1 : /\ rows[i].state = "committed"
                                /\ rows[i].url = rows[k].url /\ rows[i].zpid = rows[k].zpid
    BY <1>1, <1>9, <2>1 DEF RowsInOrder
  <2> QED BY <1>1, <2>1, <2>2
<1>10. ASSUME NEW k \in DOMAIN new, NEW i \in new[k].seen
       PROVE  i \in 1 .. k - 1 /\ (new[k].zpid # None => new[i].zpid # new[k].zpid)
  <2>1. CASE k \in DOMAIN rows
    <3>1. i \in 1 .. k - 1 /\ (rows[k].zpid # None => rows[i].zpid # rows[k].zpid)
      BY <1>1, <1>10, <2>1 DEF RowsInOrder
    <3> QED BY <1>1, <2>1, <3>1
  <2>2. CASE k = n + 1
    BY <1>1, <1>10, <2>2 DEF n
  <2> QED BY <1>1, <2>1, <2>2
<1> QED BY <1>3, <1>5, <1>6, <1>7, <1>8, <1>9, <1>10 DEF RowsInOrder, new

\* A copy under way, of a committed deal of its series.
LEMMA Copies ==
    ASSUME NEW rows \in Seq(Rows), RowsInOrder(rows), NEW row \in Rows,
           row.state = "open", row.series \in DOMAIN rows, row.seen = {},
           row.version = NextIn(rows, row.series),
           \A i \in DOMAIN rows :
             ~(rows[i].state = "open" /\ rows[i].series = row.series
                 /\ rows[i].version = row.version),
           \E i \in DOMAIN rows : /\ rows[i].state = "committed"
                                  /\ rows[i].url = row.url /\ rows[i].zpid = row.zpid
    PROVE  /\ RowsInOrder(Append(rows, row))
           /\ \A s \in DOMAIN rows : NextIn(Append(rows, row), s) = NextIn(rows, s)
<1> DEFINE new == Append(rows, row)
           n == Len(rows)
<1>1. /\ n \in Nat /\ DOMAIN rows = 1 .. n /\ DOMAIN new = 1 .. n + 1
      /\ \A i \in DOMAIN rows : new[i] = rows[i]
      /\ new[n + 1] = row
  BY AppendedRows
<1>2. \A i \in DOMAIN rows : /\ rows[i].series \in 1 .. i /\ rows[i].series \in DOMAIN rows
                             /\ rows[i].version \in Nat
  BY <1>1, RowFields, SMTT(30) DEF RowsInOrder
<1> HIDE DEF new, n
<1>3. ASSUME NEW s \in DOMAIN new
      PROVE  VersionsIn(new, s) = VersionsIn(rows, s)
  <2>1. \A v : v \in VersionsIn(new, s) <=> v \in VersionsIn(rows, s)
    BY <1>1, VersionsAre
  <2> QED BY <2>1
<1>4. ASSUME NEW s \in DOMAIN rows
      PROVE  /\ NextIn(new, s) = NextIn(rows, s) /\ NextIn(new, s) \in Nat
             /\ VersionsIn(new, s) = 0 .. NextIn(new, s) - 1
  <2>1. s \in DOMAIN new
    BY <1>1
  <2> QED BY <1>3, <2>1, NextFound DEF RowsInOrder
<1>5. NextIn(new, n + 1) \in Nat
      /\ VersionsIn(new, n + 1) = 0 .. NextIn(new, n + 1) - 1
  <2>1. VersionsIn(new, n + 1) = {}
    <3>1. ASSUME NEW i \in DOMAIN new, new[i].state = "committed"
          PROVE  new[i].series # n + 1
      <4>1. i \in DOMAIN rows
        BY <1>1, <3>1
      <4>2. new[i].series \in 1 .. n
        BY <1>1, <1>2, <4>1
      <4> QED BY <1>1, <4>2
    <3> QED BY <3>1, VersionsAre
  <2>2. VersionsIn(new, n + 1) = 0 .. 0 - 1
    BY <2>1
  <2>3. NextIn(new, n + 1) = 0
    BY <2>2, NextFound
  <2>4. 0 .. NextIn(new, n + 1) - 1 = 0 .. 0 - 1 /\ NextIn(new, n + 1) \in Nat
    BY <2>3
  <2> QED BY <2>2, <2>4, Zenon
<1>6. \A i \in DOMAIN new : new[i].series \in 1 .. i
  BY <1>1, <1>2 DEF n
<1>7. \A s \in DOMAIN new :
        NextIn(new, s) \in Nat /\ VersionsIn(new, s) = 0 .. NextIn(new, s) - 1
  BY <1>1, <1>4, <1>5
<1>8. ASSUME NEW i \in DOMAIN rows, rows[i].state # "lost", rows[i].series = row.series
      PROVE  rows[i].version # row.version
  <2>1. CASE rows[i].state = "open"
    BY <1>8, <2>1
  <2>2. CASE rows[i].state = "committed"
    <3>1. rows[i].version \in VersionsIn(rows, row.series)
      BY <1>8, <2>2, VersionsAre
    <3>2. /\ NextIn(rows, row.series) \in Nat
          /\ VersionsIn(rows, row.series) = 0 .. NextIn(rows, row.series) - 1
      BY DEF RowsInOrder
    <3> QED BY <3>1, <3>2
  <2> QED BY <1>8, <2>1, <2>2, RowFields
<1>9. ASSUME NEW i \in DOMAIN new, NEW k \in DOMAIN new, new[i].state # "lost",
             new[k].state # "lost", new[i].series = new[k].series,
             new[i].version = new[k].version
      PROVE  i = k
  <2>1. CASE i \in DOMAIN rows /\ k \in DOMAIN rows
    <3>1. new[i] = rows[i] /\ new[k] = rows[k]
      BY <1>1, <2>1
    <3>2. \A a, b \in DOMAIN rows :
            rows[a].state # "lost" /\ rows[b].state # "lost"
              /\ rows[a].series = rows[b].series /\ rows[a].version = rows[b].version
            => a = b
      BY DEF RowsInOrder
    <3> QED BY <1>9, <2>1, <3>1, <3>2
  <2>2. CASE i = n + 1 /\ k = n + 1
    BY <2>2
  <2>3. CASE i = n + 1 /\ k \in DOMAIN rows
    BY <1>1, <1>8, <1>9, <2>3
  <2>4. CASE k = n + 1 /\ i \in DOMAIN rows
    BY <1>1, <1>8, <1>9, <2>4
  <2> QED BY <1>1, <2>1, <2>2, <2>3, <2>4
<1>10. ASSUME NEW i \in DOMAIN new, new[i].state = "open"
       PROVE  new[i].version = NextIn(new, new[i].series)
  <2>1. CASE i \in DOMAIN rows
    BY <1>1, <1>2, <1>4, <1>10, <2>1, SMTT(30) DEF RowsInOrder
  <2>2. CASE i = n + 1
    BY <1>1, <1>4, <2>2
  <2> QED BY <1>1, <2>1, <2>2
<1>11. ASSUME NEW k \in DOMAIN new, new[k].version > 0
       PROVE  \E i \in 1 .. k - 1 : /\ new[i].state = "committed"
                                    /\ new[i].url = new[k].url /\ new[i].zpid = new[k].zpid
  <2>1. CASE k \in DOMAIN rows
    <3>1. PICK i \in 1 .. k - 1 : /\ rows[i].state = "committed"
                                  /\ rows[i].url = rows[k].url /\ rows[i].zpid = rows[k].zpid
      BY <1>1, <1>11, <2>1 DEF RowsInOrder
    <3> QED BY <1>1, <2>1, <3>1
  <2>2. CASE k = n + 1
    BY <1>1, <2>2 DEF n
  <2> QED BY <1>1, <2>1, <2>2
<1>12. ASSUME NEW k \in DOMAIN new, NEW i \in new[k].seen
       PROVE  i \in 1 .. k - 1 /\ (new[k].zpid # None => new[i].zpid # new[k].zpid)
  <2>1. CASE k \in DOMAIN rows
    <3>1. i \in 1 .. k - 1 /\ (rows[k].zpid # None => rows[i].zpid # rows[k].zpid)
      BY <1>1, <1>12, <2>1 DEF RowsInOrder
    <3> QED BY <1>1, <2>1, <3>1
  <2>2. CASE k = n + 1
    BY <1>1, <1>12, <2>2
  <2> QED BY <1>1, <2>1, <2>2
<1> QED BY <1>4, <1>6, <1>7, <1>9, <1>10, <1>11, <1>12 DEF RowsInOrder, new

\* The end of a copy under way: its row is committed or lost.
LEMMA EndedRows ==
    ASSUME NEW rows \in Seq(Rows), NEW i \in DOMAIN rows,
           NEW state \in {"committed", "lost"},
           NEW new, new = [rows EXCEPT ![i].state = state]
    PROVE  /\ new \in Seq(Rows) /\ DOMAIN new = DOMAIN rows /\ Len(new) = Len(rows)
           /\ DOMAIN rows = 1 .. Len(rows) /\ Len(rows) \in Nat
           /\ new[i].state = state
           /\ \A k \in DOMAIN rows :
                /\ k # i => new[k] = rows[k]
                /\ new[k].zpid = rows[k].zpid /\ new[k].url = rows[k].url
                /\ new[k].series = rows[k].series /\ new[k].version = rows[k].version
                /\ new[k].seen = rows[k].seen
<1>1. rows[i] \in Rows
  OBVIOUS
<1>2. [rows[i] EXCEPT !.state = state] \in Rows
  BY <1>1 DEF Rows
<1>3. new = [rows EXCEPT ![i] = [rows[i] EXCEPT !.state = state]]
  OBVIOUS
<1>4. new \in Seq(Rows) /\ DOMAIN new = DOMAIN rows /\ Len(new) = Len(rows)
  BY <1>2, <1>3
<1>5. new[i] = [rows[i] EXCEPT !.state = state] /\ \A k \in DOMAIN rows \ {i} : new[k] = rows[k]
  BY <1>3
<1>6. /\ new[i].state = state
      /\ new[i].zpid = rows[i].zpid /\ new[i].url = rows[i].url
      /\ new[i].series = rows[i].series /\ new[i].version = rows[i].version
      /\ new[i].seen = rows[i].seen
  BY <1>1, <1>5 DEF Rows
<1>7. ASSUME NEW k \in DOMAIN rows
      PROVE  /\ k # i => new[k] = rows[k]
             /\ new[k].zpid = rows[k].zpid /\ new[k].url = rows[k].url
             /\ new[k].series = rows[k].series /\ new[k].version = rows[k].version
             /\ new[k].seen = rows[k].seen
  BY <1>5, <1>6
<1>8. DOMAIN rows = 1 .. Len(rows) /\ Len(rows) \in Nat
  OBVIOUS
<1> QED BY <1>4, <1>6, <1>7, <1>8

\* The commit of a copy takes the next number of its series.
LEMMA CommittedCopy ==
    ASSUME NEW rows \in Seq(Rows), RowsInOrder(rows), NEW i \in DOMAIN rows,
           rows[i].state = "open"
    PROVE  LET new == [rows EXCEPT ![i].state = "committed"]
           IN  /\ RowsInOrder(new)
               /\ \A s \in DOMAIN rows : NextIn(new, s) >= NextIn(rows, s)
<1> DEFINE new == [rows EXCEPT ![i].state = "committed"]
           s0 == rows[i].series
           v0 == rows[i].version
<1>0. new = [rows EXCEPT ![i].state = "committed"] /\ "committed" \in {"committed", "lost"}
  OBVIOUS
<1> HIDE DEF new
<1>1. /\ DOMAIN new = DOMAIN rows /\ DOMAIN rows = 1 .. Len(rows) /\ Len(rows) \in Nat
      /\ new[i].state = "committed"
      /\ \A k \in DOMAIN rows :
           /\ k # i => new[k] = rows[k]
           /\ new[k].zpid = rows[k].zpid /\ new[k].url = rows[k].url
           /\ new[k].series = rows[k].series /\ new[k].version = rows[k].version
           /\ new[k].seen = rows[k].seen
  BY <1>0, EndedRows
<1>2. \A k \in DOMAIN rows : /\ rows[k].series \in 1 .. k /\ rows[k].series \in DOMAIN rows
                             /\ rows[k].version \in Nat
  BY <1>1, RowFields DEF RowsInOrder
<1>3. \A s \in DOMAIN rows :
        NextIn(rows, s) \in Nat /\ VersionsIn(rows, s) = 0 .. NextIn(rows, s) - 1
  BY DEF RowsInOrder
<1>4. s0 \in DOMAIN rows /\ v0 \in Nat /\ v0 = NextIn(rows, s0)
  BY <1>2 DEF RowsInOrder
<1>5. \A a, b \in DOMAIN rows :
        rows[a].state # "lost" /\ rows[b].state # "lost"
          /\ rows[a].series = rows[b].series /\ rows[a].version = rows[b].version
        => a = b
  BY DEF RowsInOrder
<1>6. ASSUME NEW s \in DOMAIN rows, s # s0
      PROVE  /\ VersionsIn(new, s) = VersionsIn(rows, s) /\ NextIn(new, s) = NextIn(rows, s)
  <2>1. \A v : v \in VersionsIn(new, s) <=> v \in VersionsIn(rows, s)
    BY <1>1, <1>6, VersionsAre
  <2>2. VersionsIn(new, s) = VersionsIn(rows, s)
    BY <2>1
  <2> QED BY <1>3, <2>2, NextFound
<1>7. VersionsIn(new, s0) = 0 .. (v0 + 1) - 1 /\ NextIn(new, s0) = v0 + 1
  <2>1. \A v : v \in VersionsIn(new, s0) <=> v \in VersionsIn(rows, s0) \/ v = v0
    BY <1>1, VersionsAre
  <2>2. VersionsIn(rows, s0) = 0 .. v0 - 1
    BY <1>3, <1>4
  <2> HIDE DEF v0, s0
  <2>3. \A v : v \in VersionsIn(new, s0) <=> v \in 0 .. (v0 + 1) - 1
    <3>1. \A v : (v \in 0 .. v0 - 1 \/ v = v0) <=> v \in 0 .. (v0 + 1) - 1
      BY <1>4
    <3> QED BY <2>1, <2>2, <3>1, Zenon
  <2>4. VersionsIn(new, s0) = 0 .. (v0 + 1) - 1
    BY <2>3
  <2> QED BY <1>4, <2>4, NextFound
<1>8. \A k \in DOMAIN new : new[k].series \in 1 .. k
  BY <1>1, <1>2
<1>9. ASSUME NEW s \in DOMAIN new
      PROVE  /\ NextIn(new, s) \in Nat /\ VersionsIn(new, s) = 0 .. NextIn(new, s) - 1
             /\ NextIn(new, s) >= NextIn(rows, s)
  <2>1. CASE s = s0
    <3>1. NextIn(new, s) = v0 + 1 /\ VersionsIn(new, s) = 0 .. (v0 + 1) - 1
      BY <1>7, <2>1
    <3>2. NextIn(new, s) \in Nat /\ NextIn(new, s) >= NextIn(rows, s)
      BY <1>4, <2>1, <3>1
    <3> QED BY <3>1, <3>2, Zenon
  <2>2. CASE s # s0
    <3>1. s \in DOMAIN rows
      BY <1>1
    <3>2. VersionsIn(new, s) = VersionsIn(rows, s) /\ NextIn(new, s) = NextIn(rows, s)
      BY <1>6, <2>2, <3>1
    <3>3. NextIn(rows, s) \in Nat /\ VersionsIn(rows, s) = 0 .. NextIn(rows, s) - 1
      BY <1>3, <3>1
    <3>4. NextIn(new, s) >= NextIn(rows, s)
      BY <3>2, <3>3
    <3> QED BY <3>2, <3>3, <3>4, Zenon
  <2> QED BY <2>1, <2>2
<1>10. ASSUME NEW a \in DOMAIN new, NEW b \in DOMAIN new, new[a].state # "lost",
              new[b].state # "lost", new[a].series = new[b].series,
              new[a].version = new[b].version
       PROVE  a = b
  <2>1. rows[a].state # "lost" /\ rows[b].state # "lost"
    BY <1>1, <1>10
  <2> QED BY <1>1, <1>5, <1>10, <2>1
<1>11. ASSUME NEW k \in DOMAIN new, new[k].state = "open"
       PROVE  new[k].version = NextIn(new, new[k].series)
  <2>1. k \in DOMAIN rows /\ k # i /\ new[k] = rows[k]
    BY <1>1, <1>11
  <2>2. rows[k].version = NextIn(rows, rows[k].series)
    BY <1>11, <2>1 DEF RowsInOrder
  <2>3. rows[k].series # s0
    BY <1>4, <1>5, <1>11, <2>1, <2>2
  <2> QED BY <1>2, <1>6, <2>1, <2>2, <2>3
<1>12. ASSUME NEW k \in DOMAIN new, new[k].version > 0
       PROVE  \E j \in 1 .. k - 1 : /\ new[j].state = "committed"
                                    /\ new[j].url = new[k].url /\ new[j].zpid = new[k].zpid
  <2>1. PICK j \in 1 .. k - 1 : /\ rows[j].state = "committed"
                                /\ rows[j].url = rows[k].url /\ rows[j].zpid = rows[k].zpid
    BY <1>1, <1>12 DEF RowsInOrder
  <2>2. j \in DOMAIN rows /\ new[j].state = "committed"
    BY <1>1, <2>1
  <2> QED BY <1>1, <2>1, <2>2
<1>13. ASSUME NEW k \in DOMAIN new, NEW j \in new[k].seen
       PROVE  j \in 1 .. k - 1 /\ (new[k].zpid # None => new[j].zpid # new[k].zpid)
  <2>1. j \in 1 .. k - 1 /\ (rows[k].zpid # None => rows[j].zpid # rows[k].zpid)
    BY <1>1, <1>13 DEF RowsInOrder
  <2>2. j \in DOMAIN rows
    BY <1>1, <2>1
  <2> QED BY <1>1, <2>1, <2>2
<1> QED BY <1>1, <1>8, <1>9, <1>10, <1>11, <1>12, <1>13, Zenon DEF RowsInOrder, new

\* A lost copy leaves its number free.
LEMMA LostCopy ==
    ASSUME NEW rows \in Seq(Rows), RowsInOrder(rows), NEW i \in DOMAIN rows,
           rows[i].state = "open"
    PROVE  LET new == [rows EXCEPT ![i].state = "lost"]
           IN  /\ RowsInOrder(new)
               /\ \A s \in DOMAIN rows : NextIn(new, s) = NextIn(rows, s)
<1> DEFINE new == [rows EXCEPT ![i].state = "lost"]
<1>0. new = [rows EXCEPT ![i].state = "lost"] /\ "lost" \in {"committed", "lost"}
  OBVIOUS
<1> HIDE DEF new
<1>1. /\ DOMAIN new = DOMAIN rows /\ DOMAIN rows = 1 .. Len(rows) /\ Len(rows) \in Nat
      /\ new[i].state = "lost"
      /\ \A k \in DOMAIN rows :
           /\ k # i => new[k] = rows[k]
           /\ new[k].zpid = rows[k].zpid /\ new[k].url = rows[k].url
           /\ new[k].series = rows[k].series /\ new[k].version = rows[k].version
           /\ new[k].seen = rows[k].seen
  BY <1>0, EndedRows
<1>2. \A k \in DOMAIN rows : /\ rows[k].series \in 1 .. k /\ rows[k].series \in DOMAIN rows
                             /\ rows[k].version \in Nat
  BY <1>1, RowFields DEF RowsInOrder
<1>3. \A k \in DOMAIN rows : /\ new[k].state = "committed" <=> rows[k].state = "committed"
                             /\ new[k].state = "open" => rows[k].state = "open"
                             /\ new[k].state # "lost" => rows[k].state # "lost"
  BY <1>1
<1>4. ASSUME NEW s \in DOMAIN rows
      PROVE  /\ VersionsIn(new, s) = 0 .. NextIn(new, s) - 1 /\ NextIn(new, s) \in Nat
             /\ NextIn(new, s) = NextIn(rows, s)
  <2>1. \A v : v \in VersionsIn(new, s) <=> v \in VersionsIn(rows, s)
    BY <1>1, <1>3, VersionsAre
  <2>2. VersionsIn(new, s) = VersionsIn(rows, s)
    BY <2>1
  <2> QED BY <2>2, NextFound DEF RowsInOrder
<1>5. \A k \in DOMAIN new : new[k].series \in 1 .. k
  BY <1>1, <1>2
<1>6. ASSUME NEW a \in DOMAIN new, NEW b \in DOMAIN new, new[a].state # "lost",
             new[b].state # "lost", new[a].series = new[b].series,
             new[a].version = new[b].version
      PROVE  a = b
  <2>1. \A c, d \in DOMAIN rows :
          rows[c].state # "lost" /\ rows[d].state # "lost"
            /\ rows[c].series = rows[d].series /\ rows[c].version = rows[d].version
          => c = d
    BY DEF RowsInOrder
  <2> QED BY <1>1, <1>3, <1>6, <2>1
<1>7. ASSUME NEW k \in DOMAIN new, new[k].state = "open"
      PROVE  new[k].version = NextIn(new, new[k].series)
  <2>1. rows[k].version = NextIn(rows, rows[k].series)
    BY <1>1, <1>3, <1>7 DEF RowsInOrder
  <2> QED BY <1>1, <1>2, <1>4, <2>1
<1>8. ASSUME NEW k \in DOMAIN new, new[k].version > 0
      PROVE  \E j \in 1 .. k - 1 : /\ new[j].state = "committed"
                                   /\ new[j].url = new[k].url /\ new[j].zpid = new[k].zpid
  <2>1. PICK j \in 1 .. k - 1 : /\ rows[j].state = "committed"
                                /\ rows[j].url = rows[k].url /\ rows[j].zpid = rows[k].zpid
    BY <1>1, <1>8 DEF RowsInOrder
  <2>2. j \in DOMAIN rows /\ new[j].state = "committed"
    BY <1>1, <1>3, <2>1
  <2> QED BY <1>1, <2>1, <2>2
<1>9. ASSUME NEW k \in DOMAIN new, NEW j \in new[k].seen
      PROVE  j \in 1 .. k - 1 /\ (new[k].zpid # None => new[j].zpid # new[k].zpid)
  <2>1. j \in 1 .. k - 1 /\ (rows[k].zpid # None => rows[j].zpid # rows[k].zpid)
    BY <1>1, <1>9, SMTT(30) DEF RowsInOrder
  <2>2. j \in DOMAIN rows
    BY <1>1, <2>1
  <2> QED BY <1>1, <2>1, <2>2
<1> QED BY <1>1, <1>4, <1>5, <1>6, <1>7, <1>8, <1>9, Zenon DEF RowsInOrder, new

-----------------------------------------------------------------------------
(***************************************************************************)
(* What a request knows.                                                   *)
(***************************************************************************)

LEMMA NextVersionIs ==
    ASSUME NEW s
    PROVE  NextVersion(s) = NextIn(deals, s)
  BY DEF NextVersion, NextIn, VersionsIn, Committed

\* Committed deals stay, and versions are only added.
KeepsCommitted(rows, new) ==
    /\ DOMAIN rows \subseteq DOMAIN new
    /\ \A i \in DOMAIN rows : rows[i].state = "committed" => new[i] = rows[i]
    /\ \A s \in DOMAIN rows : NextIn(new, s) >= NextIn(rows, s)

LEMMA CommittedKnown ==
    ASSUME CreationInv, NEW i \in Committed
    PROVE  /\ i \in DOMAIN deals /\ i \in Nat /\ deals[i] \in Rows
           /\ deals[i].state = "committed" /\ deals[i].version \in Nat
           /\ deals[i].series \in DOMAIN deals
           /\ NextVersion(deals[i].series) \in Nat
           /\ VersionsIn(deals, deals[i].series) = 0 .. NextVersion(deals[i].series) - 1
           /\ NextVersion(deals[i].series) >= 1
<1>1. i \in DOMAIN deals /\ deals[i].state = "committed" /\ deals \in Seq(Rows)
  BY DEF Committed, CreationInv, CreationTyped
<1>2. DOMAIN deals = 1 .. Len(deals) /\ Len(deals) \in Nat
  BY <1>1
<1>3. deals[i] \in Rows /\ deals[i].version \in Nat
  BY <1>1, RowFields
<1>4. deals[i].series \in 1 .. i
  BY <1>1 DEF CreationInv, RowsInOrder
<1>5. deals[i].series \in DOMAIN deals
  BY <1>1, <1>2, <1>4
<1>6. /\ NextVersion(deals[i].series) \in Nat
      /\ VersionsIn(deals, deals[i].series) = 0 .. NextVersion(deals[i].series) - 1
  BY <1>5, NextVersionIs DEF CreationInv, RowsInOrder
<1>7. deals[i].version \in VersionsIn(deals, deals[i].series)
  BY <1>1, VersionsAre
<1>8. NextVersion(deals[i].series) >= 1
  BY <1>3, <1>6, <1>7
<1> QED BY <1>1, <1>2, <1>3, <1>5, <1>6, <1>8

LEMMA CommittedStay ==
    ASSUME CreationInv, KeepsCommitted(deals, deals'), NEW i \in Committed
    PROVE  /\ i \in Committed' /\ deals'[i] = deals[i]
           /\ NextVersion(deals[i].series) \in Nat
           /\ NextIn(deals', deals[i].series) >= NextVersion(deals[i].series)
  BY CommittedKnown, NextVersionIs DEF Committed, KeepsCommitted

\* A step that answers r or moves it on, and may add to the table.
LEMMA CreationStep ==
    ASSUME CreationInv, NEW r \in DOMAIN asked,
           deals' \in Seq(Rows), RowsInOrder(deals'), KeepsCommitted(deals, deals'),
           asked' = asked, DOMAIN pc' = DOMAIN asked, DOMAIN outcome' = DOMAIN asked,
           local' \in [DOMAIN asked -> Local],
           \A q \in DOMAIN asked \ {r} :
             pc'[q] = pc[q] /\ local'[q] = local[q] /\ outcome'[q] = outcome[q],
           GuardKept(r)', CopyKept(r)', AnswerKept(r)'
    PROVE  CreationInv'
<1>1. CreationTyped'
  BY DEF CreationInv, CreationTyped
<1>2. ASSUME NEW q \in DOMAIN asked PROVE (GuardKept(q) /\ CopyKept(q) /\ AnswerKept(q))'
  <2>1. CASE q = r
    BY <2>1
  <2>2. CASE q # r
    <3>1. /\ pc'[q] = pc[q] /\ local'[q] = local[q] /\ outcome'[q] = outcome[q]
          /\ GuardKept(q) /\ CopyKept(q) /\ AnswerKept(q)
      BY <2>2 DEF CreationInv
    <3>2. \A i \in Committed : i \in Committed' /\ deals'[i] = deals[i]
      BY CommittedStay
    <3>3. GuardKept(q)'
      BY <3>1, <3>2 DEF GuardKept
    <3>4. ASSUME asked[q].deal \in Committed
          PROVE  /\ NextVersion(deals[asked[q].deal].series) \in Nat
                 /\ NextVersion(deals[asked[q].deal].series)' \in Nat
                 /\ NextVersion(deals[asked[q].deal].series)'
                      >= NextVersion(deals[asked[q].deal].series)
      <4>1. PICK i \in Committed : i = asked[q].deal
        BY <3>4
      <4>2. /\ deals'[i] = deals[i] /\ deals[i].series \in DOMAIN deals
            /\ NextVersion(deals[i].series) \in Nat
            /\ NextIn(deals', deals[i].series) >= NextVersion(deals[i].series)
        BY CommittedStay, CommittedKnown
      <4>3. NextIn(deals', deals[i].series) \in Nat
        BY <4>2 DEF KeepsCommitted, RowsInOrder
      <4>4. NextVersion(deals[asked[q].deal].series)' = NextIn(deals', deals[i].series)
        BY <4>1, <4>2 DEF NextVersion, NextIn, VersionsIn, Committed
      <4> QED BY <4>1, <4>2, <4>3, <4>4
    <3>5. local[q] \in Local /\ MaxAttempts \in Nat
      BY CreationAssumption DEF CreationInv, CreationTyped
    <3>6. CopyKept(q)'
      BY <3>1, <3>2, <3>4, <3>5 DEF CopyKept, Local
    <3>7. AnswerKept(q)'
      BY <3>1, <3>2, <3>4, <3>5 DEF AnswerKept, Local
    <3> QED BY <3>3, <3>6, <3>7
  <2> QED BY <2>1, <2>2
<1> QED BY <1>1, <1>2 DEF CreationInv

LEMMA SameTable ==
    ASSUME CreationInv, deals' = deals
    PROVE  deals' \in Seq(Rows) /\ RowsInOrder(deals') /\ KeepsCommitted(deals, deals')
<1>1. \A s \in DOMAIN deals : NextIn(deals, s) \in Nat
  BY DEF CreationInv, RowsInOrder
<1> QED BY <1>1 DEF CreationInv, CreationTyped, KeepsCommitted

LEMMA Moved ==
    ASSUME CreationInv, NEW r \in DOMAIN asked, NEW where, Go(r, where)
    PROVE  /\ DOMAIN pc' = DOMAIN asked /\ pc'[r] = where
           /\ \A q \in DOMAIN asked \ {r} : pc'[q] = pc[q]
  BY DEF Go, CreationInv, CreationTyped

LEMMA Answered ==
    ASSUME CreationInv, NEW r \in DOMAIN asked, NEW given, Answer(r, given)
    PROVE  /\ DOMAIN pc' = DOMAIN asked /\ pc'[r] = "done"
           /\ \A q \in DOMAIN asked \ {r} : pc'[q] = pc[q]
           /\ DOMAIN outcome' = DOMAIN asked /\ outcome'[r] = given
           /\ \A q \in DOMAIN asked \ {r} : outcome'[q] = outcome[q]
  BY DEF Answer, Go, CreationInv, CreationTyped

\* A request moves on without an answer, and the table stays.
LEMMA MovesOn ==
    ASSUME CreationInv, NEW r \in DOMAIN asked, NEW where, Go(r, where), pc[r] # "done",
           UNCHANGED <<deals, asked, outcome>>,
           local' \in [DOMAIN asked -> Local],
           \A q \in DOMAIN asked \ {r} : local'[q] = local[q],
           GuardKept(r)', CopyKept(r)'
    PROVE  CreationInv'
<1>1. AnswerKept(r)'
  BY DEF CreationInv, AnswerKept, Committed
<1>2. DOMAIN outcome = DOMAIN asked
  BY DEF CreationInv, CreationTyped
<1> QED BY <1>1, <1>2, Moved, SameTable, CreationStep

\* A request is answered; only its zpid and what it has seen may have changed.
LEMMA GetsAnswer ==
    ASSUME CreationInv, NEW r \in DOMAIN asked, NEW given, Answer(r, given),
           asked' = asked,
           deals' \in Seq(Rows), RowsInOrder(deals'), KeepsCommitted(deals, deals'),
           local' \in [DOMAIN asked -> Local],
           \A q \in DOMAIN asked \ {r} : local'[q] = local[q],
           local'[r].zpid = local[r].zpid \/ asked[r].kind # "blank",
           AnswerKept(r)'
    PROVE  CreationInv'
<1>1. GuardKept(r)'
  BY Answered DEF CreationInv, GuardKept
<1>2. CopyKept(r)'
  BY Answered DEF CopyKept
<1> QED BY <1>1, <1>2, Answered, CreationStep

\* The oldest of the deals a guard has found is an original.
LEMMA OldestIsOriginal ==
    ASSUME CreationInv, NEW found, found # {},
           \/ \E url : found = ByUrl(url)
           \/ \E zpid : found = ByZpid(zpid)
    PROVE  Oldest(found) \in Committed /\ deals[Oldest(found)].version = 0
<1>1. found \subseteq Committed
  BY DEF ByUrl, ByZpid
<1>2. found \subseteq Nat
  BY <1>1, CommittedKnown
<1> DEFINE m == Oldest(found)
<1>3. m \in found /\ \A x \in found : m <= x
  BY <1>2, OldestFound
<1> HIDE DEF m
<1>4. m \in Committed /\ m \in DOMAIN deals /\ m \in Nat /\ deals[m].version \in Nat
  BY <1>1, <1>3, CommittedKnown
<1>5. ASSUME deals[m].version > 0 PROVE FALSE
  <2>1. PICK i \in 1 .. m - 1 : /\ deals[i].state = "committed"
                                /\ deals[i].url = deals[m].url /\ deals[i].zpid = deals[m].zpid
    BY <1>4, <1>5 DEF CreationInv, RowsInOrder
  <2>2. i \in DOMAIN deals
    <3>1. deals \in Seq(Rows)
      BY DEF CreationInv, CreationTyped
    <3>2. DOMAIN deals = 1 .. Len(deals) /\ Len(deals) \in Nat
      BY <3>1
    <3> QED BY <1>4, <3>2
  <2>3. i \in found
    BY <1>3, <2>1, <2>2 DEF ByUrl, ByZpid, Committed
  <2> QED BY <1>3, <1>4, <2>3
<1> QED BY <1>4, <1>5 DEF m

LEMMA RequestKnown ==
    ASSUME CreationInv, NEW r \in DOMAIN asked
    PROVE  /\ asked[r] \in Asks /\ local[r] \in Local
           /\ asked[r].kind = "url" => asked[r].url \in Urls
           /\ asked[r].kind = "job" => asked[r].zpid \in Zpids
           /\ GuardKept(r) /\ CopyKept(r) /\ AnswerKept(r)
  BY CreationAssumption DEF CreationInv, CreationTyped

-----------------------------------------------------------------------------
(***************************************************************************)
(* The actions.                                                            *)
(***************************************************************************)

\* An answer that neither redirects nor reports a conflict.
LEMMA PlainAnswer ==
    ASSUME CreationInv, NEW r \in DOMAIN asked, NEW given, Answer(r, given),
           given.is \notin {"exists", "conflict"}
    PROVE  AnswerKept(r)'
  BY Answered DEF AnswerKept

\* A redirection to the oldest deal found.
LEMMA ExistsAnswer ==
    ASSUME CreationInv, NEW r \in DOMAIN asked, NEW found, found # {},
           Answer(r, Exists(Oldest(found))), deals' = deals,
           \/ \E url : found = ByUrl(url)
           \/ \E zpid : found = ByZpid(zpid)
    PROVE  AnswerKept(r)'
<1>1. outcome'[r] = [is |-> "exists", deal |-> Oldest(found)]
  BY Answered DEF Exists
<1>2. Oldest(found) \in Committed /\ deals[Oldest(found)].version = 0
  BY OldestIsOriginal
<1> QED BY <1>1, <1>2 DEF AnswerKept, Committed

LEMMA GuardUrlInv ==
    ASSUME CreationInv, NEW r \in DOMAIN asked, GuardUrl(r)
    PROVE  CreationInv'
<1> DEFINE url == asked[r].url
           filed == {z \in DOMAIN market : DetailUrl[z] = url}
<1>0. /\ UNCHANGED <<deals, market, asked, local>> /\ pc[r] = "start" /\ asked[r].kind = "url"
      /\ local' \in [DOMAIN asked -> Local]
  BY DEF GuardUrl, At, CreationInv, CreationTyped
<1>1. CASE ByUrl(url) # {}
  <2>1. Answer(r, Exists(Oldest(ByUrl(url))))
    BY <1>1 DEF GuardUrl
  <2>2. AnswerKept(r)'
    BY <1>0, <1>1, <2>1, ExistsAnswer
  <2> QED BY <1>0, <2>1, <2>2, SameTable, GetsAnswer
<1>2. CASE ByUrl(url) = {} /\ \E z \in filed : Contradicts(asked[r].market, z)
  <2>1. PICK z : Answer(r, Mismatch(z))
    BY <1>2 DEF GuardUrl
  <2>2. AnswerKept(r)'
    BY <2>1, PlainAnswer DEF Mismatch
  <2> QED BY <1>0, <2>1, <2>2, SameTable, GetsAnswer
<1>3. CASE ByUrl(url) = {} /\ ~\E z \in filed : Contradicts(asked[r].market, z)
  <2>1. Go(r, "fetch") /\ UNCHANGED outcome
    BY <1>3 DEF GuardUrl
  <2>2. GuardKept(r)' /\ CopyKept(r)'
    BY <1>0, <2>1, Moved, RequestKnown DEF GuardKept, CopyKept, Committed
  <2> QED BY <1>0, <2>1, <2>2, MovesOn
<1> QED BY <1>1, <1>2, <1>3

LEMMA FetchPropertyInv ==
    ASSUME CreationInv, NEW r \in DOMAIN asked, FetchProperty(r)
    PROVE  CreationInv'
<1>0. /\ UNCHANGED <<deals, asked>> /\ pc[r] = "fetch" /\ asked[r].kind = "url"
      /\ local \in [DOMAIN asked -> Local]
  BY DEF FetchProperty, At, CreationInv, CreationTyped
<1>1. CASE Answer(r, [is |-> "not_fetched"]) /\ UNCHANGED <<market, local>>
  <2>1. AnswerKept(r)'
    BY <1>1, PlainAnswer
  <2> QED BY <1>0, <1>1, <2>1, SameTable, GetsAnswer
<1>2. CASE /\ Go(r, "resolve") /\ UNCHANGED outcome
           /\ local' = [local EXCEPT ![r].zpid = PropertyAt[asked[r].url]]
  <2>1. PropertyAt[asked[r].url] \in Zpids
    BY <1>0, RequestKnown, CreationAssumption
  <2>2. /\ local' \in [DOMAIN asked -> Local] /\ local'[r].seen = local[r].seen
        /\ \A q \in DOMAIN asked \ {r} : local'[q] = local[q]
    BY <1>0, <1>2, <2>1 DEF Local
  <2>3. GuardKept(r)' /\ CopyKept(r)'
    BY <1>0, <1>2, <2>2, Moved, RequestKnown DEF GuardKept, CopyKept
  <2> QED BY <1>0, <1>2, <2>2, <2>3, MovesOn
<1> QED BY <1>1, <1>2 DEF FetchProperty

\* What a guard that finds no deal of a property has seen.
LEMMA NoneSeen ==
    ASSUME CreationInv, NEW zpid, ByZpid(zpid) = {}
    PROVE  \A i \in Committed : zpid # None => deals[i].zpid # zpid
  BY DEF ByZpid

LEMMA CommittedSet ==
    ASSUME CreationInv
    PROVE  Committed \in SUBSET Nat
  BY CommittedKnown

LEMMA GuardZpidInv ==
    ASSUME CreationInv, NEW r \in DOMAIN asked, GuardZpid(r)
    PROVE  CreationInv'
<1> DEFINE zpid == local[r].zpid
<1>0. /\ UNCHANGED <<deals, market, asked>> /\ pc[r] = "resolve" /\ asked[r].kind = "url"
      /\ local \in [DOMAIN asked -> Local]
      /\ local' = [local EXCEPT ![r].seen = Committed]
  BY DEF GuardZpid, At, CreationInv, CreationTyped
<1>1. /\ local' \in [DOMAIN asked -> Local]
      /\ local'[r].seen = Committed /\ local'[r].zpid = local[r].zpid
      /\ \A q \in DOMAIN asked \ {r} : local'[q] = local[q]
  BY <1>0, CommittedSet DEF Local
<1>2. CASE zpid \notin DOMAIN market
  <2>1. Answer(r, [is |-> "not_scraped"])
    BY <1>2 DEF GuardZpid
  <2>2. AnswerKept(r)'
    BY <2>1, PlainAnswer
  <2> QED BY <1>0, <1>1, <2>1, <2>2, SameTable, GetsAnswer
<1>3. CASE zpid \in DOMAIN market /\ ByZpid(zpid) # {}
  <2>1. Answer(r, Exists(Oldest(ByZpid(zpid))))
    BY <1>3 DEF GuardZpid
  <2>2. AnswerKept(r)'
    BY <1>0, <1>3, <2>1, ExistsAnswer
  <2> QED BY <1>0, <1>1, <2>1, <2>2, SameTable, GetsAnswer
<1>4. CASE zpid \in DOMAIN market /\ ByZpid(zpid) = {} /\ Contradicts(asked[r].market, zpid)
  <2>1. Answer(r, Mismatch(zpid))
    BY <1>4 DEF GuardZpid
  <2>2. AnswerKept(r)'
    BY <2>1, PlainAnswer DEF Mismatch
  <2> QED BY <1>0, <1>1, <2>1, <2>2, SameTable, GetsAnswer
<1>5. CASE zpid \in DOMAIN market /\ ByZpid(zpid) = {} /\ ~Contradicts(asked[r].market, zpid)
  <2>1. Go(r, "save") /\ UNCHANGED outcome
    BY <1>5 DEF GuardZpid
  <2>2. GuardKept(r)' /\ CopyKept(r)'
    BY <1>0, <1>1, <1>5, <2>1, NoneSeen, Moved, RequestKnown
    DEF GuardKept, CopyKept, Committed
  <2> QED BY <1>0, <1>1, <2>1, <2>2, MovesOn
<1> QED BY <1>2, <1>3, <1>4, <1>5

LEMMA FindByZpidInv ==
    ASSUME CreationInv, NEW r \in DOMAIN asked, FindByZpid(r)
    PROVE  CreationInv'
<1> DEFINE zpid == asked[r].zpid
<1>0. /\ UNCHANGED <<deals, market, asked>> /\ pc[r] = "start" /\ asked[r].kind = "job"
      /\ local \in [DOMAIN asked -> Local]
      /\ local' = [local EXCEPT ![r].zpid = zpid, ![r].seen = Committed]
  BY DEF FindByZpid, At, CreationInv, CreationTyped
<1>1. zpid \in Zpids
  BY <1>0, RequestKnown
<1>2. /\ local' \in [DOMAIN asked -> Local]
      /\ local'[r].seen = Committed /\ local'[r].zpid = zpid
      /\ \A q \in DOMAIN asked \ {r} : local'[q] = local[q]
  BY <1>0, <1>1, CommittedSet DEF Local
<1>3. CASE ByZpid(zpid) # {}
  <2>1. PICK id : Answer(r, [is |-> "skipped", deal |-> id])
    BY <1>3 DEF FindByZpid
  <2>2. AnswerKept(r)'
    BY <2>1, PlainAnswer
  <2> QED BY <1>0, <1>2, <2>1, <2>2, SameTable, GetsAnswer
<1>4. CASE ByZpid(zpid) = {}
  <2>1. Go(r, "by_url") /\ UNCHANGED outcome
    BY <1>4 DEF FindByZpid
  <2>2. GuardKept(r)' /\ CopyKept(r)'
    BY <1>0, <1>2, <1>4, <2>1, NoneSeen, Moved DEF GuardKept, CopyKept, Committed
  <2> QED BY <1>0, <1>2, <2>1, <2>2, MovesOn
<1> QED BY <1>3, <1>4

LEMMA FindByUrlInv ==
    ASSUME CreationInv, NEW r \in DOMAIN asked, FindByUrl(r)
    PROVE  CreationInv'
<1>0. /\ UNCHANGED <<deals, market, asked, local>> /\ pc[r] = "by_url" /\ asked[r].kind = "job"
      /\ local' \in [DOMAIN asked -> Local]
  BY DEF FindByUrl, At, CreationInv, CreationTyped
<1>1. ASSUME NEW given, Answer(r, given), given.is \in {"skipped", "no_price"}
      PROVE  CreationInv'
  <2>1. AnswerKept(r)'
    BY <1>1, PlainAnswer
  <2> QED BY <1>0, <1>1, <2>1, SameTable, GetsAnswer
<1>2. CASE Go(r, "save") /\ UNCHANGED outcome
  <2>1. GuardKept(r)' /\ CopyKept(r)'
    BY <1>0, <1>2, Moved, RequestKnown DEF GuardKept, CopyKept, Committed
  <2> QED BY <1>0, <1>2, <2>1, MovesOn
<1>3. \/ \E given : Answer(r, given) /\ given.is \in {"skipped", "no_price"}
      \/ Go(r, "save") /\ UNCHANGED outcome
  <2> DEFINE found == ByUrl(DetailUrl[asked[r].zpid])
  <2>1. CASE found # {}
    <3>1. Answer(r, [is |-> "skipped", deal |-> Oldest(found)])
      BY <2>1 DEF FindByUrl
    <3> QED BY <3>1
  <2>2. CASE found = {}
    <3>1. \/ Answer(r, [is |-> "no_price"])
          \/ Go(r, "save") /\ UNCHANGED outcome
      BY <2>2 DEF FindByUrl
    <3> QED BY <3>1
  <2> QED BY <2>1, <2>2
<1> QED BY <1>1, <1>2, <1>3

LEMMA AppendKeeps ==
    ASSUME CreationInv, NEW row \in Rows,
           \A s \in DOMAIN deals : NextIn(Append(deals, row), s) = NextIn(deals, s)
    PROVE  KeepsCommitted(deals, Append(deals, row))
<1>1. deals \in Seq(Rows) /\ \A s \in DOMAIN deals : NextIn(deals, s) \in Nat
  BY DEF CreationInv, CreationTyped, RowsInOrder
<1>2. /\ DOMAIN deals \subseteq DOMAIN Append(deals, row)
      /\ \A i \in DOMAIN deals : Append(deals, row)[i] = deals[i]
  <2>1. /\ Len(deals) \in Nat /\ DOMAIN deals = 1 .. Len(deals)
        /\ DOMAIN Append(deals, row) = 1 .. Len(deals) + 1
        /\ \A i \in DOMAIN deals : Append(deals, row)[i] = deals[i]
    BY <1>1, AppendedRows
  <2> QED BY <2>1
<1>3. \A s \in DOMAIN deals : NextIn(Append(deals, row), s) >= NextIn(deals, s)
  BY <1>1
<1> QED BY <1>2, <1>3 DEF KeepsCommitted

LEMMA SaveDealInv ==
    ASSUME CreationInv, NEW r \in DOMAIN asked, SaveDeal(r)
    PROVE  CreationInv'
<1> DEFINE url == IF asked[r].kind = "job" THEN DetailUrl[asked[r].zpid] ELSE asked[r].url
           row == Row(local[r].zpid, url, Len(deals) + 1, 0, "committed", r, local[r].seen)
<1>0. /\ UNCHANGED <<market, asked, local>> /\ pc[r] # "done"
      /\ local' \in [DOMAIN asked -> Local]
      /\ deals \in Seq(Rows) /\ Len(deals) \in Nat /\ asked \in Plans
  BY DEF SaveDeal, At, CreationInv, CreationTyped
<1>1. deals' = Append(deals, row) /\ \E given : given.is = "saved" /\ Answer(r, given)
  BY DEF SaveDeal
<1>2. url \in Urls \cup {None}
  BY RequestKnown, CreationAssumption DEF Asks
<1>3. /\ row.zpid = local[r].zpid /\ row.url = url /\ row.series = Len(deals) + 1
      /\ row.version = 0 /\ row.state = "committed" /\ row.by = r /\ row.seen = local[r].seen
  BY DEF Row
<1>4. row \in Rows
  <2>1. local[r].zpid \in Zpids \cup {None} /\ local[r].seen \in SUBSET Nat
    BY RequestKnown DEF Local
  <2>2. r \in UNION {DOMAIN asks : asks \in Plans}
    BY <1>0
  <2> HIDE DEF url
  <2> QED BY <1>0, <1>2, <2>1, <2>2 DEF Rows, Row
<1> HIDE DEF row, url
<1>5. \A i \in row.seen : /\ i \in DOMAIN deals
                          /\ row.zpid # None => deals[i].zpid # row.zpid
  BY <1>0, <1>3, RequestKnown DEF GuardKept, Committed
<1>6. RowsInOrder(Append(deals, row))
      /\ \A s \in DOMAIN deals : NextIn(Append(deals, row), s) = NextIn(deals, s)
  BY <1>0, <1>3, <1>4, <1>5, Originals DEF CreationInv
<1>7. Append(deals, row) \in Seq(Rows) /\ KeepsCommitted(deals, Append(deals, row))
  BY <1>0, <1>4, <1>6, AppendKeeps, AppendedRows
<1>8. PICK given : given.is = "saved" /\ Answer(r, given)
  BY <1>1
<1>9. AnswerKept(r)'
  BY <1>8, PlainAnswer
<1> QED BY <1>0, <1>1, <1>6, <1>7, <1>8, <1>9, GetsAnswer

LEMMA ReadSourceInv ==
    ASSUME CreationInv, NEW r \in DOMAIN asked, ReadSource(r)
    PROVE  CreationInv'
<1> DEFINE began == NextVersion(deals[asked[r].deal].series)
<1>0. /\ UNCHANGED <<deals, market, asked, outcome>> /\ pc[r] = "start"
      /\ asked[r].kind = "copy" /\ asked[r].deal \in Committed /\ Go(r, "version")
      /\ local \in [DOMAIN asked -> Local]
      /\ local' = [local EXCEPT ![r].began = began]
  BY DEF ReadSource, At, CreationInv, CreationTyped
<1>1. began \in Nat
  BY <1>0, CommittedKnown
<1>2. NextVersion(deals[asked[r].deal].series)' = began
  BY <1>0 DEF NextVersion, Committed
<1> HIDE DEF began
<1>3. /\ local' \in [DOMAIN asked -> Local]
      /\ local'[r].began = began /\ local'[r].attempt = local[r].attempt
      /\ local'[r].seen = local[r].seen /\ local'[r].zpid = local[r].zpid
      /\ \A q \in DOMAIN asked \ {r} : local'[q] = local[q]
  BY <1>0, <1>1 DEF Local
<1>4. GuardKept(r)'
  BY <1>0, <1>3, Moved, RequestKnown DEF GuardKept, Committed
<1>5. CopyKept(r)'
  <2>1. pc'[r] = "version" /\ local'[r].attempt = 0 /\ MaxAttempts \in Nat \ {0}
    BY <1>0, <1>3, Moved, RequestKnown, CreationAssumption DEF CopyKept
  <2>2. asked'[r].deal \in Committed'
    BY <1>0 DEF Committed
  <2> QED BY <1>1, <1>2, <1>3, <2>1, <2>2 DEF CopyKept
<1> QED BY <1>0, <1>3, <1>4, <1>5, MovesOn

LEMMA ReadVersionInv ==
    ASSUME CreationInv, NEW r \in DOMAIN asked, ReadVersion(r)
    PROVE  CreationInv'
<1> DEFINE next == NextVersion(deals[asked[r].deal].series)
<1>0. /\ UNCHANGED <<deals, market, asked, outcome>> /\ pc[r] = "version"
      /\ asked[r].kind = "copy" /\ Go(r, "insert")
      /\ local \in [DOMAIN asked -> Local]
      /\ local' = [local EXCEPT ![r].version = next]
  BY DEF ReadVersion, At, CreationInv, CreationTyped
<1>1. /\ asked[r].deal \in Committed /\ local[r].attempt < MaxAttempts
      /\ next >= local[r].began + local[r].attempt
  BY <1>0, RequestKnown DEF CopyKept
<1>2. next \in Nat /\ next >= 1
  BY <1>1, CommittedKnown
<1>3. NextVersion(deals[asked[r].deal].series)' = next
  BY <1>0 DEF NextVersion, Committed
<1> HIDE DEF next
<1>4. /\ local' \in [DOMAIN asked -> Local]
      /\ local'[r].version = next
      /\ local'[r].began = local[r].began /\ local'[r].attempt = local[r].attempt
      /\ local'[r].seen = local[r].seen /\ local'[r].zpid = local[r].zpid
      /\ \A q \in DOMAIN asked \ {r} : local'[q] = local[q]
  BY <1>0, <1>2 DEF Local
<1>5. GuardKept(r)'
  BY <1>0, <1>4, Moved, RequestKnown DEF GuardKept, Committed
<1>6. CopyKept(r)'
  <2>1. pc'[r] = "insert"
    BY <1>0, Moved
  <2>2. asked'[r].deal \in Committed'
    BY <1>0, <1>1 DEF Committed
  <2> QED BY <1>1, <1>2, <1>3, <1>4, <2>1, <2>2 DEF CopyKept
<1> QED BY <1>0, <1>4, <1>5, <1>6, MovesOn

LEMMA InsertCopyInv ==
    ASSUME CreationInv, NEW r \in DOMAIN asked, InsertCopy(r)
    PROVE  CreationInv'
<1> DEFINE id == asked[r].deal
           source == deals[id]
           version == local[r].version
           next == NextVersion(source.series)
<1>0. /\ UNCHANGED <<market, asked>> /\ pc[r] = "insert" /\ asked[r].kind = "copy"
      /\ local \in [DOMAIN asked -> Local] /\ deals \in Seq(Rows) /\ asked \in Plans
      /\ Holding(source.series, version, {"open"}) = {}
  BY DEF InsertCopy, At, CreationInv, CreationTyped
<1>1. /\ id \in Committed /\ local[r].attempt < MaxAttempts
      /\ version >= 1 /\ version >= local[r].began + local[r].attempt /\ version <= next
      /\ version \in Nat /\ local[r].began \in Nat /\ local[r].attempt \in Nat
      /\ MaxAttempts \in Nat
  BY <1>0, RequestKnown, CreationAssumption DEF CopyKept, Local
<1>2. /\ id \in DOMAIN deals /\ source \in Rows /\ source.state = "committed"
      /\ source.series \in DOMAIN deals /\ source.series \in Nat
      /\ next \in Nat /\ next = NextIn(deals, source.series)
      /\ VersionsIn(deals, source.series) = 0 .. next - 1
  BY <1>0, <1>1, CommittedKnown, NextVersionIs, RowFields
<1>3. CASE Holding(source.series, version, {"committed"}) = {}
  <2> DEFINE row == Row(source.zpid, source.url, source.series, version, "open", r, {})
  <2>1. /\ deals' = Append(deals, row) /\ Go(r, "commit") /\ UNCHANGED <<local, outcome>>
    BY <1>3 DEF InsertCopy
  <2>2. /\ row.zpid = source.zpid /\ row.url = source.url /\ row.series = source.series
        /\ row.version = version /\ row.state = "open" /\ row.seen = {}
    BY DEF Row
  <2>3. row \in Rows
    <3>1. source.zpid \in Zpids \cup {None} /\ source.url \in Urls \cup {None}
      BY <1>2 DEF Rows
    <3>2. r \in UNION {DOMAIN asks : asks \in Plans}
      BY <1>0
    <3> QED BY <1>1, <1>2, <3>1, <3>2 DEF Rows, Row
  <2>4. version = next
    <3>1. version \notin VersionsIn(deals, source.series)
      BY <1>3, VersionsAre DEF Holding
    <3> QED BY <1>1, <1>2, <3>1
  <2> HIDE DEF row
  <2>5. \A i \in DOMAIN deals :
          ~(deals[i].state = "open" /\ deals[i].series = row.series
              /\ deals[i].version = row.version)
    BY <1>0, <2>2 DEF Holding
  <2>6. RowsInOrder(Append(deals, row))
        /\ \A s \in DOMAIN deals : NextIn(Append(deals, row), s) = NextIn(deals, s)
    BY <1>0, <1>2, <2>2, <2>3, <2>4, <2>5, Copies DEF CreationInv
  <2>7. /\ deals' \in Seq(Rows) /\ RowsInOrder(deals') /\ KeepsCommitted(deals, deals')
    BY <1>0, <2>1, <2>3, <2>6, AppendKeeps, AppendedRows
  <2>8. pc'[r] = "commit" /\ DOMAIN pc' = DOMAIN asked /\ DOMAIN outcome' = DOMAIN asked
        /\ local' \in [DOMAIN asked -> Local]
        /\ \A q \in DOMAIN asked \ {r} :
             pc'[q] = pc[q] /\ local'[q] = local[q] /\ outcome'[q] = outcome[q]
    BY <1>0, <2>1, Moved DEF CreationInv, CreationTyped
  <2>9. \A i \in Committed : i \in Committed' /\ deals'[i] = deals[i]
    BY <2>7, CommittedStay
  <2>10. GuardKept(r)'
    <3>1. \A i \in local[r].seen :
            i \in Committed /\ (local[r].zpid # None => deals[i].zpid # local[r].zpid)
      BY <1>0, RequestKnown DEF GuardKept
    <3>2. local'[r] = local[r] /\ asked'[r].kind = "copy" /\ pc'[r] = "commit"
      BY <1>0, <2>1, <2>8
    <3> HIDE DEF id, source, version, next
    <3> QED BY <2>9, <3>1, <3>2 DEF GuardKept
  <2>11. CopyKept(r)'
    BY <2>8 DEF CopyKept
  <2>12. AnswerKept(r)'
    <3>1. outcome'[r] = outcome[r] /\ (outcome[r] # None => outcome[r].is # "conflict")
      BY <1>0, <2>1, RequestKnown DEF AnswerKept
    <3> QED BY <2>9, <3>1, RequestKnown DEF AnswerKept
  <2> QED BY <1>0, <2>7, <2>8, <2>10, <2>11, <2>12, CreationStep
<1>4. CASE Holding(source.series, version, {"committed"}) # {}
  <2>1. next >= version + 1
    <3>1. version \in VersionsIn(deals, source.series)
      BY <1>4, VersionsAre DEF Holding
    <3> QED BY <1>1, <1>2, <3>1
  <2>2. deals' = deals
    BY <1>4 DEF InsertCopy
  <2>3. NextVersion(deals[asked[r].deal].series)' = next /\ Committed' = Committed
    BY <1>0, <2>2 DEF NextVersion, Committed
  <2> HIDE DEF next
  <2>4. CASE local[r].attempt = MaxAttempts - 1
    <3>1. Answer(r, [is |-> "conflict"]) /\ UNCHANGED local
      BY <1>4, <2>4 DEF InsertCopy
    <3>2. AnswerKept(r)'
      <4>1. /\ outcome'[r] = [is |-> "conflict"] /\ pc'[r] = "done"
            /\ outcome'[r].is = "conflict"
        BY <3>1, Answered
      <4>2. next >= local[r].began + MaxAttempts
        BY <1>1, <1>2, <2>1, <2>4 DEF next
      <4>3. asked'[r].deal \in Committed'
        BY <1>0, <1>1, <2>3
      <4> QED BY <2>3, <3>1, <4>1, <4>2, <4>3 DEF AnswerKept
    <3> QED BY <1>0, <2>2, <3>1, <3>2, SameTable, GetsAnswer
  <2>5. CASE local[r].attempt # MaxAttempts - 1
    <3>1. /\ local' = [local EXCEPT ![r].attempt = local[r].attempt + 1]
          /\ Go(r, "version") /\ UNCHANGED outcome
      BY <1>4, <2>5 DEF InsertCopy
    <3>2. /\ local' \in [DOMAIN asked -> Local]
          /\ local'[r].attempt = local[r].attempt + 1 /\ local'[r].began = local[r].began
          /\ local'[r].seen = local[r].seen /\ local'[r].zpid = local[r].zpid
          /\ \A q \in DOMAIN asked \ {r} : local'[q] = local[q]
      <4>1. local[r] \in Local /\ local[r].attempt + 1 \in Nat
        BY <1>0, <1>1
      <4>2. [local[r] EXCEPT !.attempt = local[r].attempt + 1] \in Local
        BY <4>1 DEF Local
      <4>3. local' = [local EXCEPT ![r] = [local[r] EXCEPT !.attempt = local[r].attempt + 1]]
        BY <3>1
      <4> QED BY <1>0, <4>1, <4>2, <4>3 DEF Local
    <3>3. GuardKept(r)'
      BY <1>0, <2>2, <2>3, <3>1, <3>2, Moved, RequestKnown DEF GuardKept
    <3>4. CopyKept(r)'
      <4>1. pc'[r] = "version" /\ asked'[r].deal \in Committed'
        BY <1>0, <1>1, <2>3, <3>1, Moved
      <4>2. local[r].attempt + 1 < MaxAttempts
        BY <1>1, <2>5
      <4>3. next >= local[r].began + (local[r].attempt + 1)
        BY <1>1, <1>2, <2>1 DEF next
      <4> QED BY <2>3, <3>2, <4>1, <4>2, <4>3 DEF CopyKept
    <3> QED BY <1>0, <2>2, <3>1, <3>2, <3>3, <3>4, MovesOn
  <2> QED BY <2>4, <2>5
<1> QED BY <1>3, <1>4

\* The end of a duplicate: its row is committed or lost.
LEMMA EndCopyInv ==
    ASSUME CreationInv, NEW r \in DOMAIN asked, CommitCopy(r) \/ LoseCopy(r)
    PROVE  CreationInv'
<1>0. /\ asked' = asked /\ UNCHANGED local /\ asked[r].kind = "copy"
      /\ local' \in [DOMAIN asked -> Local] /\ deals \in Seq(Rows)
  BY DEF CommitCopy, LoseCopy, At, CreationInv, CreationTyped
<1>1. PICK i \in MineOpen(r), state \in {"committed", "lost"} :
        deals' = [deals EXCEPT ![i].state = state]
  BY DEF CommitCopy, LoseCopy
<1>2. i \in DOMAIN deals /\ deals[i].state = "open"
  BY DEF MineOpen
<1>3. /\ deals' \in Seq(Rows) /\ DOMAIN deals' = DOMAIN deals
      /\ \A k \in DOMAIN deals \ {i} : deals'[k] = deals[k]
  BY <1>0, <1>1, <1>2, EndedRows, Zenon
<1>4. RowsInOrder(deals') /\ \A s \in DOMAIN deals : NextIn(deals', s) >= NextIn(deals, s)
  <2>1. RowsInOrder(deals) /\ \A s \in DOMAIN deals : NextIn(deals, s) \in Nat
    BY DEF CreationInv, RowsInOrder
  <2>2. CASE state = "committed"
    BY <1>0, <1>1, <1>2, <2>1, <2>2, CommittedCopy
  <2>3. CASE state = "lost"
    <3>1. RowsInOrder(deals') /\ \A s \in DOMAIN deals : NextIn(deals', s) = NextIn(deals, s)
      BY <1>0, <1>1, <1>2, <2>1, <2>3, LostCopy
    <3> QED BY <2>1, <3>1
  <2> QED BY <2>2, <2>3
<1>5. KeepsCommitted(deals, deals')
  BY <1>2, <1>3, <1>4 DEF KeepsCommitted
<1>6. PICK given : given.is \in {"copied", "failed"} /\ Answer(r, given)
  <2>1. CASE CommitCopy(r)
    <3>1. PICK k : Answer(r, [is |-> "copied", deal |-> k])
      BY <2>1 DEF CommitCopy
    <3>2. [is |-> "copied", deal |-> k].is \in {"copied", "failed"}
      OBVIOUS
    <3> QED BY <3>1, <3>2
  <2>2. CASE LoseCopy(r)
    <3>1. Answer(r, [is |-> "failed"]) /\ [is |-> "failed"].is \in {"copied", "failed"}
      BY <2>2 DEF LoseCopy
    <3> QED BY <3>1
  <2> QED BY <2>1, <2>2
<1>7. AnswerKept(r)'
  BY <1>6, PlainAnswer
<1> QED BY <1>0, <1>3, <1>4, <1>5, <1>6, <1>7, GetsAnswer

-----------------------------------------------------------------------------
(***************************************************************************)
(* The theorems.                                                           *)
(***************************************************************************)

LEMMA CreationStart == CreationInit => CreationInv
<1> SUFFICES ASSUME CreationInit PROVE CreationInv
  OBVIOUS
<1>1. CreationTyped
  <2>1. [zpid |-> None, version |-> 0, attempt |-> 0, began |-> 0, seen |-> {}] \in Local
    BY DEF Local
  <2>2. local \in [DOMAIN asked -> Local]
    BY <2>1 DEF CreationInit
  <2> QED BY <2>2, CreationAssumption DEF CreationInit, CreationTyped
<1>2. RowsInOrder(deals)
  BY CreationAssumption DEF CreationInit
<1>3. ASSUME NEW r \in DOMAIN asked PROVE GuardKept(r) /\ CopyKept(r) /\ AnswerKept(r)
  BY DEF CreationInit, GuardKept, CopyKept, AnswerKept
<1> QED BY <1>1, <1>2, <1>3 DEF CreationInv

LEMMA CreationSteps == CreationInv /\ [CreationNext]_creationVars => CreationInv'
<1> SUFFICES ASSUME CreationInv, [CreationNext]_creationVars PROVE CreationInv'
  OBVIOUS
<1>1. CASE CreationNext
  BY <1>1, GuardUrlInv, FetchPropertyInv, GuardZpidInv, FindByZpidInv, FindByUrlInv,
     SaveDealInv, ReadSourceInv, ReadVersionInv, InsertCopyInv, EndCopyInv
  DEF CreationNext
<1>2. CASE UNCHANGED creationVars
  <2>1. CreationTyped' /\ RowsInOrder(deals')
    BY <1>2 DEF creationVars, CreationInv, CreationTyped
  <2>2. ASSUME NEW r \in DOMAIN asked PROVE (GuardKept(r) /\ CopyKept(r) /\ AnswerKept(r))'
    <3>1. GuardKept(r) /\ CopyKept(r) /\ AnswerKept(r)
      BY DEF CreationInv
    <3>2. UNCHANGED <<deals, asked, pc, local, outcome>>
      BY <1>2 DEF creationVars
    <3>3. Committed' = Committed
      BY <3>2 DEF Committed
    <3>4. NextVersion(deals[asked[r].deal].series)' = NextVersion(deals[asked[r].deal].series)
      BY <3>2, <3>3 DEF NextVersion
    <3>5. GuardKept(r)'
      BY <3>1, <3>2, <3>3 DEF GuardKept
    <3>6. CopyKept(r)'
      BY <3>1, <3>2, <3>3, <3>4 DEF CopyKept
    <3>7. AnswerKept(r)'
      BY <3>1, <3>2, <3>3, <3>4 DEF AnswerKept
    <3> QED BY <3>5, <3>6, <3>7
  <2>3. asked' = asked
    BY <1>2 DEF creationVars
  <2> QED BY <2>1, <2>2, <2>3 DEF CreationInv
<1> QED BY <1>1, <1>2

\* However creations and duplicates overlap, fail and are retried, the table of
\* deals and what each request knows of it stay in order.
THEOREM CreationInvariant == CreationSpec => []CreationInv
  BY CreationStart, CreationSteps, PTL DEF CreationSpec

LEMMA ContiguousVersions ==
    ASSUME CreationInv
    PROVE  VersionsContiguous
<1> SUFFICES ASSUME NEW i \in Committed
             PROVE  {deals[k].version : k \in SeriesOf(i)} = 0 .. Cardinality(SeriesOf(i)) - 1
  BY DEF VersionsContiguous
<1> DEFINE n == NextVersion(deals[i].series)
           S == SeriesOf(i)
           version == [k \in S |-> deals[k].version]
<1>1. n \in Nat /\ VersionsIn(deals, deals[i].series) = 0 .. n - 1
  BY CommittedKnown
<1> HIDE DEF n
<1>2. {deals[k].version : k \in S} = 0 .. n - 1
  BY <1>1 DEF SeriesOf, VersionsIn, Committed
<1>3. IsFiniteSet(S)
  <2>1. deals \in Seq(Rows)
    BY DEF CreationInv, CreationTyped
  <2>2. S \subseteq 1 .. Len(deals) /\ Len(deals) \in Nat
    BY <2>1 DEF SeriesOf, Committed
  <2>3. IsFiniteSet(1 .. Len(deals))
    BY <2>2, FS_Interval
  <2> HIDE DEF S
  <2> QED BY <2>2, <2>3, FS_Subset
<1>4. version \in Bijection(S, 0 .. n - 1)
  <2>1. version \in [S -> 0 .. n - 1] /\ \A v \in 0 .. n - 1 : \E k \in S : version[k] = v
    BY <1>2
  <2>2. \A a, b \in S : version[a] = version[b] => a = b
    BY DEF SeriesOf, Committed, CreationInv, RowsInOrder
  <2> QED BY <2>1, <2>2 DEF Bijection, Injection, Surjection, IsInjective
<1>5. Cardinality(S) = Cardinality(0 .. n - 1)
  BY <1>3, <1>4, FS_Bijection DEF ExistsBijection
<1>6. Cardinality(0 .. n - 1) = n
  BY <1>1, FS_Interval
<1> QED BY <1>2, <1>5, <1>6

\* Of the deals of a property, versions of a series run 0, 1, ... without gap or
\* repeat; a conflict is others' commits; a second series takes an overlap; and a
\* refused request is sent to an original.
THEOREM CreationIsSafe == CreationSpec => []CreationSafety
<1>1. ASSUME CreationInv PROVE CreationSafety
  <2>1. VersionsContiguous
    BY <1>1, ContiguousVersions
  <2>2. ConflictsCountWinners
    BY <1>1 DEF CreationInv, AnswerKept, ConflictsCountWinners
  <2>3. SecondSeriesOverlaps
    BY <1>1 DEF CreationInv, RowsInOrder, SecondSeriesOverlaps, Committed
  <2>4. RedirectsToOriginals
    BY <1>1 DEF CreationInv, AnswerKept, RedirectsToOriginals
  <2> QED BY <2>1, <2>2, <2>3, <2>4 DEF CreationSafety
<1> QED BY <1>1, CreationInvariant, PTL

-----------------------------------------------------------------------------
(***************************************************************************)
(* Fractions.  A fraction in lowest terms is told by any numerator and     *)
(* denominator it comes from, so each operation is the one of school on    *)
(* Frac(n, d), and an identity of the calculator becomes one of integers.  *)
(***************************************************************************)

\* Common divisors, and the greatest of them.
Divides(a, b, d) == \E j, k \in Nat : a = d * j /\ b = d * k
Greatest(a, b) ==
    CHOOSE d \in Nat \ {0} : Divides(a, b, d) /\ \A e \in Nat \ {0} : Divides(a, b, e) => e <= d

LEMMA ProductsRegroup ==
    \A x, y, z \in Int : (x * y) * z = x * (y * z)
  OBVIOUS

LEMMA SumsMultiply ==
    \A x, y, z \in Int : x * (y + z) = x * y + x * z /\ x * (y - z) = x * y - x * z
  OBVIOUS

LEMMA ProductSigns ==
    \A d \in Nat \ {0}, x \in Int : d * x \in Nat => x \in Nat
<1> SUFFICES ASSUME NEW d \in Nat \ {0}, NEW x \in Int, x < 0 PROVE d * x < 0
  OBVIOUS
<1> QED OBVIOUS

LEMMA DividesRemainder ==
    ASSUME NEW a \in Nat, NEW b \in Nat, b # 0, NEW d \in Nat \ {0}
    PROVE  /\ a % b \in Nat /\ a % b < b
           /\ Divides(a, b, d) <=> Divides(b, a % b, d)
<1>1. PICK q \in Nat, r \in Nat : a = b * q + r /\ r < b /\ q = a \div b /\ r = a % b
  OBVIOUS
<1>2. ASSUME NEW j \in Nat, NEW k \in Nat, a = d * j, b = d * k
      PROVE  Divides(b, r, d)
  <2>1. b * q = d * (k * q)
    BY <1>2, ProductsRegroup
  <2>2. PICK m \in Nat : m = k * q
    OBVIOUS
  <2>3. d * (j - m) = d * j - d * m
    BY SumsMultiply
  <2>4. PICK x \in Int : x = j - m
    OBVIOUS
  <2>5. r = d * x
    <3>1. d * j = d * m + r
      BY <1>1, <1>2, <2>1, <2>2
    <3>2. d * x = d * j - d * m
      BY <2>3, <2>4
    <3> HIDE <2>1
    <3> QED BY <3>1, <3>2
  <2>6. x \in Nat
    BY <2>5, ProductSigns
  <2> QED BY <1>2, <2>5, <2>6, Zenon DEF Divides
<1>3. ASSUME NEW j \in Nat, NEW k \in Nat, b = d * j, r = d * k
      PROVE  Divides(a, b, d)
  <2>1. b * q = d * (j * q)
    BY <1>3, ProductsRegroup
  <2>2. PICK m \in Nat : m = j * q
    OBVIOUS
  <2>3. d * (m + k) = d * m + d * k /\ m + k \in Nat
    BY SumsMultiply
  <2>4. a = d * (m + k)
    BY <1>1, <1>3, <2>1, <2>2, <2>3
  <2> QED BY <1>3, <2>3, <2>4, Zenon DEF Divides
<1>4. Divides(a, b, d) <=> Divides(b, r, d)
  BY <1>2, <1>3 DEF Divides
<1> QED BY <1>1, <1>4

LEMMA GreatestSteps ==
    ASSUME NEW a \in Nat, NEW b \in Nat, b # 0
    PROVE  Greatest(a, b) = IF a % b = 0 THEN b ELSE Greatest(b, a % b)
<1>1. a % b \in Nat /\ \A d \in Nat \ {0} : Divides(a, b, d) <=> Divides(b, a % b, d)
  BY DividesRemainder
<1>2. CASE a % b # 0
  <2> DEFINE Is(m, n, d) == /\ d \in Nat \ {0} /\ Divides(m, n, d)
                            /\ \A e \in Nat \ {0} : Divides(m, n, e) => e <= d
  <2>1. \A d : Is(a, b, d) <=> Is(b, a % b, d)
    BY <1>1, Zenon
  <2>2. /\ Greatest(a, b) = CHOOSE d : Is(a, b, d)
        /\ Greatest(b, a % b) = CHOOSE d : Is(b, a % b, d)
    BY Zenon DEF Greatest
  <2> HIDE DEF Is
  <2>3. (CHOOSE d : Is(a, b, d)) = (CHOOSE d : Is(b, a % b, d))
    BY <2>1
  <2> QED BY <1>2, <2>2, <2>3
<1>3. CASE a % b = 0
  <2>1. Divides(b, 0, b)
    <3>1. b = b * 1 /\ 0 = b * 0
      OBVIOUS
    <3> QED BY <3>1 DEF Divides
  <2>2. Divides(a, b, b)
    BY <1>1, <1>3, <2>1
  <2>3. ASSUME NEW e \in Nat \ {0}, Divides(a, b, e)
        PROVE  e <= b
    <3>1. PICK k \in Nat : b = e * k
      BY <2>3 DEF Divides
    <3>2. k # 0
      BY <3>1
    <3> QED BY <3>1, <3>2
  <2>4. ASSUME NEW d \in Nat \ {0}, Divides(a, b, d), \A e \in Nat \ {0} : Divides(a, b, e) => e <= d
        PROVE  d = b
    BY <2>2, <2>3, <2>4
  <2>5. Greatest(a, b) = b
    <3> DEFINE Is(d) == Divides(a, b, d) /\ \A e \in Nat \ {0} : Divides(a, b, e) => e <= d
    <3>1. b \in Nat \ {0} /\ Is(b)
      BY <2>2, <2>3
    <3>2. \A d \in Nat \ {0} : Is(d) => d = b
      BY <2>4
    <3>3. Greatest(a, b) = CHOOSE d \in Nat \ {0} : Is(d)
      BY DEF Greatest
    <3> HIDE DEF Is
    <3> QED BY <3>1, <3>2, <3>3
  <2> QED BY <1>3, <2>5
<1> QED BY <1>2, <1>3

\* The recursive definition has a solution, so it holds.
LEMMA DivisorSteps ==
    /\ \A a \in Nat : Divisor[<<a, 0>>] = a
    /\ \A a \in Nat, b \in Nat : b # 0 => Divisor[<<a, b>>] = Divisor[<<b, a % b>>]
<1> DEFINE G(p) == IF p[2] = 0 THEN p[1] ELSE Greatest(p[1], p[2])
           g == [p \in Nat \X Nat |-> G(p)]
           Solves(f) == f = [p \in Nat \X Nat |-> IF p[2] = 0 THEN p[1] ELSE f[<<p[2], p[1] % p[2]>>]]
<1>1. ASSUME NEW a \in Nat, NEW b \in Nat
      PROVE  G(<<a, b>>) = IF b = 0 THEN a ELSE g[<<b, a % b>>]
  <2>1. CASE b = 0
    BY <2>1
  <2>2. CASE b # 0
    <3>1. a % b \in Nat
      BY <2>2, DividesRemainder
    <3>2. g[<<b, a % b>>] = IF a % b = 0 THEN b ELSE Greatest(b, a % b)
      BY <3>1
    <3>3. G(<<a, b>>) = Greatest(a, b)
      BY <2>2
    <3> QED BY <2>2, <3>2, <3>3, GreatestSteps
  <2> QED BY <2>1, <2>2
<1>2. Solves(g)
  <2>1. \A p \in Nat \X Nat : G(p) = IF p[2] = 0 THEN p[1] ELSE g[<<p[2], p[1] % p[2]>>]
    <3> SUFFICES ASSUME NEW p \in Nat \X Nat
                 PROVE  G(p) = IF p[2] = 0 THEN p[1] ELSE g[<<p[2], p[1] % p[2]>>]
      OBVIOUS
    <3>1. PICK a \in Nat, b \in Nat : p = <<a, b>>
      OBVIOUS
    <3>2. p[1] = a /\ p[2] = b
      BY <3>1
    <3>3. G(<<a, b>>) = IF b = 0 THEN a ELSE g[<<b, a % b>>]
      BY <1>1
    <3> HIDE DEF g
    <3> QED BY <3>1, <3>2, <3>3
  <2> QED BY <2>1, Zenon
<1>3. Solves(Divisor)
  <2>1. Divisor = CHOOSE f : Solves(f)
    BY DEF Divisor
  <2> HIDE DEF Solves, g
  <2> QED BY <1>2, <2>1, Zenon
<1>4. ASSUME NEW a \in Nat, NEW b \in Nat
      PROVE  Divisor[<<a, b>>] = IF b = 0 THEN a ELSE Divisor[<<b, a % b>>]
  BY <1>3
<1> QED BY <1>4

LEMMA DivisionIsUnique ==
    ASSUME NEW y \in Nat \ {0}, NEW q \in Int, NEW r \in Nat, r < y
    PROVE  (y * q + r) % y = r /\ (y * q + r) \div y = q
<1>1. PICK x \in Int : x = y * q + r
  OBVIOUS
<1>2. PICK c \in Int, s \in Nat : x = y * c + s /\ s < y /\ c = x \div y /\ s = x % y
  OBVIOUS
<1>3. y * (q - c) = y * q - y * c
  BY SumsMultiply
<1>4. PICK d \in Int : d = q - c
  OBVIOUS
<1>5. y * d = s - r
  BY <1>1, <1>2, <1>3, <1>4
<1>6. ~ d >= 1
  <2>1. ASSUME d >= 1 PROVE y * d >= y
    BY <2>1
  <2> QED BY <1>2, <1>5, <2>1
<1>7. ~ d <= -1
  <2>1. ASSUME d <= -1 PROVE y * d <= -y
    BY <2>1
  <2> QED BY <1>2, <1>5, <2>1
<1>8. d = 0 /\ y * 0 = 0
  BY <1>6, <1>7
<1> QED BY <1>1, <1>2, <1>4, <1>5, <1>8

LEMMA DivisorDivides ==
    \A a \in Nat, b \in Nat :
        /\ Divisor[<<a, b>>] \in Nat
        /\ a # 0 \/ b # 0 => /\ Divisor[<<a, b>>] # 0
                             /\ Divides(a, b, Divisor[<<a, b>>])
<1> DEFINE Holds(a, b) ==
             /\ Divisor[<<a, b>>] \in Nat
             /\ a # 0 \/ b # 0 => /\ Divisor[<<a, b>>] # 0
                                  /\ Divides(a, b, Divisor[<<a, b>>])
           Bad == {b \in Nat : \E a \in Nat : ~Holds(a, b)}
<1>1. ASSUME NEW b \in Nat, b \in Bad, \A x \in Bad : b <= x
      PROVE  FALSE
  <2>1. PICK a \in Nat : ~Holds(a, b)
    BY <1>1
  <2>2. CASE b = 0
    <3>1. Divisor[<<a, b>>] = a
      BY <2>2, DivisorSteps
    <3>2. a = a * 1 /\ b = a * 0
      BY <2>2
    <3>3. Divides(a, b, a)
      BY <3>2 DEF Divides
    <3> QED BY <2>1, <2>2, <3>1, <3>3
  <2>3. CASE b # 0
    <3>1. PICK r \in Nat : r = a % b /\ r < b
      BY <2>3, DividesRemainder
    <3>2. Holds(b, r)
      <4> HIDE DEF Holds
      <4>1. r \notin Bad
        <5> HIDE DEF Bad
        <5> QED BY <1>1, <3>1
      <4> QED BY <4>1
    <3>3. PICK g \in Nat : g = Divisor[<<b, r>>] /\ g # 0 /\ Divides(b, r, g)
      BY <2>3, <3>2
    <3>4. Divisor[<<a, b>>] = g
      BY <2>3, <3>1, <3>3, DivisorSteps
    <3>5. Divides(a, b, g)
      BY <2>3, <3>1, <3>3, DividesRemainder
    <3> QED BY <2>1, <3>3, <3>4, <3>5
  <2> QED BY <2>2, <2>3
<1>2. Bad = {}
  <2> HIDE DEF Holds
  <2>1. Bad \subseteq Nat
    OBVIOUS
  <2> HIDE DEF Bad
  <2> QED BY <1>1, <2>1, LeastNat
<1>3. \A a \in Nat, b \in Nat : Holds(a, b)
  <2> HIDE DEF Holds
  <2> QED BY <1>2
<1> QED BY <1>3

LEMMA DivisorScales ==
    \A k \in Nat \ {0}, a \in Nat, b \in Nat : Divisor[<<k * a, k * b>>] = k * Divisor[<<a, b>>]
<1> SUFFICES ASSUME NEW k \in Nat \ {0}
             PROVE  \A a \in Nat, b \in Nat : Divisor[<<k * a, k * b>>] = k * Divisor[<<a, b>>]
  OBVIOUS
<1> DEFINE Holds(a, b) == Divisor[<<k * a, k * b>>] = k * Divisor[<<a, b>>]
           Bad == {b \in Nat : \E a \in Nat : ~Holds(a, b)}
<1>1. ASSUME NEW b \in Nat, b \in Bad, \A x \in Bad : b <= x
      PROVE  FALSE
  <2>1. PICK a \in Nat : ~Holds(a, b)
    BY <1>1
  <2>2. PICK ka \in Nat, kb \in Nat : ka = k * a /\ kb = k * b
    OBVIOUS
  <2>3. CASE b = 0
    <3>1. kb = 0
      BY <2>2, <2>3
    <3>2. Divisor[<<ka, kb>>] = ka /\ Divisor[<<a, b>>] = a
      BY <2>3, <3>1, DivisorSteps
    <3> QED BY <2>1, <2>2, <3>2
  <2>4. CASE b # 0
    <3>1. PICK q \in Nat, r \in Nat : a = b * q + r /\ r < b /\ r = a % b
      BY <2>4
    <3>2. PICK kr \in Nat : kr = k * r
      OBVIOUS
    <3>3. k * (b - r) = kb - kr /\ k * (b * q + r) = k * (b * q) + kr /\ k * (b * q) = kb * q
      BY <2>2, <3>2, SumsMultiply, ProductsRegroup
    <3>4. ka = kb * q + kr
      BY <2>2, <3>1, <3>3
    <3>5. kr < kb /\ kb # 0
      <4>1. PICK x \in Nat \ {0} : x = b - r
        BY <3>1
      <4>2. k * x # 0 /\ k * x \in Nat
        OBVIOUS
      <4> QED BY <3>3, <4>1, <4>2
    <3>6. kr = ka % kb
      BY <3>4, <3>5, DivisionIsUnique
    <3>7. Holds(b, r)
      <4> HIDE DEF Holds
      <4>1. r \notin Bad
        <5> HIDE DEF Bad
        <5> QED BY <1>1, <3>1
      <4> QED BY <4>1
    <3>8. Divisor[<<ka, kb>>] = Divisor[<<kb, kr>>] /\ Divisor[<<a, b>>] = Divisor[<<b, r>>]
      BY <2>4, <3>1, <3>5, <3>6, DivisorSteps
    <3> QED BY <2>1, <2>2, <3>2, <3>7, <3>8
  <2> QED BY <2>3, <2>4
<1>2. Bad = {}
  <2> HIDE DEF Holds
  <2>1. Bad \subseteq Nat
    OBVIOUS
  <2> HIDE DEF Bad
  <2> QED BY <1>1, <2>1, LeastNat
<1>3. \A a \in Nat, b \in Nat : Holds(a, b)
  <2> HIDE DEF Holds
  <2> QED BY <1>2
<1> QED BY <1>3

LEMMA MagnitudeIs ==
    \A i \in Int : Magnitude(i) \in Nat /\ (i >= 0 => Magnitude(i) = i) /\ (i < 0 => Magnitude(i) = -i)
  BY DEF Magnitude

LEMMA QuotientIs ==
    \A g \in Nat \ {0}, p \in Int : (g * p) \div g = p
<1> SUFFICES ASSUME NEW g \in Nat \ {0}, NEW p \in Int PROVE (g * p) \div g = p
  OBVIOUS
<1>1. (g * p + 0) \div g = p
  BY DivisionIsUnique
<1>2. g * p + 0 = g * p
  OBVIOUS
<1> QED BY <1>1, <1>2

\* A fraction is what is left when the divisor is taken out.
LEMMA FracFound ==
    ASSUME NEW g \in Nat \ {0}, NEW p \in Int, NEW q \in Nat \ {0}, NEW n \in Int, NEW d \in Nat \ {0},
           n = g * p, d = g * q, g = Divisor[<<Magnitude(n), d>>]
    PROVE  Frac(n, d) = [num |-> p, den |-> q]
<1>1. n \div g = p /\ d \div g = q
  <2>1. \A i \in Int : (g * i) \div g = i
    BY QuotientIs
  <2>2. (g * p) \div g = p /\ (g * q) \div g = q
    BY <2>1
  <2> QED BY <2>2, Zenon
<1>2. ~(d < 0) /\ Magnitude(d) = d
  BY MagnitudeIs
<1>3. Frac(n, d) = Lowest(n, d, g)
  BY <1>2 DEF Frac
<1> QED BY <1>1, <1>3 DEF Lowest

\* n / d is p / q in lowest terms, and g is what was taken out.
Form(n, d, g, p, q) ==
    /\ n = g * p /\ d = g * q /\ g = Divisor[<<Magnitude(n), d>>]
    /\ Frac(n, d) = [num |-> p, den |-> q]
    /\ Divisor[<<Magnitude(p), q>>] = 1

LEMMA FracForm ==
    ASSUME NEW n \in Int, NEW d \in Nat \ {0}
    PROVE  \E g \in Nat \ {0}, p \in Int, q \in Nat \ {0} : Form(n, d, g, p, q)
<1>1. PICK m \in Nat : m = Magnitude(n)
  BY MagnitudeIs
<1>2. PICK g \in Nat \ {0} : g = Divisor[<<m, d>>] /\ Divides(m, d, g)
  BY DivisorDivides
<1>3. PICK j \in Nat, q \in Nat : m = g * j /\ d = g * q
  BY <1>2 DEF Divides
<1>4. q # 0
  <2>1. g * 0 = 0
    OBVIOUS
  <2> QED BY <1>3, <2>1
<1>5. PICK p \in Int : n = g * p /\ Magnitude(p) = j
  <2>1. CASE n >= 0
    <3>1. n = g * j
      BY <1>1, <1>3, <2>1, MagnitudeIs
    <3>2. j \in Int /\ Magnitude(j) = j
      BY MagnitudeIs
    <3> QED BY <3>1, <3>2, Zenon
  <2>2. CASE n < 0
    <3>1. g * (0 - j) = g * 0 - g * j /\ g * 0 = 0
      BY SumsMultiply
    <3>2. n = 0 - g * j
      <4>1. m = 0 - n
        BY <1>1, <2>2, MagnitudeIs
      <4>2. PICK x \in Int : x = g * j
        OBVIOUS
      <4> QED BY <1>3, <4>1, <4>2
    <3>3. j # 0
      BY <3>1, <3>2, <2>2
    <3>4. Magnitude(0 - j) = j
      BY <3>3, MagnitudeIs
    <3>5. 0 - j \in Int /\ n = g * (0 - j)
      BY <3>1, <3>2
    <3> QED BY <3>4, <3>5, Zenon
  <2> QED BY <2>1, <2>2
<1>6. Frac(n, d) = [num |-> p, den |-> q]
  <2>1. q \in Nat \ {0} /\ d = g * q /\ g = Divisor[<<Magnitude(n), d>>] /\ n = g * p
    BY <1>1, <1>2, <1>3, <1>4, <1>5
  <2> QED BY <2>1, FracFound
<1>7. Divisor[<<Magnitude(p), q>>] = 1
  <2>1. g = g * Divisor[<<j, q>>]
    BY <1>2, <1>3, DivisorScales
  <2>2. PICK t \in Nat : t = Divisor[<<j, q>>]
    BY DivisorDivides
  <2>3. g * t = g => t = 1
    <3>1. PICK u \in Int : u = t - 1
      OBVIOUS
    <3>2. g * (t - 1) = g * t - g * 1 /\ g * 1 = g
      BY SumsMultiply
    <3>3. g * u = 0 => u = 0
      OBVIOUS
    <3> QED BY <3>1, <3>2, <3>3
  <2> QED BY <1>5, <2>1, <2>2, <2>3
<1>8. Form(n, d, g, p, q)
  BY <1>1, <1>2, <1>3, <1>4, <1>5, <1>6, <1>7 DEF Form
<1> QED BY <1>4, <1>8

LEMMA FracScales ==
    \A k \in Nat \ {0}, n \in Int, d \in Nat \ {0} : Frac(k * n, k * d) = Frac(n, d)
<1> SUFFICES ASSUME NEW k \in Nat \ {0}, NEW n \in Int, NEW d \in Nat \ {0}
             PROVE  Frac(k * n, k * d) = Frac(n, d)
  OBVIOUS
<1>1. PICK g \in Nat \ {0}, p \in Int, q \in Nat \ {0} : Form(n, d, g, p, q)
  BY FracForm
<1> USE DEF Form
<1>2. PICK kn \in Int, kd \in Nat \ {0}, kg \in Nat \ {0} : kn = k * n /\ kd = k * d /\ kg = k * g
  <2>1. k * n \in Int /\ k * d \in Nat \ {0} /\ k * g \in Nat \ {0}
    OBVIOUS
  <2> QED BY <2>1
<1>3. kn = kg * p /\ kd = kg * q
  <2>1. (k * g) * p = k * (g * p) /\ (k * g) * q = k * (g * q)
    BY ProductsRegroup
  <2> QED BY <1>1, <1>2, <2>1, Zenon
<1>4. Magnitude(kn) = k * Magnitude(n)
  <2>1. CASE n >= 0
    <3>1. kn >= 0
      BY <1>2, <2>1
    <3> QED BY <1>2, <2>1, <3>1, MagnitudeIs
  <2>2. CASE n < 0
    <3>1. kn < 0
      BY <1>2, <2>2
    <3>2. k * (0 - n) = k * 0 - k * n /\ k * 0 = 0
      BY SumsMultiply
    <3>3. Magnitude(n) = 0 - n /\ Magnitude(kn) = 0 - kn
      BY <3>1, <2>2, MagnitudeIs
    <3> QED BY <1>2, <3>2, <3>3
  <2> QED BY <2>1, <2>2
<1>5. kg = Divisor[<<Magnitude(kn), kd>>]
  <2>1. PICK m \in Nat : m = Magnitude(n)
    BY MagnitudeIs
  <2>2. Divisor[<<k * m, k * d>>] = k * Divisor[<<m, d>>]
    BY DivisorScales
  <2> QED BY <1>1, <1>2, <1>4, <2>1, <2>2, Zenon
<1>6. Frac(kn, kd) = [num |-> p, den |-> q]
  BY <1>3, <1>5, FracFound
<1> QED BY <1>1, <1>2, <1>6, Zenon

LEMMA FracCross ==
    ASSUME NEW n \in Int, NEW d \in Nat \ {0}, NEW m \in Int, NEW e \in Nat \ {0}, n * e = m * d
    PROVE  Frac(n, d) = Frac(m, e)
<1>1. Frac(n, d) = Frac(e * n, e * d) /\ Frac(m, e) = Frac(d * m, d * e)
  BY FracScales
<1>2. e * n = n * e /\ m * d = d * m /\ e * d = d * e
  OBVIOUS
<1> QED BY <1>1, <1>2

\* A fraction in lowest terms is its own.
LEMMA FracIs ==
    ASSUME NEW n \in Int, NEW d \in Nat \ {0}
    PROVE  \E p \in Int, q \in Nat \ {0} :
               Frac(n, d) = [num |-> p, den |-> q] /\ Frac(p, q) = [num |-> p, den |-> q]
<1>1. PICK g \in Nat \ {0}, p \in Int, q \in Nat \ {0} : Form(n, d, g, p, q)
  BY FracForm
<1> USE DEF Form
<1>2. p = 1 * p /\ q = 1 * q
  OBVIOUS
<1>3. Frac(p, q) = [num |-> p, den |-> q]
  BY <1>1, <1>2, FracFound
<1> QED BY <1>1, <1>3

LEMMA WholeIs ==
    \A i \in Int : Whole(i) = Frac(i, 1)
<1> SUFFICES ASSUME NEW i \in Int PROVE Whole(i) = Frac(i, 1)
  OBVIOUS
<1>0. 1 \in Nat \ {0}
  OBVIOUS
<1>1. PICK g \in Nat \ {0}, p \in Int, q \in Nat \ {0} : Form(i, 1, g, p, q)
  BY <1>0, FracForm
<1> USE DEF Form
<1>2. g = 1 /\ q = 1
  <2>1. g >= 2 => g * q >= 2
    OBVIOUS
  <2>2. g = 1
    BY <1>1, <2>1
  <2> QED BY <1>1, <2>2
<1>3. p = i
  <2>1. 1 * p = p
    OBVIOUS
  <2> QED BY <1>1, <1>2, <2>1
<1> QED BY <1>1, <1>2, <1>3 DEF Whole

LEMMA FracTurns ==
    \A n \in Int, d \in Int : d < 0 => Frac(n, d) = Frac(0 - n, 0 - d)
<1> SUFFICES ASSUME NEW n \in Int, NEW d \in Int, d < 0 PROVE Frac(n, d) = Frac(0 - n, 0 - d)
  OBVIOUS
<1>1. -n = 0 - n /\ ~(0 - d < 0) /\ Magnitude(d) = 0 - d /\ Magnitude(0 - d) = 0 - d
  BY MagnitudeIs
<1>2. Magnitude(n) = Magnitude(0 - n)
  BY DEF Magnitude
<1> QED BY <1>1, <1>2, Zenon DEF Frac

LEMMA ScaledSum ==
    \A g, h, e, p, k, r, j \in Int :
        (g * p) * (h * (e * k)) + (h * r) * (g * (e * j)) = ((g * h) * e) * (p * k + r * j)
  OBVIOUS

LEMMA ScaledProduct ==
    \A g, h, u, v, p, r \in Int :
        (g * (u * p)) * (h * (v * r)) = ((g * h) * (u * v)) * (p * r)
  OBVIOUS

LEMMA Sizes ==
    \A x, y \in Nat \ {0} : x * y \in Nat \ {0}
  OBVIOUS

LEMMA PlusOf ==
    ASSUME NEW a \in Int, NEW b \in Nat \ {0}, NEW c \in Int, NEW d \in Nat \ {0}
    PROVE  Plus(Frac(a, b), Frac(c, d)) = Frac(a * d + c * b, b * d)
<1>1. PICK g \in Nat \ {0}, p \in Int, q \in Nat \ {0} : Form(a, b, g, p, q)
  BY FracForm
<1>2. PICK h \in Nat \ {0}, r \in Int, s \in Nat \ {0} : Form(c, d, h, r, s)
  BY FracForm
<1> USE DEF Form
<1>3. PICK e \in Nat \ {0} : e = Divisor[<<q, s>>] /\ Divides(q, s, e)
  BY DivisorDivides
<1>4. PICK j \in Nat, k \in Nat : q = e * j /\ s = e * k
  BY <1>3 DEF Divides
<1>5. q \div e = j /\ s \div e = k
  BY <1>4, QuotientIs
<1>6. k # 0
  <2>1. e * 0 = 0
    OBVIOUS
  <2> QED BY <1>4, <2>1
<1>7. Plus(Frac(a, b), Frac(c, d)) = Frac(p * k + r * j, q * k)
  <2>1. PICK x, y : x = Frac(a, b) /\ y = Frac(c, d)
    OBVIOUS
  <2>2. x.num = p /\ x.den = q /\ y.num = r /\ y.den = s
    BY <1>1, <1>2, <2>1
  <2>3. Plus(x, y) = Frac(p * k + r * j, q * k)
    BY <1>3, <1>5, <2>2, Zenon DEF Plus
  <2> QED BY <2>1, <2>3
<1>8. PICK n \in Int, m \in Nat \ {0}, t \in Nat \ {0} :
          n = p * k + r * j /\ m = q * k /\ t = (g * h) * e
  <2>1. q * k \in Nat \ {0} /\ g * h \in Nat \ {0}
    BY <1>6, Sizes
  <2>2. (g * h) * e \in Nat \ {0} /\ p * k + r * j \in Int
    BY <2>1, Sizes
  <2> QED BY <2>1, <2>2
<1>9. a * d + c * b = t * n
  <2>1. a * d + c * b = (g * p) * (h * (e * k)) + (h * r) * (g * (e * j))
    BY <1>1, <1>2, <1>4
  <2>2. (g * p) * (h * (e * k)) + (h * r) * (g * (e * j)) = ((g * h) * e) * (p * k + r * j)
    BY ScaledSum
  <2> QED BY <1>8, <2>1, <2>2
<1>10. b * d = t * m
  <2>1. b * d = (g * q) * (h * (e * k))
    BY <1>1, <1>2, <1>4
  <2>2. (g * q) * (h * (e * k)) = ((g * h) * e) * (q * k)
    <3>1. \A x, y, z, u, v \in Int : (x * u) * (y * (z * v)) = ((x * y) * z) * (u * v)
      OBVIOUS
    <3> QED BY <3>1
  <2> QED BY <1>8, <2>1, <2>2
<1>11. Frac(t * n, t * m) = Frac(n, m)
  <2>1. \A top \in Int, bottom \in Nat \ {0} :
            Frac(t * top, t * bottom) = Frac(top, bottom)
    BY FracScales
  <2> QED BY <2>1
<1> QED BY <1>7, <1>8, <1>9, <1>10, <1>11

LEMMA MinusOf ==
    ASSUME NEW a \in Int, NEW b \in Nat \ {0}, NEW c \in Int, NEW d \in Nat \ {0}
    PROVE  Minus(Frac(a, b), Frac(c, d)) = Frac(a * d - c * b, b * d)
<1>1. PICK h \in Nat \ {0}, r \in Int, s \in Nat \ {0} : Form(c, d, h, r, s)
  BY FracForm
<1> USE DEF Form
<1>2. PICK m \in Int, t \in Int : m = 0 - c /\ t = 0 - r
  OBVIOUS
<1>3. m = h * t /\ Magnitude(m) = Magnitude(c)
  <2>1. h * (0 - r) = h * 0 - h * r /\ h * 0 = 0
    BY SumsMultiply
  <2>2. Magnitude(m) = Magnitude(c)
    BY <1>2 DEF Magnitude
  <2> QED BY <1>1, <1>2, <2>1, <2>2
<1>4. h = Divisor[<<Magnitude(m), d>>]
  BY <1>1, <1>3
<1>5. Frac(m, d) = [num |-> t, den |-> s]
  BY <1>1, <1>3, <1>4, FracFound
<1>6. Minus(Frac(a, b), Frac(c, d)) = Plus(Frac(a, b), Frac(m, d))
  <2>1. PICK y : y = Frac(c, d)
    OBVIOUS
  <2>2. [y EXCEPT !.num = -y.num] = [num |-> t, den |-> s]
    BY <1>1, <1>2, <2>1
  <2>3. [y EXCEPT !.num = -y.num] = Frac(m, d)
    BY <1>5, <2>2
  <2> QED BY <2>1, <2>3, Zenon DEF Minus
<1>7. Plus(Frac(a, b), Frac(m, d)) = Frac(a * d + m * b, b * d)
  BY PlusOf
<1>8. a * d + m * b = a * d - c * b
  <2>1. (0 - c) * b = 0 - c * b
    OBVIOUS
  <2> QED BY <1>2, <2>1
<1> QED BY <1>6, <1>7, <1>8

LEMMA TimesOf ==
    ASSUME NEW a \in Int, NEW b \in Nat \ {0}, NEW c \in Int, NEW d \in Nat \ {0}
    PROVE  Times(Frac(a, b), Frac(c, d)) = Frac(a * c, b * d)
<1>1. PICK g \in Nat \ {0}, p \in Int, q \in Nat \ {0} : Form(a, b, g, p, q)
  BY FracForm
<1>2. PICK h \in Nat \ {0}, r \in Int, s \in Nat \ {0} : Form(c, d, h, r, s)
  BY FracForm
<1>3. PICK u \in Nat \ {0}, i \in Int, l \in Nat \ {0} : Form(p, s, u, i, l)
  BY FracForm
<1>4. PICK v \in Nat \ {0}, w \in Int, z \in Nat \ {0} : Form(r, q, v, w, z)
  BY FracForm
<1> USE DEF Form
<1>5. Times(Frac(a, b), Frac(c, d)) = Frac(i * w, l * z)
  <2>1. PICK x, y : x = Frac(a, b) /\ y = Frac(c, d)
    OBVIOUS
  <2>2. x.num = p /\ x.den = q /\ y.num = r /\ y.den = s
    BY <1>1, <1>2, <2>1
  <2>3. PICK e, f : e = Frac(p, s) /\ f = Frac(r, q)
    OBVIOUS
  <2>4. e.num = i /\ e.den = l /\ f.num = w /\ f.den = z
    BY <1>3, <1>4, <2>3
  <2>5. Times(x, y) = Joined(e, f)
    BY <2>2, <2>3, Zenon DEF Times
  <2>6. Joined(e, f) = Frac(i * w, l * z)
    BY <2>4, Zenon DEF Joined
  <2> QED BY <2>1, <2>5, <2>6
<1>6. PICK n \in Int, m \in Nat \ {0}, t \in Nat \ {0} :
          n = i * w /\ m = l * z /\ t = (g * h) * (u * v)
  <2>1. l * z \in Nat \ {0} /\ g * h \in Nat \ {0} /\ u * v \in Nat \ {0}
    BY Sizes
  <2>2. (g * h) * (u * v) \in Nat \ {0} /\ i * w \in Int
    BY <2>1, Sizes
  <2> QED BY <2>1, <2>2
<1>7. a * c = t * n
  <2>1. (g * (u * i)) * (h * (v * w)) = ((g * h) * (u * v)) * (i * w)
    BY ScaledProduct
  <2> QED BY <1>1, <1>2, <1>3, <1>4, <1>6, <2>1, Zenon
<1>8. b * d = t * m
  <2>1. (g * (v * z)) * (h * (u * l)) = ((g * h) * (v * u)) * (z * l)
    BY ScaledProduct
  <2>2. v * u = u * v /\ z * l = l * z
    OBVIOUS
  <2> QED BY <1>1, <1>2, <1>3, <1>4, <1>6, <2>1, <2>2, Zenon
<1>9. Frac(t * n, t * m) = Frac(n, m)
  <2>1. \A x \in Int, y \in Nat \ {0} : Frac(t * x, t * y) = Frac(x, y)
    BY FracScales
  <2> QED BY <2>1
<1> QED BY <1>5, <1>6, <1>7, <1>8, <1>9

LEMMA OverOf ==
    ASSUME NEW a \in Int, NEW b \in Nat \ {0}, NEW c \in Int, NEW d \in Nat \ {0}, c # 0
    PROVE  /\ c > 0 => Over(Frac(a, b), Frac(c, d)) = Frac(a * d, b * c)
           /\ c < 0 => Over(Frac(a, b), Frac(c, d)) = Frac(a * (0 - d), b * (0 - c))
<1>1. PICK h \in Nat \ {0}, r \in Int, s \in Nat \ {0} : Form(c, d, h, r, s)
  BY FracForm
<1> USE DEF Form
<1>2. Over(Frac(a, b), Frac(c, d)) = Times(Frac(a, b), Frac(s, r))
  <2>1. PICK y : y = Frac(c, d)
    OBVIOUS
  <2>2. y.num = r /\ y.den = s
    BY <1>1, <2>1
  <2> QED BY <2>1, <2>2, Zenon DEF Over
<1>3. ASSUME c > 0
      PROVE  Over(Frac(a, b), Frac(c, d)) = Frac(a * d, b * c)
  <2>1. r > 0
    <3>1. r <= 0 => h * r <= 0
      OBVIOUS
    <3> QED BY <1>1, <1>3, <3>1
  <2>2. r \in Nat \ {0} /\ s \in Int /\ c \in Nat \ {0} /\ d \in Int
    BY <1>3, <2>1
  <2>3. Frac(s, r) = Frac(d, c)
    BY <1>1, <2>2, FracScales
  <2>4. Times(Frac(a, b), Frac(d, c)) = Frac(a * d, b * c)
    BY <2>2, TimesOf
  <2> QED BY <1>2, <2>3, <2>4
<1>4. ASSUME c < 0
      PROVE  Over(Frac(a, b), Frac(c, d)) = Frac(a * (0 - d), b * (0 - c))
  <2>1. r < 0
    <3>1. r >= 0 => h * r >= 0
      OBVIOUS
    <3> QED BY <1>1, <1>4, <3>1
  <2>2. PICK e \in Int, f \in Nat \ {0}, u \in Int, v \in Nat \ {0} :
            e = 0 - d /\ f = 0 - c /\ u = 0 - s /\ v = 0 - r
    BY <1>4, <2>1
  <2>3. Frac(s, r) = Frac(u, v)
    BY <2>1, <2>2, FracTurns
  <2>4. e = h * u /\ f = h * v
    <3>1. h * (0 - r) = h * 0 - h * r /\ h * (0 - s) = h * 0 - h * s /\ h * 0 = 0
      BY SumsMultiply
    <3> QED BY <1>1, <2>2, <3>1
  <2>5. Frac(u, v) = Frac(e, f)
    <3>1. Frac(h * u, h * v) = Frac(u, v)
      <4>1. \A top \in Int, bottom \in Nat \ {0} :
                Frac(h * top, h * bottom) = Frac(top, bottom)
        BY FracScales
      <4> QED BY <4>1
    <3> QED BY <2>4, <3>1
  <2>6. Times(Frac(a, b), Frac(e, f)) = Frac(a * e, b * f)
    BY TimesOf
  <2> QED BY <1>2, <2>2, <2>3, <2>5, <2>6
<1> QED BY <1>3, <1>4

\* The subsets of S with at most k members, and the functions on them that take a
\* member out (pick) and go on with the rest (step).
Small(S, k) == {s \in SUBSET S : Cardinality(s) <= k}
Unwinds(g, family, b, pick, step) ==
    \A s \in family : g[s] = IF s = {} THEN b ELSE step[<<pick[s], g[s \ {pick[s]}]>>]

\* A fold over a finite set exists.
LEMMA FoldExists ==
    ASSUME NEW S, IsFiniteSet(S), NEW V, NEW b \in V, NEW pick, NEW step \in [S \X V -> V],
           \A s \in SUBSET S : s # {} => pick[s] \in s
    PROVE  \E g \in [SUBSET S -> V] : Unwinds(g, SUBSET S, b, pick, step)
<1> DEFINE Reached(k) == \E g \in [Small(S, k) -> V] : Unwinds(g, Small(S, k), b, pick, step)
           Bad == {k \in Nat : ~Reached(k)}
<1>1. ASSUME NEW s \in SUBSET S
      PROVE  /\ IsFiniteSet(s) /\ Cardinality(s) \in Nat
             /\ Cardinality(s) = 0 <=> s = {}
             /\ \A x \in s : Cardinality(s \ {x}) = Cardinality(s) - 1
  <2>1. IsFiniteSet(s)
    BY FS_Subset
  <2> QED BY <2>1, FS_CardinalityType, FS_EmptySet, FS_RemoveElement
<1>2. Reached(0)
  <2> DEFINE g == [s \in Small(S, 0) |-> b]
  <2>1. \A s \in Small(S, 0) : s = {}
    BY <1>1 DEF Small
  <2>2. g \in [Small(S, 0) -> V]
    OBVIOUS
  <2>3. Unwinds(g, Small(S, 0), b, pick, step)
    BY <2>1 DEF Unwinds
  <2> QED BY <2>2, <2>3
<1>3. ASSUME NEW k \in Nat, Reached(k)
      PROVE  Reached(k + 1)
  <2>1. PICK f \in [Small(S, k) -> V] : Unwinds(f, Small(S, k), b, pick, step)
    BY <1>3
  <2> DEFINE G(s) == IF s = {} THEN b ELSE step[<<pick[s], f[s \ {pick[s]}]>>]
             g == [s \in Small(S, k + 1) |-> G(s)]
  <2>2. ASSUME NEW s \in Small(S, k + 1), s # {}
        PROVE  pick[s] \in S /\ s \ {pick[s]} \in Small(S, k) /\ s \ {pick[s]} \in Small(S, k + 1)
    <3>1. s \in SUBSET S /\ Cardinality(s) <= k + 1
      BY DEF Small
    <3>2. pick[s] \in s
      BY <2>2, <3>1
    <3>3. Cardinality(s \ {pick[s]}) = Cardinality(s) - 1 /\ Cardinality(s) \in Nat
      BY <1>1, <3>1, <3>2
    <3>4. s \ {pick[s]} \in SUBSET S
      BY <3>1
    <3> QED BY <3>1, <3>2, <3>3, <3>4 DEF Small
  <2>3. \A s \in Small(S, k + 1) : G(s) \in V
    <3> SUFFICES ASSUME NEW s \in Small(S, k + 1), s # {}
                 PROVE  step[<<pick[s], f[s \ {pick[s]}]>>] \in V
      OBVIOUS
    <3>1. f[s \ {pick[s]}] \in V /\ pick[s] \in S
      BY <2>2
    <3> QED BY <3>1
  <2>4. g \in [Small(S, k + 1) -> V]
    BY <2>3
  <2>5. \A s \in Small(S, k) : g[s] = f[s]
    <3>1. Small(S, k) \subseteq Small(S, k + 1)
      <4> SUFFICES ASSUME NEW s \in Small(S, k) PROVE s \in Small(S, k + 1)
        OBVIOUS
      <4>1. s \in SUBSET S /\ Cardinality(s) <= k /\ Cardinality(s) \in Nat
        BY <1>1 DEF Small
      <4> QED BY <4>1 DEF Small
    <3>2. \A s \in Small(S, k) : f[s] = G(s)
      BY <2>1 DEF Unwinds
    <3> HIDE DEF G
    <3> QED BY <3>1, <3>2
  <2>6. Unwinds(g, Small(S, k + 1), b, pick, step)
    <3> SUFFICES ASSUME NEW s \in Small(S, k + 1)
                 PROVE  g[s] = IF s = {} THEN b ELSE step[<<pick[s], g[s \ {pick[s]}]>>]
      BY DEF Unwinds
    <3>1. g[s] = G(s)
      OBVIOUS
    <3>2. s # {} => g[s \ {pick[s]}] = f[s \ {pick[s]}]
      <4> HIDE DEF g
      <4> QED BY <2>2, <2>5
    <3> HIDE DEF g
    <3> QED BY <3>1, <3>2
  <2> HIDE DEF g
  <2> QED BY <2>4, <2>6
<1>4. Bad = {}
  <2> HIDE DEF Reached
  <2>1. Bad \subseteq Nat
    OBVIOUS
  <2>2. ASSUME NEW m \in Bad, \A x \in Bad : m <= x
        PROVE  FALSE
    <3>1. m \in Nat /\ m # 0 /\ m - 1 \in Nat
      BY <1>2
    <3>2. Reached(m - 1)
      BY <2>2, <3>1
    <3>3. Reached((m - 1) + 1)
      BY <1>3, <3>1, <3>2
    <3>4. (m - 1) + 1 = m
      BY <3>1
    <3> QED BY <3>3, <3>4
  <2> HIDE DEF Bad
  <2> QED BY <2>1, <2>2, LeastNat
<1>5. Cardinality(S) \in Nat /\ Small(S, Cardinality(S)) = SUBSET S
  <2>1. \A s \in SUBSET S : Cardinality(s) <= Cardinality(S)
    BY FS_Subset
  <2> QED BY <2>1, FS_CardinalityType DEF Small
<1>6. Reached(Cardinality(S))
  <2> HIDE DEF Reached
  <2> QED BY <1>4, <1>5
<1> QED BY <1>5, <1>6

\* The sum of the values of f at the members of a set, in whatever order.
Sums(g, f) ==
    /\ g \in [SUBSET DOMAIN f -> Int] /\ g[{}] = 0
    /\ \A s \in SUBSET DOMAIN f : \A x \in s : g[s] = f[x] + g[s \ {x}]

LEMMA SumIs ==
    ASSUME NEW f, IsFiniteSet(DOMAIN f), \A i \in DOMAIN f : f[i] \in Int
    PROVE  \E g : Sums(g, f) /\ SumFunction(f) = g[DOMAIN f]
<1> DEFINE D == DOMAIN f
           pick == [s \in SUBSET D |-> CHOOSE x \in s : TRUE]
           step == [p \in D \X Int |-> f[p[1]] + p[2]]
           Solves(g) == g = [s \in SUBSET D |->
                               IF s = {} THEN 0
                               ELSE f[CHOOSE x \in s : TRUE] + g[s \ {CHOOSE x \in s : TRUE}]]
           it == CHOOSE g : Solves(g)
<1>1. SumFunction(f) = it[D]
  BY DEF SumFunction, SumFunctionOnSet, FoldFunctionOnSet, MapThenFoldSet
<1>2. \A s \in SUBSET D : s # {} => pick[s] \in s /\ pick[s] = CHOOSE x \in s : TRUE
  OBVIOUS
<1>3. step \in [D \X Int -> Int] /\ \A x \in D, v \in Int : step[<<x, v>>] = f[x] + v
  OBVIOUS
<1>4. PICK h \in [SUBSET D -> Int] : Unwinds(h, SUBSET D, 0, pick, step)
  <2>1. IsFiniteSet(D) /\ 0 \in Int
    OBVIOUS
  <2>2. \A s \in SUBSET D : s # {} => pick[s] \in s
    BY <1>2
  <2> HIDE DEF D, pick, step
  <2> QED BY <1>3, <2>1, <2>2, FoldExists
<1>5. Solves(h)
  <2>1. ASSUME NEW s \in SUBSET D
        PROVE  h[s] = IF s = {} THEN 0
                      ELSE f[CHOOSE x \in s : TRUE] + h[s \ {CHOOSE x \in s : TRUE}]
    <3>1. h[s] = IF s = {} THEN 0 ELSE step[<<pick[s], h[s \ {pick[s]}]>>]
      BY <1>4 DEF Unwinds
    <3>2. s # {} => pick[s] \in D /\ h[s \ {pick[s]}] \in Int
      BY <1>2, <1>4
    <3>3. s # {} => step[<<pick[s], h[s \ {pick[s]}]>>] = f[pick[s]] + h[s \ {pick[s]}]
      <4> HIDE DEF step, pick, D
      <4> QED BY <1>3, <3>2
    <3> HIDE DEF step, pick, D
    <3> QED BY <1>2, <3>1, <3>3
  <2>2. h = [s \in SUBSET D |-> h[s]]
    BY <1>4
  <2> QED BY <2>1, <2>2
<1>6. Solves(it)
  <2> HIDE DEF Solves
  <2> QED BY <1>5
<1>7. /\ it = [s \in SUBSET D |-> it[s]]
      /\ it[{}] = 0
      /\ \A s \in SUBSET D : s # {} => pick[s] \in s /\ it[s] = f[pick[s]] + it[s \ {pick[s]}]
  <2> HIDE DEF it
  <2> QED BY <1>6
<1> HIDE DEF it, pick, step
<1> DEFINE Holds(s) == it[s] \in Int /\ \A x \in s : it[s] = f[x] + it[s \ {x}]
           Bad == {k \in Nat : \E s \in SUBSET D : Cardinality(s) = k /\ ~Holds(s)}
<1>8. ASSUME NEW k \in Nat, k \in Bad, \A j \in Bad : k <= j
      PROVE  FALSE
  <2>1. PICK s \in SUBSET D : Cardinality(s) = k /\ ~Holds(s)
    BY <1>8
  <2> HIDE DEF Holds
  <2>2. ASSUME NEW t \in SUBSET D, NEW x \in t, Cardinality(t) <= k
        PROVE  Holds(t \ {x})
    <3>1. IsFiniteSet(t) /\ Cardinality(t) \in Nat
      BY FS_Subset, FS_CardinalityType
    <3>2. IsFiniteSet(t \ {x}) /\ Cardinality(t \ {x}) = Cardinality(t) - 1 /\ Cardinality(t \ {x}) \in Nat
      BY <3>1, FS_RemoveElement, FS_CardinalityType
    <3>3. Cardinality(t \ {x}) \notin Bad
      <4> HIDE DEF Bad
      <4> QED BY <1>8, <2>2, <3>1, <3>2
    <3> QED BY <3>2, <3>3
  <2>3. s # {}
    <3>1. it[{}] \in Int
      BY <1>7, SMTT(30)
    <3>2. Holds({})
      BY <3>1 DEF Holds
    <3> QED BY <2>1, <3>2
  <2>4. PICK y : y = pick[s] /\ y \in s /\ it[s] = f[y] + it[s \ {y}]
    BY <1>7, <2>3
  <2>5. f[y] \in Int /\ it[s \ {y}] \in Int
    BY <2>1, <2>2, <2>4 DEF Holds
  <2>6. ASSUME NEW x \in s
        PROVE  it[s] = f[x] + it[s \ {x}]
    <3>1. CASE x = y
      BY <2>4, <3>1
    <3>2. CASE x # y
      <4>1. x \in s \ {y} /\ y \in s \ {x} /\ (s \ {y}) \ {x} = (s \ {x}) \ {y}
        BY <2>4, <3>2
      <4>2. Holds(s \ {y}) /\ Holds(s \ {x})
        BY <2>1, <2>2, <2>4
      <4>3. s \ {y} \in SUBSET D /\ Cardinality(s \ {y}) <= k
        BY <2>1, <2>4, FS_Subset, FS_RemoveElement, FS_CardinalityType
      <4>4. Holds((s \ {y}) \ {x})
        BY <2>2, <4>1, <4>3
      <4>5. PICK rest : rest = it[(s \ {y}) \ {x}] /\ rest \in Int
        BY <4>4 DEF Holds
      <4>6. it[s \ {y}] = f[x] + rest /\ it[s \ {x}] = f[y] + rest
        BY <4>1, <4>2, <4>5 DEF Holds
      <4>7. f[x] \in Int
        OBVIOUS
      <4> QED BY <2>4, <2>5, <4>5, <4>6, <4>7
    <3> QED BY <3>1, <3>2
  <2>7. Holds(s)
    <3>1. it[s] \in Int
      BY <2>4, <2>5
    <3> QED BY <2>6, <3>1 DEF Holds
  <2> QED BY <2>1, <2>7
<1>9. Bad = {}
  <2>1. Bad \subseteq Nat
    OBVIOUS
  <2> HIDE DEF Bad
  <2> QED BY <1>8, <2>1, LeastNat
<1>10. \A s \in SUBSET D : Holds(s)
  <2> SUFFICES ASSUME NEW s \in SUBSET D PROVE Holds(s)
    OBVIOUS
  <2>1. Cardinality(s) \in Nat
    BY FS_Subset, FS_CardinalityType
  <2> HIDE DEF Holds
  <2> QED BY <1>9, <2>1
<1>11. Sums(it, f)
  BY <1>7, <1>10 DEF Sums
<1> QED BY <1>1, <1>11

\* A set that holds the empty set, and each set it holds with one member fewer.
LEMMA SubsetsReached ==
    ASSUME NEW S, IsFiniteSet(S), NEW Good, {} \in Good,
           \A s \in SUBSET S : s # {} /\ (\A x \in s : s \ {x} \in Good) => s \in Good
    PROVE  \A s \in SUBSET S : s \in Good
<1> DEFINE Bad == {k \in Nat : \E s \in SUBSET S : Cardinality(s) = k /\ s \notin Good}
<1>1. ASSUME NEW k \in Nat, k \in Bad, \A j \in Bad : k <= j
      PROVE  FALSE
  <2>1. PICK s \in SUBSET S : Cardinality(s) = k /\ s \notin Good
    BY <1>1
  <2>2. IsFiniteSet(s) /\ s # {}
    BY <2>1, FS_Subset
  <2>3. ASSUME NEW x \in s
        PROVE  s \ {x} \in Good
    <3>1. IsFiniteSet(s \ {x}) /\ Cardinality(s \ {x}) = k - 1 /\ Cardinality(s \ {x}) \in Nat
      BY <2>1, <2>2, FS_RemoveElement, FS_CardinalityType
    <3>2. Cardinality(s \ {x}) \notin Bad
      <4> HIDE DEF Bad
      <4> QED BY <1>1, <3>1
    <3> QED BY <3>1, <3>2
  <2> QED BY <2>1, <2>2, <2>3
<1>2. Bad = {}
  <2>1. Bad \subseteq Nat
    OBVIOUS
  <2> HIDE DEF Bad
  <2> QED BY <1>1, <2>1, LeastNat
<1> SUFFICES ASSUME NEW s \in SUBSET S PROVE s \in Good
  OBVIOUS
<1>3. Cardinality(s) \in Nat
  BY FS_Subset, FS_CardinalityType
<1> QED BY <1>2, <1>3

LEMMA IntervalMax ==
    ASSUME NEW n \in Nat, NEW s \in SUBSET (1 .. n), s # {}
    PROVE  Max(s) \in s /\ \A y \in s : Max(s) >= y
<1> DEFINE rest == {n - x : x \in s}
<1>1. rest \subseteq Nat /\ rest # {}
  <2>1. \A x \in s : n - x \in Nat
    OBVIOUS
  <2>2. PICK x : x \in s
    OBVIOUS
  <2>3. n - x \in rest
    BY <2>2
  <2> QED BY <2>1, <2>3
<1>2. PICK m \in rest : \A x \in rest : m <= x
  <2> HIDE DEF rest
  <2> QED BY <1>1, LeastNat
<1>3. PICK top \in s : m = n - top
  BY <1>2
<1>4. \A y \in s : top >= y
  BY <1>2, <1>3
<1> QED BY <1>3, <1>4 DEF Max

LEMMA WholesAdd ==
    \A i, j \in Int : Plus(Whole(i), Whole(j)) = Whole(i + j)
<1> SUFFICES ASSUME NEW i \in Int, NEW j \in Int PROVE Plus(Whole(i), Whole(j)) = Whole(i + j)
  OBVIOUS
<1>1. PICK u \in Nat \ {0} : u = 1
  OBVIOUS
<1>2. Plus(Frac(i, u), Frac(j, u)) = Frac(i * u + j * u, u * u)
  BY PlusOf
<1>3. i * u + j * u = i + j /\ u * u = u
  BY <1>1
<1>4. Whole(i) = Frac(i, u) /\ Whole(j) = Frac(j, u) /\ Whole(i + j) = Frac(i + j, u)
  BY <1>1, WholeIs
<1> QED BY <1>2, <1>3, <1>4

\* Adding whole amounts as fractions is adding them as numbers.
LEMMA WholeSums ==
    ASSUME NEW n \in Nat, NEW f \in [1 .. n -> Int]
    PROVE  SumFunction(f) \in Int /\ SumOf([i \in 1 .. n |-> Whole(f[i])]) = Whole(SumFunction(f))
<1> DEFINE D == 1 .. n
           w == [i \in D |-> Whole(f[i])]
           V == {Whole(i) : i \in Int}
           pick == [s \in SUBSET D |-> Max(s)]
           step == [p \in D \X V |-> Plus(p[2], w[p[1]])]
           Solves(g) == g = [s \in SUBSET D |-> IF s = {} THEN Zero
                                                ELSE Plus(g[s \ {Max(s)}], w[Max(s)])]
           it == CHOOSE g : Solves(g)
<1>1. SumOf(w) = it[D]
  BY DEF SumOf, FoldLeft, MapThenFoldSet
<1>2. \A s \in SUBSET D : s # {} => pick[s] \in s /\ pick[s] = Max(s)
  BY IntervalMax
<1>3. Zero \in V /\ step \in [D \X V -> V] /\ \A x \in D, v \in V : step[<<x, v>>] = Plus(v, w[x])
  <2>1. \A p \in D \X V : Plus(p[2], w[p[1]]) \in V
    <3> SUFFICES ASSUME NEW x \in D, NEW v \in V PROVE Plus(v, w[x]) \in V
      OBVIOUS
    <3>1. PICK i \in Int, j \in Int : v = Whole(i) /\ w[x] = Whole(j)
      OBVIOUS
    <3>2. Plus(Whole(i), Whole(j)) = Whole(i + j) /\ i + j \in Int
      BY WholesAdd
    <3>3. Plus(v, w[x]) = Whole(i + j)
      <4> HIDE DEF w, V
      <4> QED BY <3>1, <3>2
    <3> QED BY <3>2, <3>3
  <2>2. Zero \in V
    BY DEF Zero
  <2> HIDE DEF V, w
  <2> QED BY <2>1, <2>2
<1>4. IsFiniteSet(D)
  BY FS_Interval
<1>5. PICK h \in [SUBSET D -> V] : Unwinds(h, SUBSET D, Zero, pick, step)
  <2>1. \A s \in SUBSET D : s # {} => pick[s] \in s
    BY <1>2
  <2> HIDE DEF D, V, pick, step
  <2> QED BY <1>3, <1>4, <2>1, FoldExists
<1>6. Solves(h)
  <2>1. ASSUME NEW s \in SUBSET D
        PROVE  h[s] = IF s = {} THEN Zero ELSE Plus(h[s \ {Max(s)}], w[Max(s)])
    <3>1. h[s] = IF s = {} THEN Zero ELSE step[<<pick[s], h[s \ {pick[s]}]>>]
      BY <1>5 DEF Unwinds
    <3>2. s # {} => pick[s] \in D /\ h[s \ {pick[s]}] \in V
      <4> HIDE DEF pick, V
      <4> QED BY <1>2, <1>5
    <3>3. s # {} => step[<<pick[s], h[s \ {pick[s]}]>>] = Plus(h[s \ {pick[s]}], w[pick[s]])
      <4> HIDE DEF step, pick, D, V, w
      <4> QED BY <1>3, <3>2
    <3> HIDE DEF step, pick, D, V, w
    <3> QED BY <1>2, <3>1, <3>3
  <2>2. h = [s \in SUBSET D |-> h[s]]
    BY <1>5
  <2> HIDE DEF w
  <2> QED BY <2>1, <2>2
<1>7. Solves(it)
  <2> HIDE DEF Solves
  <2> QED BY <1>6
<1>8. it[{}] = Zero /\ \A s \in SUBSET D : s # {} => it[s] = Plus(it[s \ {Max(s)}], w[Max(s)])
  <2> HIDE DEF it, w
  <2> QED BY <1>7
<1>9. PICK g : Sums(g, f) /\ SumFunction(f) = g[D]
  <2>1. DOMAIN f = D /\ \A i \in DOMAIN f : f[i] \in Int
    OBVIOUS
  <2> QED BY <1>4, <2>1, SumIs
<1> HIDE DEF it
<1> DEFINE Good == {s \in SUBSET D : it[s] = Whole(g[s])}
<1>10. {} \in Good
  BY <1>8, <1>9 DEF Sums, Zero
<1>11. ASSUME NEW s \in SUBSET D, s # {}, \A x \in s : s \ {x} \in Good
       PROVE  s \in Good
  <2>1. PICK m \in s : m = Max(s)
    BY <1>11, IntervalMax
  <2>2. it[s \ {m}] = Whole(g[s \ {m}]) /\ w[m] = Whole(f[m])
    BY <1>11
  <2>3. g[s \ {m}] \in Int /\ f[m] \in Int /\ g[s] = f[m] + g[s \ {m}]
    <3>1. DOMAIN f = D
      OBVIOUS
    <3> QED BY <1>9, <3>1 DEF Sums
  <2>4. it[s] = Plus(Whole(g[s \ {m}]), Whole(f[m]))
    <3> HIDE DEF w
    <3> QED BY <1>8, <1>11, <2>1, <2>2
  <2>5. Plus(Whole(g[s \ {m}]), Whole(f[m])) = Whole(g[s \ {m}] + f[m])
    BY <2>3, WholesAdd
  <2>6. g[s \ {m}] + f[m] = g[s]
    BY <2>3
  <2>7. it[s] = Whole(g[s])
    BY <2>4, <2>5, <2>6
  <2> QED BY <2>7
<1>12. \A s \in SUBSET D : s \in Good
  <2> HIDE DEF Good, D
  <2> QED BY <1>4, <1>10, <1>11, SubsetsReached
<1>13. it[D] = Whole(g[D])
  BY <1>12
<1>14. g[D] \in Int
  <2>1. DOMAIN f = D
    OBVIOUS
  <2> QED BY <1>9, <2>1 DEF Sums
<1> QED BY <1>1, <1>9, <1>13, <1>14

Fractions == {Frac(n, d) : n \in Int, d \in Nat \ {0}}

LEMMA ProductsAreFractions ==
    One \in Fractions /\ \A x, y \in Fractions : Times(x, y) \in Fractions
<1>1. One \in Fractions
  BY WholeIs DEF One, Fractions
<1>2. ASSUME NEW x \in Fractions, NEW y \in Fractions
      PROVE  Times(x, y) \in Fractions
  <2>1. PICK a \in Int, b \in Nat \ {0}, c \in Int, d \in Nat \ {0} : x = Frac(a, b) /\ y = Frac(c, d)
    BY DEF Fractions
  <2>2. Times(x, y) = Frac(a * c, b * d)
    BY <2>1, TimesOf
  <2>3. a * c \in Int /\ b * d \in Nat \ {0}
    BY Sizes
  <2> QED BY <2>2, <2>3 DEF Fractions
<1> QED BY <1>1, <1>2

\* A power as a fold that is the same for every exponent from the set on.
Multiplies(it, x, D) ==
    \A s \in SUBSET D : it[s] = IF s = {} THEN One ELSE Times(it[s \ {Max(s)}], x)

LEMMA PowerFolds ==
    ASSUME NEW x \in Fractions, NEW n \in Nat
    PROVE  \E it : it[1 .. n] = Power(x, n) /\ Multiplies(it, x, 1 .. n)
<1> DEFINE D == 1 .. n
           w == [i \in D |-> x]
           pick == [s \in SUBSET D |-> Max(s)]
           step == [p \in D \X Fractions |-> Times(p[2], w[p[1]])]
           Solves(g) == g = [s \in SUBSET D |-> IF s = {} THEN One
                                                ELSE Times(g[s \ {Max(s)}], w[Max(s)])]
           it == CHOOSE g : Solves(g)
<1>1. Power(x, n) = it[D]
  BY DEF Power, FoldLeft, MapThenFoldSet
<1>2. \A s \in SUBSET D : s # {} => pick[s] \in s /\ pick[s] = Max(s) /\ w[Max(s)] = x
  BY IntervalMax
<1>3. /\ One \in Fractions /\ step \in [D \X Fractions -> Fractions]
      /\ \A y \in D, v \in Fractions : step[<<y, v>>] = Times(v, x)
  <2>1. \A p \in D \X Fractions : Times(p[2], w[p[1]]) \in Fractions
    BY ProductsAreFractions
  <2> QED BY <2>1, ProductsAreFractions
<1>4. IsFiniteSet(D)
  BY FS_Interval
<1>5. PICK h \in [SUBSET D -> Fractions] : Unwinds(h, SUBSET D, One, pick, step)
  <2>1. \A s \in SUBSET D : s # {} => pick[s] \in s
    BY <1>2
  <2> HIDE DEF D, pick, step
  <2> QED BY <1>3, <1>4, <2>1, FoldExists
<1>6. Solves(h)
  <2>1. ASSUME NEW s \in SUBSET D
        PROVE  h[s] = IF s = {} THEN One ELSE Times(h[s \ {Max(s)}], w[Max(s)])
    <3>1. h[s] = IF s = {} THEN One ELSE step[<<pick[s], h[s \ {pick[s]}]>>]
      BY <1>5 DEF Unwinds
    <3>2. s # {} => pick[s] \in D /\ h[s \ {pick[s]}] \in Fractions
      <4> HIDE DEF pick
      <4> QED BY <1>2, <1>5
    <3>3. s # {} => step[<<pick[s], h[s \ {pick[s]}]>>] = Times(h[s \ {pick[s]}], x)
      <4> HIDE DEF step, pick, D
      <4> QED BY <1>3, <3>2
    <3> HIDE DEF step, pick, D, w
    <3> QED BY <1>2, <3>1, <3>3
  <2>2. h = [s \in SUBSET D |-> h[s]]
    BY <1>5
  <2> HIDE DEF w
  <2> QED BY <2>1, <2>2
<1>7. Solves(it)
  <2> HIDE DEF Solves
  <2> QED BY <1>6
<1>8. Multiplies(it, x, D)
  <2> HIDE DEF it
  <2>1. \A s \in SUBSET D : it[s] = IF s = {} THEN One ELSE Times(it[s \ {Max(s)}], w[Max(s)])
    <3> HIDE DEF w
    <3> QED BY <1>7
  <2> HIDE DEF w
  <2> QED BY <1>2, <2>1 DEF Multiplies
<1> QED BY <1>1, <1>8

LEMMA PowerSteps ==
    ASSUME NEW x \in Fractions
    PROVE  Power(x, 0) = One /\ \A n \in Nat : Power(x, n + 1) = Times(Power(x, n), x)
<1>1. Power(x, 0) = One
  <2>1. PICK it : it[1 .. 0] = Power(x, 0) /\ Multiplies(it, x, 1 .. 0)
    BY PowerFolds
  <2>2. 1 .. 0 = {}
    OBVIOUS
  <2> QED BY <2>1, <2>2 DEF Multiplies
<1>2. ASSUME NEW n \in Nat
      PROVE  Power(x, n + 1) = Times(Power(x, n), x)
  <2>1. PICK it : it[1 .. n] = Power(x, n) /\ Multiplies(it, x, 1 .. n)
    BY PowerFolds
  <2>2. PICK on : on[1 .. (n + 1)] = Power(x, n + 1) /\ Multiplies(on, x, 1 .. (n + 1))
    <3>1. n + 1 \in Nat
      OBVIOUS
    <3> QED BY <3>1, PowerFolds
  <2> DEFINE Good == {s \in SUBSET (1 .. n) : on[s] = it[s]}
  <2>3. {} \in Good
    BY <2>1, <2>2 DEF Multiplies
  <2>4. ASSUME NEW s \in SUBSET (1 .. n), s # {}, \A y \in s : s \ {y} \in Good
        PROVE  s \in Good
    <3>1. PICK m \in s : m = Max(s)
      BY <2>4, IntervalMax
    <3>2. on[s \ {m}] = it[s \ {m}] /\ s \in SUBSET (1 .. (n + 1))
      BY <2>4
    <3>3. on[s] = Times(on[s \ {m}], x)
      <4>1. \A t \in SUBSET (1 .. (n + 1)) : on[t] = IF t = {} THEN One ELSE Times(on[t \ {Max(t)}], x)
        BY <2>2 DEF Multiplies
      <4> QED BY <2>4, <3>1, <3>2, <4>1, Zenon
    <3>4. it[s] = Times(it[s \ {m}], x)
      <4>1. \A t \in SUBSET (1 .. n) : it[t] = IF t = {} THEN One ELSE Times(it[t \ {Max(t)}], x)
        BY <2>1 DEF Multiplies
      <4> QED BY <2>4, <3>1, <4>1, Zenon
    <3> QED BY <3>2, <3>3, <3>4
  <2>5. \A s \in SUBSET (1 .. n) : s \in Good
    <3>1. IsFiniteSet(1 .. n)
      BY FS_Interval
    <3> HIDE DEF Good
    <3> QED BY <2>3, <2>4, <3>1, SubsetsReached
  <2>6. on[1 .. n] = it[1 .. n]
    BY <2>5
  <2> PICK m \in Nat : m = n + 1 /\ m # 0
    OBVIOUS
  <2>7. Max(1 .. m) = m
    <3>1. 1 .. m # {} /\ 1 .. m \in SUBSET (1 .. m) /\ m \in 1 .. m
      OBVIOUS
    <3>2. Max(1 .. m) \in 1 .. m /\ Max(1 .. m) >= m
      BY <3>1, IntervalMax
    <3> QED BY <3>2
  <2>8. (1 .. m) \ {m} = 1 .. n /\ 1 .. m # {}
    <3>1. \A i : i \in (1 .. m) \ {m} <=> i \in 1 .. n
      OBVIOUS
    <3>2. m \in 1 .. m
      OBVIOUS
    <3> QED BY <3>1, <3>2
  <2>9. on[1 .. m] = Times(on[(1 .. m) \ {m}], x)
    <3>1. 1 .. m \in SUBSET (1 .. m)
      OBVIOUS
    <3>2. Multiplies(on, x, 1 .. m)
      BY <2>2
    <3> QED BY <2>7, <2>8, <3>1, <3>2 DEF Multiplies
  <2>10. on[1 .. m] = Power(x, n + 1)
    BY <2>2
  <2> QED BY <2>1, <2>6, <2>8, <2>9, <2>10
<1> QED BY <1>1, <1>2

\* What grows by more than nothing stays above one.
LEMMA GrowthIs ==
    ASSUME NEW u \in Nat \ {0}, NEW v \in Nat \ {0}, u > v
    PROVE  \A n \in Nat : \E c, d \in Nat \ {0} :
               Power(Frac(u, v), n) = Frac(c, d) /\ c >= d /\ (n # 0 => c > d)
<1> DEFINE Holds(n) == \E c, d \in Nat \ {0} :
                           Power(Frac(u, v), n) = Frac(c, d) /\ c >= d /\ (n # 0 => c > d)
           Bad == {n \in Nat : ~Holds(n)}
<1>1. Frac(u, v) \in Fractions
  BY DEF Fractions
<1>2. Holds(0)
  <2>1. Power(Frac(u, v), 0) = Frac(1, 1)
    BY <1>1, PowerSteps, WholeIs DEF One
  <2> QED BY <2>1
<1>3. ASSUME NEW n \in Nat, Holds(n)
      PROVE  Holds(n + 1)
  <2>1. PICK c, d \in Nat \ {0} : Power(Frac(u, v), n) = Frac(c, d) /\ c >= d
    BY <1>3
  <2>2. Power(Frac(u, v), n + 1) = Times(Frac(c, d), Frac(u, v))
    BY <1>1, <2>1, PowerSteps
  <2>3. Times(Frac(c, d), Frac(u, v)) = Frac(c * u, d * v)
    BY TimesOf
  <2>4. c * u > d * v
    <3>1. (c - d) * u >= 0 /\ (c - d) * u = c * u - d * u
      BY <2>1
    <3>2. d * (u - v) > 0 /\ d * (u - v) = d * u - d * v
      BY SumsMultiply
    <3> QED BY <3>1, <3>2
  <2>5. c * u \in Nat \ {0} /\ d * v \in Nat \ {0}
    BY Sizes
  <2> QED BY <2>2, <2>3, <2>4, <2>5
<1>4. Bad = {}
  <2> HIDE DEF Holds
  <2>1. ASSUME NEW m \in Bad, \A n \in Bad : m <= n
        PROVE  FALSE
    <3>1. m \in Nat /\ m # 0 /\ m - 1 \in Nat
      BY <1>2
    <3>2. Holds(m - 1)
      BY <2>1, <3>1
    <3>3. (m - 1) + 1 = m
      BY <3>1
    <3> QED BY <1>3, <3>1, <3>2, <3>3
  <2>2. Bad \subseteq Nat
    OBVIOUS
  <2> HIDE DEF Bad
  <2> QED BY <2>1, <2>2, LeastNat
<1>5. \A n \in Nat : Holds(n)
  <2> HIDE DEF Holds
  <2> QED BY <1>4
<1> QED BY <1>5

LEMMA FracZero ==
    \A n \in Int, d \in Nat \ {0} : Frac(n, d) = Zero <=> n = 0
<1> SUFFICES ASSUME NEW n \in Int, NEW d \in Nat \ {0} PROVE Frac(n, d) = Zero <=> n = 0
  OBVIOUS
<1>1. ASSUME n = 0 PROVE Frac(n, d) = Zero
  <2>1. PICK o \in Nat \ {0}, z \in Int : o = 1 /\ z = 0
    OBVIOUS
  <2>2. n * o = z * d
    BY <1>1, <2>1
  <2>3. Frac(n, d) = Frac(z, o)
    BY <2>2, FracCross
  <2> QED BY <2>1, <2>3, WholeIs DEF Zero
<1>2. ASSUME Frac(n, d) = Zero PROVE n = 0
  <2>1. PICK g \in Nat \ {0}, p \in Int, q \in Nat \ {0} : Form(n, d, g, p, q)
    BY FracForm
  <2> USE DEF Form
  <2>2. p = 0
    <3>1. PICK y : y = Frac(n, d)
      OBVIOUS
    <3>2. y.num = p
      BY <2>1, <3>1
    <3>3. y.num = 0
      BY <1>2, <3>1 DEF Zero, Whole
    <3> QED BY <3>2, <3>3
  <2>3. g * 0 = 0
    OBVIOUS
  <2> QED BY <2>1, <2>2, <2>3
<1> QED BY <1>1, <1>2

LEMMA SameDen ==
    \A x, y \in Int, d \in Nat \ {0} : Minus(Frac(x, d), Frac(y, d)) = Frac(x - y, d)
<1> SUFFICES ASSUME NEW x \in Int, NEW y \in Int, NEW d \in Nat \ {0}
             PROVE  Minus(Frac(x, d), Frac(y, d)) = Frac(x - y, d)
  OBVIOUS
<1>1. Minus(Frac(x, d), Frac(y, d)) = Frac(x * d - y * d, d * d)
  BY MinusOf
<1>2. PICK z \in Int : z = x - y
  OBVIOUS
<1>3. x * d - y * d = d * z
  BY <1>2
<1>4. Frac(d * z, d * d) = Frac(z, d)
  <2>1. \A top \in Int, bottom \in Nat \ {0} :
            Frac(d * top, d * bottom) = Frac(top, bottom)
    BY FracScales
  <2> QED BY <2>1
<1> QED BY <1>1, <1>2, <1>3, <1>4

\* The monthly rate of a yearly n / m, and what one month makes of one unit.
LEMMA MonthlyIs ==
    ASSUME NEW n \in Nat, NEW m \in Nat \ {0}
    PROVE  \E v \in Nat \ {0}, u \in Nat \ {0} :
               /\ u = v + n
               /\ MonthlyRate(Frac(n, m)) = Frac(n, v)
               /\ Plus(One, MonthlyRate(Frac(n, m))) = Frac(u, v)
<1>1. PICK t \in Nat \ {0}, o \in Nat \ {0} : t = MonthsInYear /\ o = 1
  BY CalculatorAssumption
<1>2. PICK v \in Nat \ {0}, u \in Nat \ {0} : v = m * t /\ u = v + n
  <2>1. m * t \in Nat \ {0}
    BY Sizes
  <2>2. (m * t) + n \in Nat \ {0}
    BY <2>1
  <2> QED BY <2>1, <2>2
<1>3. Whole(t) = Frac(t, o) /\ One = Frac(o, o)
  BY <1>1, WholeIs DEF One
<1>4. MonthlyRate(Frac(n, m)) = Frac(n, v)
  <2>1. t \in Int /\ t # 0 /\ t > 0
    OBVIOUS
  <2>2. Over(Frac(n, m), Frac(t, o)) = Frac(n * o, m * t)
    BY <2>1, OverOf
  <2>3. n * o = n
    BY <1>1
  <2> QED BY <1>1, <1>2, <1>3, <2>2, <2>3 DEF MonthlyRate
<1>5. Plus(One, Frac(n, v)) = Frac(u, v)
  <2>1. Plus(Frac(o, o), Frac(n, v)) = Frac(o * v + n * o, o * v)
    BY PlusOf
  <2>2. o * v = v /\ n * o = n
    BY <1>1
  <2> QED BY <1>2, <1>3, <2>1, <2>2
<1> QED BY <1>2, <1>4, <1>5

\* What is owed of A when its unit has grown by a / b, and will have by c / d in the end.
Owed(A, a, b, c, d) == Frac(A * (c * b - a * d), b * (c - d))

\* The level payment of a loan of A, and what is owed of it after k payments at no interest.
Level(A, n, v, c, d) == Frac((A * n) * c, v * (c - d))
Flat(A, term, k) == Frac(A * term - A * k, term)

LEMMA OutstandingOf ==
    ASSUME NEW A \in Int, NEW a \in Nat \ {0}, NEW b \in Nat \ {0},
           NEW c \in Nat \ {0}, NEW d \in Nat \ {0}, c > d
    PROVE  Outstanding(Whole(A), Frac(a, b), Frac(c, d)) = Owed(A, a, b, c, d)
<1>1. PICK o \in Nat \ {0} : o = 1
  OBVIOUS
<1>2. Whole(A) = Frac(A, o) /\ One = Frac(o, o)
  BY <1>1, WholeIs DEF One
<1>3. PICK x \in Int, y \in Nat \ {0}, k \in Int, l \in Nat \ {0} :
          x = a * d - c * b /\ y = b * d /\ k = d - c /\ l = c - d
  <2>1. b * d \in Nat \ {0} /\ a * d - c * b \in Int /\ d - c \in Int /\ c - d \in Nat \ {0}
    OBVIOUS
  <2> QED BY <2>1
<1>4. Minus(Frac(a, b), Frac(c, d)) = Frac(x, y)
  BY <1>3, MinusOf
<1>5. Times(Whole(A), Frac(x, y)) = Frac(A * x, y)
  <2>1. Times(Frac(A, o), Frac(x, y)) = Frac(A * x, o * y)
    BY TimesOf
  <2>2. o * y = y
    BY <1>1
  <2> QED BY <1>2, <2>1, <2>2
<1>6. Minus(One, Frac(c, d)) = Frac(k, d)
  <2>1. Minus(Frac(o, o), Frac(c, d)) = Frac(o * d - c * o, o * d)
    BY MinusOf
  <2>2. o * d = d /\ c * o = c
    BY <1>1
  <2> QED BY <1>2, <1>3, <2>1, <2>2
<1>7. Over(Frac(A * x, y), Frac(k, d)) = Frac((A * x) * (0 - d), y * (0 - k))
  <2>1. k # 0 /\ k < 0 /\ A * x \in Int
    BY <1>3
  <2>2. PICK z \in Int : z = A * x
    BY <2>1
  <2>3. Over(Frac(z, y), Frac(k, d)) = Frac(z * (0 - d), y * (0 - k))
    BY <2>1, OverOf
  <2> QED BY <2>2, <2>3
<1>8. PICK p \in Int, q \in Nat \ {0} : p = A * (c * b - a * d) /\ q = b * (c - d)
  <2>1. b * l \in Nat \ {0}
    BY Sizes
  <2> QED BY <1>3, <2>1
<1>9. (A * x) * (0 - d) = d * p
  <2>1. \A e, f, g \in Int : (e * (f - g)) * (0 - d) = d * (e * (g - f))
    OBVIOUS
  <2>2. a * d \in Int /\ c * b \in Int
    OBVIOUS
  <2> QED BY <1>3, <1>8, <2>1, <2>2
<1>10. y * (0 - k) = d * q
  <2>1. 0 - k = l
    BY <1>3
  <2>2. (b * d) * l = d * (b * l)
    OBVIOUS
  <2> QED BY <1>3, <1>8, <2>1, <2>2
<1>11. Frac(d * p, d * q) = Frac(p, q)
  <2>1. \A top \in Int, bottom \in Nat \ {0} :
            Frac(d * top, d * bottom) = Frac(top, bottom)
    BY FracScales
  <2> QED BY <2>1
<1>12. Outstanding(Whole(A), Frac(a, b), Frac(c, d))
         = Over(Times(Whole(A), Minus(Frac(a, b), Frac(c, d))), Minus(One, Frac(c, d)))
  BY DEF Outstanding
<1> QED BY <1>4, <1>5, <1>6, <1>7, <1>8, <1>9, <1>10, <1>11, <1>12 DEF Owed

LEMMA PmtOf ==
    ASSUME NEW A \in Int, NEW n \in Nat \ {0}, NEW v \in Nat \ {0}, NEW N \in Nat,
           NEW c \in Nat \ {0}, NEW d \in Nat \ {0}, c > d,
           Power(Plus(One, Frac(n, v)), N) = Frac(c, d)
    PROVE  Pmt(Frac(n, v), N, Whole(A)) = Level(A, n, v, c, d)
<1>1. PICK o \in Nat \ {0} : o = 1
  OBVIOUS
<1>2. Whole(A) = Frac(A, o) /\ One = Frac(o, o)
  BY <1>1, WholeIs DEF One
<1>3. Frac(n, v) # Zero
  BY FracZero
<1>4. Over(One, Frac(c, d)) = Frac(d, c)
  <2>1. c \in Int /\ c # 0 /\ c > 0 /\ o \in Int
    OBVIOUS
  <2>2. Over(Frac(o, o), Frac(c, d)) = Frac(o * d, o * c)
    BY <2>1, OverOf
  <2>3. o * d = d /\ o * c = c
    BY <1>1
  <2> QED BY <1>2, <2>2, <2>3
<1>5. PICK k \in Nat \ {0} : k = c - d
  <2>1. c - d \in Nat \ {0}
    OBVIOUS
  <2> QED BY <2>1
<1>6. Minus(One, Frac(d, c)) = Frac(k, c)
  <2>1. Minus(Frac(o, o), Frac(d, c)) = Frac(o * c - d * o, o * c)
    BY MinusOf
  <2>2. o * c = c /\ d * o = d
    BY <1>1
  <2> QED BY <1>2, <1>5, <2>1, <2>2
<1>7. Times(Whole(A), Frac(n, v)) = Frac(A * n, v)
  <2>1. Times(Frac(A, o), Frac(n, v)) = Frac(A * n, o * v)
    BY TimesOf
  <2>2. o * v = v
    BY <1>1
  <2> QED BY <1>2, <2>1, <2>2
<1>8. Over(Frac(A * n, v), Frac(k, c)) = Frac((A * n) * c, v * k)
  <2>1. PICK z \in Int : z = A * n
    OBVIOUS
  <2>2. k \in Int /\ k # 0 /\ k > 0
    OBVIOUS
  <2>3. Over(Frac(z, v), Frac(k, c)) = Frac(z * c, v * k)
    BY <2>2, OverOf
  <2> QED BY <2>1, <2>3
<1>9. Pmt(Frac(n, v), N, Whole(A))
        = Over(Times(Whole(A), Frac(n, v)), Minus(One, Over(One, Frac(c, d))))
  BY <1>3 DEF Pmt
<1> QED BY <1>4, <1>5, <1>6, <1>7, <1>8, <1>9 DEF Level

\* The parts of a loan: its rate n / m, a month's growth u / v, and the growth of its whole
\* term c / d.
LoanParts(loan, term, n, u, v, c, d) ==
    /\ u = v + n
    /\ MonthlyRate(loan.rate) = Frac(n, v)
    /\ Plus(One, MonthlyRate(loan.rate)) = Frac(u, v)
    /\ loan.rate = Zero <=> n = 0
    /\ Power(Frac(u, v), term) = Frac(c, d)
    /\ n # 0 => c > d
    /\ \A k \in Nat : \E a, b \in Nat \ {0} : Power(Frac(u, v), k) = Frac(a, b)

LEMMA LoanHasParts ==
    ASSUME NEW loan \in LoanCases, NEW term \in Nat \ {0}
    PROVE  \E n \in Nat, u, v, c, d \in Nat \ {0} : LoanParts(loan, term, n, u, v, c, d)
<1>1. PICK n \in Nat, m \in Nat \ {0} : loan.rate = Frac(n, m)
  BY LoanAssumption
<1>2. PICK v \in Nat \ {0}, u \in Nat \ {0} :
          /\ u = v + n
          /\ MonthlyRate(Frac(n, m)) = Frac(n, v)
          /\ Plus(One, MonthlyRate(Frac(n, m))) = Frac(u, v)
  BY MonthlyIs
<1>3. loan.rate = Zero <=> n = 0
  BY <1>1, FracZero
<1>4. CASE n = 0
  <2>1. u = v
    BY <1>2, <1>4
  <2>2. Frac(u, v) = One
    <3>1. PICK o \in Nat \ {0} : o = 1
      OBVIOUS
    <3>2. u * o = o * v
      BY <2>1
    <3>3. Frac(u, v) = Frac(o, o)
      BY <3>2, FracCross
    <3> QED BY <3>1, <3>3, WholeIs DEF One
  <2>3. PICK o \in Nat \ {0} : o = 1 /\ One = Frac(o, o)
    <3>1. 1 \in Nat \ {0} /\ One = Frac(1, 1)
      BY WholeIs DEF One
    <3> QED BY <3>1
  <2>4. One \in Fractions /\ Times(One, One) = One
    <3>1. Times(Frac(o, o), Frac(o, o)) = Frac(o * o, o * o)
      BY TimesOf
    <3>2. o * o = o
      BY <2>3
    <3> QED BY <2>3, <3>1, <3>2, ProductsAreFractions
  <2>5. \A k \in Nat : Power(One, k) = One
    <3> DEFINE Bad == {k \in Nat : Power(One, k) # One}
    <3>1. ASSUME NEW k \in Bad, \A j \in Bad : k <= j
          PROVE  FALSE
      <4>1. k \in Nat /\ k # 0 /\ k - 1 \in Nat
        BY <2>4, PowerSteps
      <4>2. Power(One, k - 1) = One
        BY <3>1, <4>1
      <4>3. (k - 1) + 1 = k
        BY <4>1
      <4>4. Power(One, (k - 1) + 1) = Times(Power(One, k - 1), One)
        BY <2>4, <4>1, PowerSteps
      <4> QED BY <2>4, <4>2, <4>3, <4>4
    <3>2. Bad \subseteq Nat
      OBVIOUS
    <3> HIDE DEF Bad
    <3>3. Bad = {}
      BY <3>1, <3>2, LeastNat
    <3> QED BY <3>3 DEF Bad
  <2>6. LoanParts(loan, term, n, u, v, o, o)
    BY <1>1, <1>2, <1>3, <1>4, <2>2, <2>3, <2>5 DEF LoanParts
  <2> QED BY <2>6
<1>5. CASE n # 0
  <2>1. u > v
    BY <1>2, <1>5
  <2>2. \A k \in Nat : \E a, b \in Nat \ {0} :
            Power(Frac(u, v), k) = Frac(a, b) /\ a >= b /\ (k # 0 => a > b)
    BY <2>1, GrowthIs
  <2>3. PICK c, d \in Nat \ {0} : Power(Frac(u, v), term) = Frac(c, d) /\ c > d
    BY <2>2
  <2>4. LoanParts(loan, term, n, u, v, c, d)
    BY <1>1, <1>2, <1>3, <2>2, <2>3 DEF LoanParts
  <2> QED BY <2>4
<1> QED BY <1>4, <1>5

LEMMA TimesWhole ==
    \A p \in Int, q \in Nat \ {0}, i \in Int : Times(Frac(p, q), Whole(i)) = Frac(p * i, q)
<1> SUFFICES ASSUME NEW p \in Int, NEW q \in Nat \ {0}, NEW i \in Int
             PROVE  Times(Frac(p, q), Whole(i)) = Frac(p * i, q)
  OBVIOUS
<1>1. PICK o \in Nat \ {0} : o = 1 /\ Whole(i) = Frac(i, o)
  <2>1. 1 \in Nat \ {0} /\ Whole(i) = Frac(i, 1)
    BY WholeIs
  <2> QED BY <2>1
<1>2. Times(Frac(p, q), Frac(i, o)) = Frac(p * i, q * o)
  BY TimesOf
<1>3. q * o = q
  BY <1>1
<1> QED BY <1>1, <1>2, <1>3

\* At no interest what is owed falls by the same amount every month.
LEMMA OwedAtNothing ==
    ASSUME NEW A \in Int, NEW years \in Nat \ {0}, NEW term \in Nat \ {0},
           term = years * MonthsInYear
    PROVE  /\ Pmt(Zero, term, Whole(A)) = Frac(A, term)
           /\ \A k \in Nat :
                  EndingBalance(Whole(A), Zero, years, k) = Flat(A, term, k)
<1>1. PICK o \in Nat \ {0} : o = 1
  OBVIOUS
<1>2. \A i \in Int : Whole(i) = Frac(i, o)
  BY <1>1, WholeIs
<1>3. Pmt(Zero, term, Whole(A)) = Frac(A, term)
  <2>1. term \in Int /\ term # 0 /\ term > 0
    OBVIOUS
  <2>2. Over(Frac(A, o), Frac(term, o)) = Frac(A * o, o * term)
    BY <2>1, OverOf
  <2>3. A * o = A /\ o * term = term
    BY <1>1
  <2> QED BY <1>2, <2>1, <2>2, <2>3 DEF Pmt
<1>4. ASSUME NEW k \in Nat
      PROVE  EndingBalance(Whole(A), Zero, years, k) = Flat(A, term, k)
  <2>1. EndingBalance(Whole(A), Zero, years, k) = Minus(Whole(A), Times(Frac(A, term), Whole(k)))
    BY <1>3 DEF EndingBalance
  <2>2. PICK x \in Int : x = A * k
    OBVIOUS
  <2>3. Times(Frac(A, term), Whole(k)) = Frac(x, term)
    <3>1. k \in Int
      OBVIOUS
    <3> QED BY <2>2, <3>1, TimesWhole, Zenon
  <2>4. Minus(Frac(A, o), Frac(x, term)) = Frac(A * term - x * o, o * term)
    <3>1. \A top \in Int, bottom \in Nat \ {0} :
              Minus(Frac(A, o), Frac(top, bottom)) = Frac(A * bottom - top * o, o * bottom)
      BY MinusOf
    <3> QED BY <3>1
  <2>5. x * o = x /\ o * term = term
    BY <1>1
  <2> QED BY <1>2, <2>1, <2>2, <2>3, <2>4, <2>5 DEF Flat
<1> QED BY <1>3, <1>4

----------------------------------------------------------------------------
\* The repayment of a loan.

LoanInv ==
    /\ borrowed \in LoanCases
    /\ month \in Nat
    /\ month <= borrowed.years * MonthsInYear
    /\ balance = EndingBalance(Whole(borrowed.amount), borrowed.rate, borrowed.years, month)

\* One month of a loan at no interest.
LEMMA PaysAtNothing ==
    ASSUME NEW A \in Int, NEW term \in Nat \ {0}, NEW v \in Nat \ {0}, NEW k \in Nat
    PROVE  Minus(Times(Flat(A, term, k), Frac(v, v)), Frac(A, term)) = Flat(A, term, k + 1)
<1>1. PICK x \in Int : x = A * term - A * k
  OBVIOUS
<1>2. Times(Frac(x, term), Frac(v, v)) = Frac(x, term)
  <2>1. Times(Frac(x, term), Frac(v, v)) = Frac(x * v, term * v)
    BY TimesOf
  <2>2. Frac(v * x, v * term) = Frac(x, term)
    <3>1. \A top \in Int, bottom \in Nat \ {0} :
              Frac(v * top, v * bottom) = Frac(top, bottom)
      BY FracScales
    <3> QED BY <3>1
  <2>3. v * x = x * v /\ v * term = term * v
    OBVIOUS
  <2> QED BY <2>1, <2>2, <2>3
<1>3. Minus(Frac(x, term), Frac(A, term)) = Frac(x - A, term)
  BY SameDen
<1>4. x - A = A * term - A * (k + 1)
  BY <1>1
<1> QED BY <1>1, <1>2, <1>3, <1>4 DEF Flat

\* One month of a loan at a rate.
LEMMA PaysAtRate ==
    ASSUME NEW A \in Int, NEW n \in Nat \ {0}, NEW u \in Nat \ {0}, NEW v \in Nat \ {0}, u = v + n,
           NEW a \in Nat \ {0}, NEW b \in Nat \ {0}, NEW c \in Nat \ {0}, NEW d \in Nat \ {0}, c > d
    PROVE  Minus(Times(Owed(A, a, b, c, d), Frac(u, v)), Level(A, n, v, c, d))
             = Owed(A, a * u, b * v, c, d)
<1>1. PICK k \in Nat \ {0} : k = c - d
  <2>1. c - d \in Nat \ {0}
    OBVIOUS
  <2> QED BY <2>1
<1>2. PICK x \in Int, y \in Nat \ {0} : x = A * (c * b - a * d) /\ y = b * k
  <2>1. b * k \in Nat \ {0} /\ A * (c * b - a * d) \in Int
    BY Sizes
  <2> QED BY <2>1
<1>3. PICK p \in Int, q \in Nat \ {0} : p = (A * n) * c /\ q = v * k
  <2>1. v * k \in Nat \ {0} /\ (A * n) * c \in Int
    BY Sizes
  <2> QED BY <2>1
<1>4. PICK w \in Nat \ {0} : w = y * v
  <2>1. y * v \in Nat \ {0}
    BY Sizes
  <2> QED BY <2>1
<1>5. Times(Frac(x, y), Frac(u, v)) = Frac(x * u, w)
  <2>1. Times(Frac(x, y), Frac(u, v)) = Frac(x * u, y * v)
    BY TimesOf
  <2> QED BY <1>4, <2>1
<1>6. Frac(p, q) = Frac(b * p, w)
  <2>1. Frac(b * p, b * q) = Frac(p, q)
    <3>1. \A top \in Int, bottom \in Nat \ {0} :
              Frac(b * top, b * bottom) = Frac(top, bottom)
      BY FracScales
    <3> QED BY <3>1
  <2>2. (b * k) * v = b * (v * k)
    OBVIOUS
  <2> QED BY <1>2, <1>3, <1>4, <2>1, <2>2
<1>7. Minus(Frac(x * u, w), Frac(b * p, w)) = Frac(x * u - b * p, w)
  <2>1. PICK i \in Int, j \in Int : i = x * u /\ j = b * p
    OBVIOUS
  <2>2. Minus(Frac(i, w), Frac(j, w)) = Frac(i - j, w)
    BY SameDen
  <2> QED BY <2>1, <2>2
<1>8. x * u - b * p = A * (c * (b * v) - (a * u) * d)
  <2>1. \A e, f, g, h, i, j, t \in Int :
            (e * (i * h - g * j)) * (t + f) - h * ((e * f) * i)
              = e * (i * (h * t) - (g * (t + f)) * j)
    OBVIOUS
  <2>2. (A * (c * b - a * d)) * (v + n) - b * ((A * n) * c)
          = A * (c * (b * v) - (a * (v + n)) * d)
    BY <2>1
  <2> QED BY <1>2, <1>3, <2>2
<1>9. w = (b * v) * k
  <2>1. (b * k) * v = (b * v) * k
    OBVIOUS
  <2> QED BY <1>2, <1>4, <2>1
<1> QED BY <1>1, <1>2, <1>3, <1>5, <1>6, <1>7, <1>8, <1>9 DEF Owed, Level

\* Paying the level payment every month leaves what the closed form says.
LEMMA PaymentsLeave ==
    ASSUME NEW loan \in LoanCases, NEW years \in Nat \ {0}, NEW term \in Nat \ {0},
           years = loan.years, term = years * MonthsInYear
    PROVE  /\ EndingBalance(Whole(loan.amount), loan.rate, years, 0) = Whole(loan.amount)
           /\ EndingBalance(Whole(loan.amount), loan.rate, years, term) = Zero
           /\ \A k \in Nat :
                  EndingBalance(Whole(loan.amount), loan.rate, years, k + 1)
                    = Minus(Times(EndingBalance(Whole(loan.amount), loan.rate, years, k),
                                  Plus(One, MonthlyRate(loan.rate))),
                            Pmt(MonthlyRate(loan.rate), term, Whole(loan.amount)))
<1>1. PICK n \in Nat, u, v, c, d \in Nat \ {0} : LoanParts(loan, term, n, u, v, c, d)
  BY LoanHasParts
<1>2. PICK A \in Int : A = loan.amount
  BY LoanAssumption
<1>3. PICK o \in Nat \ {0} : o = 1 /\ Whole(A) = Frac(A, o) /\ One = Frac(o, o)
  <2>1. 1 \in Nat \ {0} /\ Whole(A) = Frac(A, 1) /\ One = Frac(1, 1)
    BY WholeIs DEF One
  <2> QED BY <2>1
<1>4. CASE n = 0
  <2>1. loan.rate = Zero /\ u = v /\ Plus(One, MonthlyRate(loan.rate)) = Frac(v, v)
        /\ MonthlyRate(loan.rate) = Zero
    <3>1. loan.rate = Zero /\ u = v + n /\ Plus(One, MonthlyRate(loan.rate)) = Frac(u, v)
          /\ MonthlyRate(loan.rate) = Frac(n, v)
      BY <1>1, <1>4 DEF LoanParts
    <3>2. u = v
      BY <1>4, <3>1
    <3> QED BY <1>4, <3>1, <3>2, FracZero
  <2>2. /\ Pmt(Zero, term, Whole(A)) = Frac(A, term)
        /\ \A k \in Nat : EndingBalance(Whole(A), Zero, years, k) = Flat(A, term, k)
    BY OwedAtNothing
  <2>3. Flat(A, term, 0) = Whole(A)
    <3>1. \A top \in Int, bottom \in Nat \ {0} :
              Frac(term * top, term * bottom) = Frac(top, bottom)
      BY FracScales
    <3>2. A * term - A * 0 = term * A /\ term = term * o
      BY <1>3
    <3> QED BY <1>3, <3>1, <3>2 DEF Flat
  <2>4. Flat(A, term, term) = Zero
    <3>1. A * term - A * term = 0
      OBVIOUS
    <3> QED BY <3>1, FracZero DEF Flat
  <2>5. ASSUME NEW k \in Nat
        PROVE  EndingBalance(Whole(A), Zero, years, k + 1)
                 = Minus(Times(EndingBalance(Whole(A), Zero, years, k), Frac(v, v)), Frac(A, term))
    <3>1. k + 1 \in Nat
      OBVIOUS
    <3>2. Minus(Times(Flat(A, term, k), Frac(v, v)), Frac(A, term)) = Flat(A, term, k + 1)
      BY PaysAtNothing
    <3> QED BY <2>2, <3>1, <3>2, Zenon
  <2>6. 0 \in Nat /\ term \in Nat
    OBVIOUS
  <2>7. EndingBalance(Whole(A), Zero, years, 0) = Whole(A)
        /\ EndingBalance(Whole(A), Zero, years, term) = Zero
    BY <2>2, <2>3, <2>4, <2>6, Zenon
  <2> QED BY <1>2, <2>1, <2>2, <2>5, <2>7, Zenon
<1>5. CASE n # 0
  <2>1. n \in Nat \ {0} /\ c > d /\ u = v + n
        /\ MonthlyRate(loan.rate) = Frac(n, v) /\ Plus(One, MonthlyRate(loan.rate)) = Frac(u, v)
        /\ Power(Frac(u, v), term) = Frac(c, d)
        /\ \A k \in Nat : \E a, b \in Nat \ {0} : Power(Frac(u, v), k) = Frac(a, b)
    BY <1>1, <1>5 DEF LoanParts
  <2>2. ASSUME NEW k \in Nat, NEW a \in Nat \ {0}, NEW b \in Nat \ {0},
               Power(Frac(u, v), k) = Frac(a, b)
        PROVE  EndingBalance(Whole(A), loan.rate, years, k)
                 = Owed(A, a, b, c, d)
    <3>1. loan.rate # Zero
      BY <1>1, <1>5 DEF LoanParts
    <3>2. EndingBalance(Whole(A), loan.rate, years, k)
            = Outstanding(Whole(A), Power(Frac(u, v), k), Power(Frac(u, v), term))
      BY <2>1, <3>1 DEF EndingBalance
    <3>3. EndingBalance(Whole(A), loan.rate, years, k) = Outstanding(Whole(A), Frac(a, b), Frac(c, d))
      BY <2>1, <2>2, <3>2
    <3>4. \A c1, d1 \in Nat \ {0} : c1 > d1 =>
              Outstanding(Whole(A), Frac(a, b), Frac(c1, d1)) = Owed(A, a, b, c1, d1)
      BY OutstandingOf
    <3>5. c > d
      BY <2>1
    <3> QED BY <3>3, <3>4, <3>5
  <2>3. Pmt(MonthlyRate(loan.rate), term, Whole(A)) = Level(A, n, v, c, d)
    <3>1. Power(Plus(One, Frac(n, v)), term) = Frac(c, d) /\ term \in Nat
      BY <2>1
    <3>2. Pmt(Frac(n, v), term, Whole(A)) = Level(A, n, v, c, d)
      <4>1. n \in Nat \ {0} /\ c > d
        BY <2>1
      <4>2. \A N \in Nat : Power(Plus(One, Frac(n, v)), N) = Frac(c, d) =>
                Pmt(Frac(n, v), N, Whole(A)) = Level(A, n, v, c, d)
        BY <4>1, PmtOf
      <4> QED BY <3>1, <4>2
    <3> QED BY <2>1, <3>2
  <2>4. PICK t \in Nat \ {0} : t = c - d
    <3>1. c - d \in Nat \ {0}
      BY <2>1
    <3> QED BY <3>1
  <2>5. EndingBalance(Whole(A), loan.rate, years, 0) = Whole(A)
    <3>1. Frac(u, v) \in Fractions
      BY DEF Fractions
    <3>2. Power(Frac(u, v), 0) = Frac(o, o)
      BY <1>3, <3>1, PowerSteps
    <3>3. EndingBalance(Whole(A), loan.rate, years, 0) = Owed(A, o, o, c, d)
      BY <2>2, <3>2
    <3>4. A * (c * o - o * d) = t * A /\ o * (c - d) = t * o
      BY <1>3, <2>4
    <3>5. \A top \in Int, bottom \in Nat \ {0} :
              Frac(t * top, t * bottom) = Frac(top, bottom)
      BY FracScales
    <3>6. Frac(t * A, t * o) = Frac(A, o)
      BY <3>5
    <3> QED BY <1>3, <3>3, <3>4, <3>6, Zenon DEF Owed
  <2>6. EndingBalance(Whole(A), loan.rate, years, term) = Zero
    <3>1. EndingBalance(Whole(A), loan.rate, years, term) = Owed(A, c, d, c, d)
      <4>1. term \in Nat
        OBVIOUS
      <4> QED BY <2>1, <2>2, <4>1
    <3>2. PICK y \in Nat \ {0} : y = d * t
      <4>1. d * t \in Nat \ {0}
        BY Sizes
      <4> QED BY <4>1
    <3>3. A * (c * d - c * d) = 0
      OBVIOUS
    <3> QED BY <2>4, <3>1, <3>2, <3>3, FracZero DEF Owed
  <2>7. ASSUME NEW k \in Nat
        PROVE  EndingBalance(Whole(A), loan.rate, years, k + 1)
                 = Minus(Times(EndingBalance(Whole(A), loan.rate, years, k), Frac(u, v)),
                         Level(A, n, v, c, d))
    <3>1. PICK a, b \in Nat \ {0} : Power(Frac(u, v), k) = Frac(a, b)
      BY <2>1
    <3>2. PICK x \in Nat \ {0}, y \in Nat \ {0} : x = a * u /\ y = b * v
      <4>1. a * u \in Nat \ {0} /\ b * v \in Nat \ {0}
        BY Sizes
      <4> QED BY <4>1
    <3>3. Power(Frac(u, v), k + 1) = Frac(x, y)
      <4>1. Frac(u, v) \in Fractions
        BY DEF Fractions
      <4>2. Power(Frac(u, v), k + 1) = Times(Frac(a, b), Frac(u, v))
        BY <3>1, <4>1, PowerSteps
      <4>3. Times(Frac(a, b), Frac(u, v)) = Frac(a * u, b * v)
        BY TimesOf
      <4> QED BY <3>2, <4>2, <4>3
    <3>4. EndingBalance(Whole(A), loan.rate, years, k) = Owed(A, a, b, c, d)
      BY <2>2, <3>1
    <3>5. EndingBalance(Whole(A), loan.rate, years, k + 1) = Owed(A, x, y, c, d)
      <4>1. k + 1 \in Nat
        OBVIOUS
      <4> QED BY <2>2, <3>3, <4>1
    <3>6. Minus(Times(Owed(A, a, b, c, d), Frac(u, v)), Level(A, n, v, c, d))
            = Owed(A, a * u, b * v, c, d)
      <4>1. \A x1, y1, c1, d1 \in Nat \ {0} : c1 > d1 =>
                Minus(Times(Owed(A, x1, y1, c1, d1), Frac(u, v)), Level(A, n, v, c1, d1))
                  = Owed(A, x1 * u, y1 * v, c1, d1)
        <5>1. n \in Nat \ {0} /\ u = v + n
          BY <2>1
        <5> QED BY <5>1, PaysAtRate, SMTT(30)
      <4>2. c > d
        BY <2>1
      <4> QED BY <4>1, <4>2
    <3> QED BY <3>2, <3>4, <3>5, <3>6, Zenon
  <2> QED BY <1>2, <2>1, <2>3, <2>5, <2>6, <2>7, Zenon
<1> QED BY <1>4, <1>5

LEMMA LoanStarts == LoanInit => LoanInv
<1> SUFFICES ASSUME LoanInit PROVE LoanInv
  OBVIOUS
<1>1. borrowed \in LoanCases /\ month = 0 /\ balance = Whole(borrowed.amount)
  BY DEF LoanInit
<1>2. PICK years \in Nat \ {0} : years = borrowed.years
  BY <1>1, LoanAssumption
<1>3. PICK term \in Nat \ {0} : term = years * MonthsInYear
  BY CalculatorAssumption, Sizes
<1>4. EndingBalance(Whole(borrowed.amount), borrowed.rate, years, 0) = Whole(borrowed.amount)
  BY <1>1, <1>2, <1>3, PaymentsLeave
<1>5. month <= term
  BY <1>1
<1>6. month <= borrowed.years * MonthsInYear
  BY <1>2, <1>3, <1>5
<1> QED BY <1>1, <1>2, <1>4, <1>6 DEF LoanInv

LEMMA PaymentKeeps == LoanInv /\ [PayMonth]_loanVars => LoanInv'
<1> SUFFICES ASSUME LoanInv, [PayMonth]_loanVars PROVE LoanInv'
  OBVIOUS
<1>1. CASE PayMonth
  <2>1. /\ borrowed \in LoanCases /\ month \in Nat
        /\ balance = EndingBalance(Whole(borrowed.amount), borrowed.rate, borrowed.years, month)
    BY DEF LoanInv
  <2>2. PICK years \in Nat \ {0} : years = borrowed.years
    BY <2>1, LoanAssumption
  <2>3. PICK term \in Nat \ {0} : term = years * MonthsInYear
    BY CalculatorAssumption, Sizes
  <2>4. /\ month < term /\ month' = month + 1 /\ borrowed' = borrowed
        /\ balance' = Minus(Times(balance, Plus(One, MonthlyRate(borrowed.rate))),
                            Pmt(MonthlyRate(borrowed.rate), term, Whole(borrowed.amount)))
    BY <1>1, <2>2, <2>3 DEF PayMonth
  <2>5. \A k \in Nat :
            EndingBalance(Whole(borrowed.amount), borrowed.rate, years, k + 1)
              = Minus(Times(EndingBalance(Whole(borrowed.amount), borrowed.rate, years, k),
                            Plus(One, MonthlyRate(borrowed.rate))),
                      Pmt(MonthlyRate(borrowed.rate), term, Whole(borrowed.amount)))
    BY <2>1, <2>2, <2>3, PaymentsLeave
  <2>6. balance' = EndingBalance(Whole(borrowed.amount), borrowed.rate, years, month + 1)
    BY <2>1, <2>2, <2>4, <2>5
  <2>7. month + 1 \in Nat /\ month + 1 <= term
    BY <2>1, <2>4
  <2>8. month' <= borrowed'.years * MonthsInYear
    BY <2>2, <2>3, <2>4, <2>7
  <2> QED BY <2>1, <2>2, <2>4, <2>6, <2>7, <2>8 DEF LoanInv
<1>2. CASE UNCHANGED loanVars
  BY <1>2 DEF loanVars, LoanInv
<1> QED BY <1>1, <1>2

\* Each month of the repayment leaves the balance the closed form gives, whatever the
\* amount, the rate and the term.  (_pmt, _ending_balance)
THEOREM LoanInvariant == LoanSpec => []LoanInv
<1> QED BY LoanStarts, PaymentKeeps, PTL DEF LoanSpec

\* The level payment repays the loan, and the balance in between is the one read after a year.
THEOREM LoansAreRepaid == LoanSpec => []BalanceIsWhatPaymentsLeave
<1>1. LoanInv => BalanceIsWhatPaymentsLeave
  <2> SUFFICES ASSUME LoanInv PROVE BalanceIsWhatPaymentsLeave
    OBVIOUS
  <2>1. /\ borrowed \in LoanCases
        /\ balance = EndingBalance(Whole(borrowed.amount), borrowed.rate, borrowed.years, month)
    BY DEF LoanInv
  <2>2. PICK years \in Nat \ {0} : years = borrowed.years
    BY <2>1, LoanAssumption
  <2>3. PICK term \in Nat \ {0} : term = years * MonthsInYear
    BY CalculatorAssumption, Sizes
  <2>4. EndingBalance(Whole(borrowed.amount), borrowed.rate, years, term) = Zero
    BY <2>1, <2>2, <2>3, PaymentsLeave
  <2> QED BY <2>1, <2>2, <2>3, <2>4 DEF BalanceIsWhatPaymentsLeave
<1> QED BY <1>1, LoanInvariant, PTL

\* The simulation calculates with the sum of the children, a save with the children.
LEMMA SummedOnce ==
    ASSUME NEW list \in Seq(Int)
    PROVE  SumOf([i \in DOMAIN OneItem(list) |-> Whole(OneItem(list)[i])])
             = SumOf([i \in DOMAIN list |-> Whole(list[i])])
<1>1. PICK n \in Nat : n = Len(list) /\ DOMAIN list = 1 .. n /\ list \in [1 .. n -> Int]
  OBVIOUS
<1>2. PICK y : y = SumFunction(list)
  OBVIOUS
<1>3. y \in Int /\ SumOf([i \in DOMAIN list |-> Whole(list[i])]) = Whole(y)
  BY <1>1, <1>2, WholeSums
<1>4. PICK f : f = <<y>>
  OBVIOUS
<1>5. f \in [1 .. 1 -> Int] /\ f[1] = y /\ DOMAIN f = 1 .. 1
  BY <1>3, <1>4
<1>6. SumFunction(f) = y
  <2>1. IsFiniteSet(DOMAIN f) /\ \A i \in DOMAIN f : f[i] \in Int
    <3>1. 1 .. 1 = {1}
      OBVIOUS
    <3>2. IsFiniteSet({1})
      BY FS_Singleton
    <3> QED BY <1>3, <1>5, <3>1, <3>2
  <2>2. PICK it : Sums(it, f) /\ SumFunction(f) = it[DOMAIN f]
    BY <2>1, SumIs
  <2>3. /\ it[{}] = 0
        /\ \A s \in SUBSET DOMAIN f : \A x \in s : it[s] = f[x] + it[s \ {x}]
    BY <2>2 DEF Sums
  <2>4. 1 \in DOMAIN f /\ DOMAIN f \ {1} = {}
    BY <1>5
  <2>5. it[DOMAIN f] = f[1] + it[DOMAIN f \ {1}]
    <3>1. \A x \in DOMAIN f : it[DOMAIN f] = f[x] + it[DOMAIN f \ {x}]
      BY <2>3
    <3> QED BY <2>4, <3>1
  <2>6. it[DOMAIN f] = y + 0
    BY <1>5, <2>3, <2>4, <2>5, Zenon
  <2> QED BY <1>3, <2>2, <2>6
<1>7. SumOf([i \in 1 .. 1 |-> Whole(f[i])]) = Whole(SumFunction(f))
  <2>1. 1 \in Nat
    OBVIOUS
  <2> QED BY <1>5, <2>1, WholeSums
<1>8. OneItem(list) = f
  BY <1>2, <1>4 DEF OneItem
<1> QED BY <1>3, <1>5, <1>6, <1>7, <1>8

LEMMA FiguresOfSums ==
    ASSUME NEW revenue, NEW terms, NEW items \in Seq(Int), NEW expenses \in Seq(Int), NEW loan
    PROVE  Figures(revenue, terms, OneItem(items), OneItem(expenses), loan)
             = Figures(revenue, terms, items, expenses, loan)
<1>1. TotalOop(terms, OneItem(items), loan) = TotalOop(terms, items, loan)
  <2>1. ItemsTotal(OneItem(items)) = ItemsTotal(items)
    BY SummedOnce DEF ItemsTotal
  <2> QED BY <2>1, Zenon DEF TotalOop, GrossOop
<1>2. \A s : OperatingIncome(s, revenue, OneItem(expenses)) = OperatingIncome(s, revenue, expenses)
  <2>1. SumOf([i \in DOMAIN OneItem(expenses) |-> Whole(OneItem(expenses)[i])])
          = SumOf([i \in DOMAIN expenses |-> Whole(expenses[i])])
    BY SummedOnce
  <2> QED BY <2>1, Zenon DEF OperatingIncome
<1>3. \A s : Scenario(s, revenue, terms, OneItem(items), OneItem(expenses), loan)
               = Scenario(s, revenue, terms, items, expenses, loan)
  BY <1>1, <1>2, Zenon DEF Scenario
<1>4. ForecastedRevenue(revenue, terms, OneItem(items), OneItem(expenses), loan)
        = ForecastedRevenue(revenue, terms, items, expenses, loan)
  BY <1>3, Zenon DEF ForecastedRevenue
<1> QED BY <1>1, <1>4, Zenon DEF Figures

-----------------------------------------------------------------------------
(***************************************************************************)
(* The numbers of a deal.  What the calculator computes does not matter:   *)
(* the stored figures are what it gives for the stored inputs because a    *)
(* write that calculates replaces every input it calculates from.          *)
(***************************************************************************)

\* A stored collection: never absent.
Amounts(list) == list # None /\ list \in Seq(Int)

\* A stored row, as far as it is read.
RowKept(r) ==
    /\ r = [price |-> r.price, terms |-> r.terms, revenue |-> r.revenue, loan |-> r.loan,
            tax |-> r.tax, savings |-> r.savings, items |-> r.items, expenses |-> r.expenses,
            figures |-> r.figures, y1 |-> r.y1, terminal |-> r.terminal]
    /\ r.figures = [scenarios |-> r.figures.scenarios, oop |-> r.figures.oop,
                    coc |-> r.figures.coc, prr |-> r.figures.prr, budget |-> r.figures.budget]
    /\ r.terms \in OrNone(Terms)
    /\ Amounts(r.items) /\ Amounts(r.expenses)

\* The figures and the taxes of a row are those of its inputs.
FiguresOfRow(r) ==
    r.figures.scenarios # None \/ r.y1 # None =>
        /\ r.terms # None /\ r.revenue # None
        /\ ~OopRaises(r.terms, r.items, r.loan)
        /\ r.figures = Figures(r.revenue, r.terms, r.items, r.expenses, r.loan)
TaxesOfRow(r) ==
    r.y1 # None =>
        /\ r.savings = TaxSavings(r.tax, r.price, r.items)
        /\ r.y1 = Y1Coc(r.figures.scenarios, r.savings, r.figures.oop)

\* What the reconcile job holds is a full calculation: terms, revenue and taxes.
PlanComplete ==
    plan # None =>
        /\ RowKept(deal)
        /\ plan.terms \in Terms
        /\ plan.revenue # None /\ plan.tax # None /\ plan.oop = None
        /\ plan.items # None /\ plan.expenses # None

NumbersInv ==
    /\ deal # None => RowKept(deal)
    /\ deal # None /\ drift = {} => FiguresOfRow(deal)
    /\ deal # None /\ drift = {} /\ taxDrift = {} => TaxesOfRow(deal)
    /\ PlanComplete

LEMMA TermsAre ==
    /\ \A t \in Terms : t # None
    /\ \A t \in Terms, x \in Int : [t EXCEPT !.price = x] \in Terms
  BY NumbersAssumption DEF Terms

\* What a calculation leaves in a row.
Leaves(r, p, revenue, loan, items, expenses, made) ==
    /\ made.price = IF p.terms # None THEN p.terms.price ELSE OrKeep(p.price, r.price)
    /\ made.terms = OrKeep(p.terms, r.terms)
    /\ made.revenue = OrKeep(revenue, r.revenue)
    /\ made.loan = OrKeep(p.loan, r.loan)
    /\ made.tax = OrKeep(p.tax, r.tax)
    /\ p.tax = None => made.savings = r.savings
    /\ p.tax # None => made.savings = TaxSavings(p.tax, PriceFor(p), OrEmpty(p.items))
    /\ made.items = items /\ made.expenses = expenses
    /\ revenue = None => /\ made.figures.scenarios = r.figures.scenarios
                         /\ p.oop = None => made.figures = r.figures
    /\ revenue # None =>
         made.figures = Figures(revenue, p.terms, OrEmpty(p.items), OrEmpty(p.expenses), loan)
    /\ revenue = None \/ p.tax = None => made.y1 = r.y1
    /\ revenue # None /\ p.tax # None =>
         made.y1 = Y1Coc(made.figures.scenarios, made.savings, made.figures.oop)
    /\ RowKept(made)

LEMMA CalculatedRow ==
    ASSUME NEW r, RowKept(r), NEW p, p.terms \in OrNone(Terms), NEW revenue, NEW loan,
           NEW items, NEW expenses, Amounts(items), Amounts(expenses),
           NEW made, made = Calculated(r, p, revenue, loan, items, expenses)
    PROVE  Leaves(r, p, revenue, loan, items, expenses, made)
<1>1. PICK savings : savings = TaxSavings(p.tax, PriceFor(p), OrEmpty(p.items))
  OBVIOUS
<1>2. PICK figures : figures = IF revenue = None
                               THEN [r.figures EXCEPT !.oop = OrKeep(p.oop, @)]
                               ELSE Figures(revenue, p.terms, OrEmpty(p.items), OrEmpty(p.expenses), loan)
  OBVIOUS
<1>3. made = Recalculated(r, p, revenue, savings, figures, items, expenses)
  BY <1>1, <1>2, Zenon DEF Calculated
<1>4. /\ revenue = None => figures = [r.figures EXCEPT !.oop = OrKeep(p.oop, @)]
      /\ revenue # None =>
           figures = Figures(revenue, p.terms, OrEmpty(p.items), OrEmpty(p.expenses), loan)
  BY <1>2, Zenon
<1>5. /\ figures = [scenarios |-> figures.scenarios, oop |-> figures.oop, coc |-> figures.coc,
                    prr |-> figures.prr, budget |-> figures.budget]
      /\ revenue = None => /\ figures.scenarios = r.figures.scenarios
                           /\ p.oop = None => figures = r.figures
  <2>1. CASE revenue = None
    <3>1. figures = [r.figures EXCEPT !.oop = OrKeep(p.oop, r.figures.oop)]
      BY <1>4, <2>1, Zenon
    <3>2. PICK f, o : f = r.figures /\ o = OrKeep(p.oop, r.figures.oop)
      OBVIOUS
    <3>3. /\ figures = [f EXCEPT !.oop = o]
          /\ f = [scenarios |-> f.scenarios, oop |-> f.oop, coc |-> f.coc,
                  prr |-> f.prr, budget |-> f.budget]
      BY <3>1, <3>2, Zenon DEF RowKept
    <3>4. figures = [scenarios |-> f.scenarios, oop |-> o, coc |-> f.coc,
                     prr |-> f.prr, budget |-> f.budget]
      BY <3>3
    <3>5. p.oop = None => o = f.oop
      BY <3>2, Zenon DEF OrKeep
    <3> QED BY <2>1, <3>2, <3>3, <3>4, <3>5
  <2>2. CASE revenue # None
    <3>1. PICK s, o, c, x, b : figures = [scenarios |-> s, oop |-> o, coc |-> c, prr |-> x, budget |-> b]
      BY <1>4, <2>2, Zenon DEF Figures, FiguresOf
    <3> QED BY <2>2, <3>1
  <2> QED BY <2>1, <2>2
<1>6. OrKeep(p.terms, r.terms) \in OrNone(Terms)
  BY Zenon DEF OrKeep, RowKept
<1>7. /\ made.price = IF p.terms # None THEN p.terms.price ELSE OrKeep(p.price, r.price)
      /\ made.terms = OrKeep(p.terms, r.terms)
      /\ made.revenue = OrKeep(revenue, r.revenue)
      /\ made.loan = OrKeep(p.loan, r.loan)
      /\ made.tax = OrKeep(p.tax, r.tax)
      /\ p.tax = None => made.savings = r.savings
      /\ p.tax # None => made.savings = savings
      /\ made.items = items /\ made.expenses = expenses /\ made.figures = figures
      /\ revenue = None \/ p.tax = None => made.y1 = r.y1
      /\ revenue # None /\ p.tax # None => made.y1 = Y1Coc(figures.scenarios, savings, figures.oop)
      /\ made = [price |-> made.price, terms |-> made.terms, revenue |-> made.revenue,
                 loan |-> made.loan, tax |-> made.tax, savings |-> made.savings,
                 items |-> made.items, expenses |-> made.expenses,
                 figures |-> made.figures, y1 |-> made.y1, terminal |-> made.terminal]
  BY <1>3 DEF Recalculated
<1>8. RowKept(made)
  BY <1>5, <1>6, <1>7, Zenon DEF RowKept
<1>9. revenue # None /\ p.tax # None =>
        made.y1 = Y1Coc(made.figures.scenarios, made.savings, made.figures.oop)
  BY <1>7, Zenon
<1>10. /\ made.figures = figures
       /\ revenue # None =>
            made.figures = Figures(revenue, p.terms, OrEmpty(p.items), OrEmpty(p.expenses), loan)
       /\ p.tax # None => made.savings = TaxSavings(p.tax, PriceFor(p), OrEmpty(p.items))
  BY <1>1, <1>4, <1>7, Zenon
<1> QED BY <1>5, <1>7, <1>8, <1>9, <1>10, Zenon DEF Leaves

\* A write that calculates leaves figures and, with taxes, percentages of the row it makes.
LEMMA CalculationFollows ==
    ASSUME NEW r, RowKept(r), NEW p, p.terms \in OrNone(Terms), NEW revenue, NEW loan,
           NEW items, NEW expenses, Amounts(items), Amounts(expenses),
           NEW made, made = Calculated(r, p, revenue, loan, items, expenses),
           revenue # None, ~Refused(p, revenue, loan),
           loan = OrKeep(p.loan, r.loan), items = OrEmpty(p.items)
    PROVE  /\ RowKept(made)
           /\ expenses = OrEmpty(p.expenses) => FiguresOfRow(made)
           /\ p.tax # None => TaxesOfRow(made)
<1>1. p.terms # None /\ p.terms \in Terms /\ ~OopRaises(p.terms, OrEmpty(p.items), loan)
  BY Zenon DEF Refused, OrNone
<1>2. /\ made.price = p.terms.price /\ made.terms = p.terms /\ made.revenue = revenue
      /\ made.loan = loan /\ made.items = OrEmpty(p.items) /\ made.expenses = expenses
      /\ made.tax = OrKeep(p.tax, r.tax)
      /\ made.figures = Figures(revenue, p.terms, OrEmpty(p.items), OrEmpty(p.expenses), loan)
      /\ p.tax # None => /\ made.savings = TaxSavings(p.tax, PriceFor(p), OrEmpty(p.items))
                         /\ made.y1 = Y1Coc(made.figures.scenarios, made.savings, made.figures.oop)
      /\ RowKept(made)
  <2>0. Leaves(r, p, revenue, loan, items, expenses, made)
    BY CalculatedRow
  <2>1. /\ made.price = IF p.terms # None THEN p.terms.price ELSE OrKeep(p.price, r.price)
        /\ made.terms = OrKeep(p.terms, r.terms)
        /\ made.revenue = OrKeep(revenue, r.revenue)
        /\ made.loan = OrKeep(p.loan, r.loan)
        /\ made.tax = OrKeep(p.tax, r.tax)
        /\ made.items = items /\ made.expenses = expenses
        /\ RowKept(made)
    BY <2>0, Zenon DEF Leaves
  <2>2. /\ p.tax # None => made.savings = TaxSavings(p.tax, PriceFor(p), OrEmpty(p.items))
        /\ made.figures = Figures(revenue, p.terms, OrEmpty(p.items), OrEmpty(p.expenses), loan)
        /\ p.tax # None =>
             made.y1 = Y1Coc(made.figures.scenarios, made.savings, made.figures.oop)
    BY <2>0, Zenon DEF Leaves
  <2>3. OrKeep(p.terms, r.terms) = p.terms /\ OrKeep(revenue, r.revenue) = revenue
    BY <1>1, Zenon DEF OrKeep
  <2> QED BY <1>1, <2>1, <2>2, <2>3, Zenon
<1>3. expenses = OrEmpty(p.expenses) => FiguresOfRow(made)
  BY <1>1, <1>2, Zenon DEF FiguresOfRow
<1>4. ASSUME p.tax # None
      PROVE  TaxesOfRow(made)
  <2>1. made.tax = p.tax
    BY <1>2, <1>4, Zenon DEF OrKeep
  <2>2. PriceFor(p) = p.terms.price
    BY <1>1, Zenon DEF PriceFor
  <2> QED BY <1>2, <1>4, <2>1, <2>2, Zenon DEF TaxesOfRow
<1> QED BY <1>2, <1>3, <1>4, Zenon

\* A write that calculates nothing and sends no input keeps both.
LEMMA SilentFollows ==
    ASSUME NEW r, RowKept(r), NEW p, p.terms = None, NEW loan,
           NEW items, NEW expenses, items = r.items, expenses = r.expenses,
           NEW made, made = Calculated(r, p, None, loan, items, expenses),
           p.loan = None, p.oop = None
    PROVE  /\ FiguresOfRow(r) => FiguresOfRow(made)
           /\ p.tax = None /\ p.price = None /\ TaxesOfRow(r) => TaxesOfRow(made)
<1>1. Amounts(items) /\ Amounts(expenses) /\ p.terms \in OrNone(Terms)
  BY Zenon DEF RowKept, OrNone
<1>2. /\ made.price = IF p.terms # None THEN p.terms.price ELSE OrKeep(p.price, r.price)
      /\ made.terms = OrKeep(p.terms, r.terms)
      /\ made.revenue = OrKeep(None, r.revenue)
      /\ made.loan = OrKeep(p.loan, r.loan)
      /\ made.tax = OrKeep(p.tax, r.tax)
      /\ made.items = items /\ made.expenses = expenses
      /\ made.figures = r.figures /\ made.y1 = r.y1
      /\ p.tax = None => made.savings = r.savings
  <2>1. Leaves(r, p, None, loan, items, expenses, made)
    BY <1>1, CalculatedRow
  <2> QED BY <2>1, Zenon DEF Leaves
<1>3. /\ made.terms = r.terms /\ made.revenue = r.revenue /\ made.loan = r.loan
      /\ p.price = None => made.price = r.price
      /\ p.tax = None => made.tax = r.tax
  BY <1>2, Zenon DEF OrKeep
<1>4. FiguresOfRow(r) => FiguresOfRow(made)
  BY <1>2, <1>3, Zenon DEF FiguresOfRow
<1>5. p.tax = None /\ p.price = None /\ TaxesOfRow(r) => TaxesOfRow(made)
  BY <1>2, <1>3, Zenon DEF TaxesOfRow
<1> QED BY <1>4, <1>5

LEMMA NumbersInitInv == NumbersInit => NumbersInv
<1> SUFFICES ASSUME NumbersInit PROVE NumbersInv
  OBVIOUS
<1> QED BY Zenon DEF NumbersInit, NumbersInv, PlanComplete

LEMMA BlankKept == RowKept(Blank) /\ Blank.items = <<>> /\ Blank.expenses = <<>>
                   /\ Blank.loan = None
<1>1. NoFigures = [scenarios |-> None, oop |-> None, coc |-> None, prr |-> None, budget |-> None]
  BY DEF NoFigures
<1>2. PICK f : f = NoFigures
  OBVIOUS
<1>3. f = [scenarios |-> f.scenarios, oop |-> f.oop, coc |-> f.coc, prr |-> f.prr,
           budget |-> f.budget]
  BY <1>1, <1>2
<1>4. PICK b : b = Blank
  OBVIOUS
<1>5. b = [price |-> None, terms |-> None, revenue |-> None, loan |-> None, tax |-> None,
           savings |-> None, items |-> <<>>, expenses |-> <<>>, figures |-> f, y1 |-> None,
           terminal |-> FALSE]
  BY <1>2, <1>4, Zenon DEF Blank
<1>6. /\ b.terms = None /\ b.items = <<>> /\ b.expenses = <<>> /\ b.figures = f /\ b.loan = None
      /\ b = [price |-> b.price, terms |-> b.terms, revenue |-> b.revenue, loan |-> b.loan,
              tax |-> b.tax, savings |-> b.savings, items |-> b.items,
              expenses |-> b.expenses, figures |-> b.figures, y1 |-> b.y1,
              terminal |-> b.terminal]
  BY <1>5
<1>7. Amounts(<<>>)
  BY NumbersAssumption DEF Amounts
<1> QED BY <1>3, <1>4, <1>6, <1>7, Zenon DEF RowKept, OrNone

LEMMA BlankIsEmpty == Blank.figures.scenarios = None /\ Blank.y1 = None
  BY DEF Blank, NoFigures

LEMMA SentLists ==
    ASSUME NEW list, list # None => list \in Seq(Int)
    PROVE  /\ Amounts(OrEmpty(list))
           /\ \A old : Amounts(old) => Amounts(OrKeep(list, old))
           /\ list # None => \A old : OrKeep(list, old) = OrEmpty(list)
           /\ list = None => \A old : OrKeep(list, old) = old
           /\ OrKeep(list, <<>>) = OrEmpty(list)
<1>1. None # <<>> /\ <<>> \in Seq(Int)
  BY NumbersAssumption
<1> QED BY <1>1, Zenon DEF OrEmpty, OrKeep, Amounts

LEMMA ListsSent ==
    ASSUME NEW p \in Payloads
    PROVE  /\ p.terms \in OrNone(Terms)
           /\ p.items # None => p.items \in Seq(Int)
           /\ p.expenses # None => p.expenses \in Seq(Int)
<1>1. p.terms \in OrNone(Terms) /\ \A list \in {p.items, p.expenses} \ {None} : list \in Seq(Int)
  BY NumbersAssumption, Zenon
<1>2. PICK items, expenses : items = p.items /\ expenses = p.expenses
  OBVIOUS
<1>3. \A list \in {items, expenses} \ {None} : list \in Seq(Int)
  BY <1>1, <1>2, Zenon
<1> QED BY <1>1, <1>2, <1>3

LEMMA CreateKeeps ==
    ASSUME NumbersInv, NEW p \in Payloads, CreateDeal(p)
    PROVE  NumbersInv'
<1>1. PICK revenue \in Forecasts(p) :
        /\ ~Refused(p, revenue, p.loan)
        /\ deal' = Calculated(Blank, p, revenue, p.loan, OrEmpty(p.items), OrEmpty(p.expenses))
  BY Zenon DEF CreateDeal
<1>2. deal = None /\ plan' = plan
  BY Zenon DEF CreateDeal
<1>3. RowKept(Blank) /\ Blank.loan = None /\ p.terms \in OrNone(Terms)
      /\ Amounts(OrEmpty(p.items)) /\ Amounts(OrEmpty(p.expenses))
  BY BlankKept, ListsSent, SentLists, Zenon
<1>4. Leaves(Blank, p, revenue, p.loan, OrEmpty(p.items), OrEmpty(p.expenses), deal')
  BY <1>1, <1>3, CalculatedRow
<1>5. RowKept(deal')
  BY <1>4, Zenon DEF Leaves
<1>6. PlanComplete'
  BY <1>2, <1>5, Zenon DEF NumbersInv, PlanComplete
<1>7. CASE revenue # None
  <2>1. p.loan = OrKeep(p.loan, Blank.loan)
    BY <1>3, Zenon DEF OrKeep
  <2>2. FiguresOfRow(deal') /\ (p.tax # None => TaxesOfRow(deal'))
    BY <1>1, <1>3, <1>7, <2>1, CalculationFollows
  <2>3. CASE p.tax # None
    BY <1>5, <1>6, <2>2, <2>3, Zenon DEF NumbersInv
  <2>4. CASE p.tax = None
    <3>1. deal'.y1 = Blank.y1
      BY <1>4, <2>4, Zenon DEF Leaves
    <3>2. TaxesOfRow(deal')
      BY <3>1, BlankIsEmpty, Zenon DEF TaxesOfRow
    <3> QED BY <1>5, <1>6, <2>2, <3>2, Zenon DEF NumbersInv
  <2> QED BY <2>3, <2>4
<1>8. CASE revenue = None
  <2>1. deal'.figures.scenarios = None /\ deal'.y1 = None
    BY <1>4, <1>8, BlankIsEmpty, Zenon DEF Leaves
  <2>2. FiguresOfRow(deal') /\ TaxesOfRow(deal')
    BY <2>1, Zenon DEF FiguresOfRow, TaxesOfRow
  <2> QED BY <1>5, <1>6, <2>2, Zenon DEF NumbersInv
<1> QED BY <1>7, <1>8

LEMMA PutKeeps ==
    ASSUME NumbersInv, NEW p \in Payloads, PutDeal(p)
    PROVE  NumbersInv'
<1> DEFINE loan == LoanFor(p, deal.loan)
           items == OrKeep(p.items, deal.items)
           expenses == OrKeep(p.expenses, deal.expenses)
<1>1. PICK revenue \in Forecasts(p) :
        /\ ~Refused(p, revenue, loan)
        /\ deal' = Calculated(deal, p, revenue, loan, items, expenses)
        /\ drift' = Drift(p, revenue, deal)
        /\ taxDrift' = TaxDrift(p, revenue, deal)
  BY Zenon DEF PutDeal
<1>2. deal # None /\ CollectionsSent(p) /\ plan' = plan
  BY Zenon DEF PutDeal
<1>3. RowKept(deal) /\ p.terms \in OrNone(Terms) /\ Amounts(deal.items) /\ Amounts(deal.expenses)
  BY <1>2, ListsSent, Zenon DEF NumbersInv, RowKept
<1>4. Amounts(items) /\ Amounts(expenses)
  BY <1>3, ListsSent, SentLists, Zenon
<1>5. Leaves(deal, p, revenue, loan, items, expenses, deal')
  BY <1>1, <1>3, <1>4, CalculatedRow
<1>6. RowKept(deal')
  BY <1>5, Zenon DEF Leaves
<1>7. PlanComplete'
  BY <1>2, <1>6, Zenon DEF NumbersInv, PlanComplete
<1>8. CASE revenue # None
  <2>1. p.terms # None
    BY <1>1, <1>8, Zenon DEF Refused
  <2>2. p.items # None /\ p.expenses # None
    BY <1>2, <2>1, Zenon DEF CollectionsSent
  <2>3. items = OrEmpty(p.items) /\ expenses = OrEmpty(p.expenses)
    BY <2>2, ListsSent, SentLists, Zenon
  <2>4. loan = OrKeep(p.loan, deal.loan)
    BY <2>1, Zenon DEF LoanFor, OrKeep
  <2>5. FiguresOfRow(deal') /\ (p.tax # None => TaxesOfRow(deal'))
    BY <1>1, <1>3, <1>4, <1>8, <2>3, <2>4, CalculationFollows
  <2>6. CASE p.tax # None
    BY <1>6, <1>7, <2>5, <2>6, Zenon DEF NumbersInv
  <2>7. CASE p.tax = None
    <3>1. taxDrift' = taxDrift \cup {"partial"}
      BY <1>1, <2>1, <2>7, Zenon DEF TaxDrift
    <3>2. taxDrift' # {}
      BY <3>1
    <3> QED BY <1>6, <1>7, <2>5, <3>2, Zenon DEF NumbersInv
  <2> QED BY <2>6, <2>7
<1>9. CASE revenue = None
  <2>1. ASSUME drift' = {}
        PROVE  /\ drift = {} /\ p.terms = None /\ p.loan = None /\ p.items = None
               /\ p.expenses = None /\ p.oop = None
    <3>1. drift \cup
            (IF p.terms # None \/ p.loan # None \/ p.items # None \/ p.expenses # None
             THEN {"partial"} ELSE {}) \cup
            (IF p.oop # None THEN {"override"} ELSE {}) = {}
      BY <1>1, <1>9, <2>1, Zenon DEF Drift
    <3> QED BY <3>1
  <2>2. ASSUME taxDrift' = {}
        PROVE  taxDrift = {} /\ p.tax = None /\ p.price = None
    <3>1. taxDrift \cup
            (IF p.terms # None \/ p.items # None \/ p.tax # None \/ p.price # None
             THEN {"partial"} ELSE {}) = {}
      BY <1>1, <1>9, <2>2, Zenon DEF TaxDrift
    <3> QED BY <3>1
  <2>3. ASSUME drift' = {}
        PROVE  /\ FiguresOfRow(deal) => FiguresOfRow(deal')
               /\ p.tax = None /\ p.price = None /\ TaxesOfRow(deal) => TaxesOfRow(deal')
    <3>1. items = deal.items /\ expenses = deal.expenses
      BY <2>1, <2>3, ListsSent, SentLists, Zenon
    <3>2. deal' = Calculated(deal, p, None, loan, items, expenses)
      BY <1>1, <1>9, Zenon
    <3> HIDE DEF items, expenses, loan
    <3> QED BY <1>3, <2>1, <2>3, <3>1, <3>2, SilentFollows
  <2> QED BY <1>2, <1>6, <1>7, <2>1, <2>2, <2>3, Zenon DEF NumbersInv
<1> QED BY <1>8, <1>9

LEMMA FinishKeeps ==
    ASSUME NumbersInv, FinishDeal
    PROVE  NumbersInv'
<1>1. /\ deal # None /\ deal' = [deal EXCEPT !.terminal = TRUE] /\ plan' = plan
      /\ drift' = drift /\ taxDrift' = taxDrift
  BY Zenon DEF FinishDeal
<1>2. RowKept(deal)
  BY <1>1, Zenon DEF NumbersInv
<1>3. PICK r, s : r = deal /\ s = deal'
  OBVIOUS
<1>4. /\ s = [r EXCEPT !.terminal = TRUE]
      /\ r = [price |-> r.price, terms |-> r.terms, revenue |-> r.revenue, loan |-> r.loan,
              tax |-> r.tax, savings |-> r.savings, items |-> r.items,
              expenses |-> r.expenses, figures |-> r.figures, y1 |-> r.y1,
              terminal |-> r.terminal]
  BY <1>1, <1>2, <1>3, Zenon DEF RowKept
<1>5. s = [price |-> r.price, terms |-> r.terms, revenue |-> r.revenue, loan |-> r.loan,
           tax |-> r.tax, savings |-> r.savings, items |-> r.items,
           expenses |-> r.expenses, figures |-> r.figures, y1 |-> r.y1, terminal |-> TRUE]
  BY <1>4
<1>6. /\ s.price = r.price /\ s.terms = r.terms /\ s.revenue = r.revenue /\ s.loan = r.loan
      /\ s.tax = r.tax /\ s.savings = r.savings /\ s.items = r.items
      /\ s.expenses = r.expenses /\ s.figures = r.figures /\ s.y1 = r.y1
      /\ s = [price |-> s.price, terms |-> s.terms, revenue |-> s.revenue, loan |-> s.loan,
              tax |-> s.tax, savings |-> s.savings, items |-> s.items,
              expenses |-> s.expenses, figures |-> s.figures, y1 |-> s.y1,
              terminal |-> s.terminal]
  BY <1>5
<1>7. RowKept(s) /\ (FiguresOfRow(r) => FiguresOfRow(s)) /\ (TaxesOfRow(r) => TaxesOfRow(s))
  BY <1>2, <1>3, <1>6, Zenon DEF RowKept, FiguresOfRow, TaxesOfRow
<1> QED BY <1>1, <1>3, <1>7, Zenon DEF NumbersInv, PlanComplete

LEMMA PlanKeeps ==
    ASSUME NumbersInv, PlanReconcile
    PROVE  NumbersInv'
<1>1. PICK price \in ListingPrices \ {deal.price} :
        plan' = [terms |-> [deal.terms EXCEPT !.price = price], revenue |-> deal.revenue,
                 tax |-> deal.tax, loan |-> deal.loan, items |-> deal.items,
                 expenses |-> deal.expenses, price |-> None, oop |-> None]
  BY Zenon DEF PlanReconcile
<1>2. /\ deal # None /\ deal.terms # None /\ deal.revenue # None /\ deal.tax # None
      /\ deal' = deal /\ drift' = drift /\ taxDrift' = taxDrift
  BY Zenon DEF PlanReconcile
<1>3. RowKept(deal)
  BY <1>2, Zenon DEF NumbersInv
<1>4. deal.terms \in Terms /\ price \in Int
  BY <1>2, <1>3, NumbersAssumption, Zenon DEF RowKept, OrNone
<1>5. [deal.terms EXCEPT !.price = price] \in Terms
  BY <1>4, TermsAre
<1>6. PICK terms : terms = [deal.terms EXCEPT !.price = price]
  OBVIOUS
<1>7. plan' = [terms |-> terms, revenue |-> deal.revenue,
               tax |-> deal.tax, loan |-> deal.loan, items |-> deal.items,
               expenses |-> deal.expenses, price |-> None, oop |-> None]
  BY <1>1, <1>6, Zenon
<1>8. /\ plan'.terms = terms /\ plan'.revenue = deal.revenue /\ plan'.tax = deal.tax
      /\ plan'.items = deal.items /\ plan'.expenses = deal.expenses /\ plan'.oop = None
  BY <1>7
<1>9. deal.items # None /\ deal.expenses # None
  BY <1>3, Zenon DEF RowKept, Amounts
<1>10. PlanComplete'
  BY <1>2, <1>3, <1>5, <1>6, <1>8, <1>9, Zenon DEF PlanComplete
<1> QED BY <1>2, <1>10, Zenon DEF NumbersInv

\* The plan is of the inputs it read: where they are still those of the row, what it
\* writes follows them.
LEMMA ApplyKeeps ==
    ASSUME NumbersInv, ApplyReconcile
    PROVE  NumbersInv'
<1>1. plan # None /\ plan' = None
  BY Zenon DEF ApplyReconcile
<1>2. /\ RowKept(deal) /\ plan.terms \in Terms /\ plan.revenue # None /\ plan.tax # None
      /\ plan.items # None /\ plan.expenses # None
  BY <1>1, Zenon DEF NumbersInv, PlanComplete
<1>3. PlanComplete'
  BY <1>1, Zenon DEF PlanComplete
<1>4. CASE Refused(plan, plan.revenue, plan.loan)
  <2>1. deal' = deal /\ drift' = drift /\ taxDrift' = taxDrift
    BY <1>4, Zenon DEF ApplyReconcile
  <2> QED BY <1>3, <2>1, Zenon DEF NumbersInv
<1>5. CASE ~Refused(plan, plan.revenue, plan.loan)
  <2> DEFINE raced == \/ <<plan.items, plan.expenses>> # <<deal.items, deal.expenses>>
                      \/ plan.loan = None /\ deal.loan # None
  <2>1. /\ deal' = Calculated(deal, plan, plan.revenue, plan.loan, deal.items, deal.expenses)
        /\ drift' = IF raced THEN {"race"} ELSE {}
    BY <1>5, Zenon DEF ApplyReconcile
  <2>2. Amounts(deal.items) /\ Amounts(deal.expenses) /\ plan.terms \in OrNone(Terms)
    BY <1>2, Zenon DEF RowKept, OrNone
  <2>3. Leaves(deal, plan, plan.revenue, plan.loan, deal.items, deal.expenses, deal')
    BY <1>2, <2>1, <2>2, CalculatedRow
  <2>4. RowKept(deal')
    BY <2>3, Zenon DEF Leaves
  <2>5. ASSUME drift' = {}
        PROVE  FiguresOfRow(deal') /\ TaxesOfRow(deal')
    <3>1. ~raced
      <4> HIDE DEF raced
      <4> QED BY <2>1, <2>5
    <3>2. /\ plan.items = deal.items /\ plan.expenses = deal.expenses
          /\ plan.loan = None => deal.loan = None
      BY <3>1
    <3>3. plan.loan = OrKeep(plan.loan, deal.loan)
      BY <3>2, Zenon DEF OrKeep
    <3>4. deal.items = OrEmpty(plan.items) /\ deal.expenses = OrEmpty(plan.expenses)
      BY <1>2, <3>2, Zenon DEF OrEmpty
    <3> QED BY <1>2, <1>5, <2>1, <2>2, <3>3, <3>4, CalculationFollows
  <2> QED BY <1>3, <2>4, <2>5, Zenon DEF NumbersInv
<1> QED BY <1>4, <1>5

\* The figures of a deal, whatever the calculator computes: for any payloads, estimates
\* and listing prices, a row keeps its shape, a plan of the reconcile job is a complete
\* calculation, and figures and percentages are those of the stored inputs until a write
\* skips them. (save, update, reconcile_purchase_price)
THEOREM NumbersInvariant == NumbersSpec => []NumbersInv
<1>1. NumbersInit => NumbersInv
  BY NumbersInitInv
<1>2. NumbersInv /\ [NumbersNext]_numbersVars => NumbersInv'
  <2> SUFFICES ASSUME NumbersInv, [NumbersNext]_numbersVars PROVE NumbersInv'
    OBVIOUS
  <2>1. CASE \E p \in Payloads : CreateDeal(p) \/ PutDeal(p)
    BY <2>1, CreateKeeps, PutKeeps, Zenon
  <2>2. CASE FinishDeal
    BY <2>2, FinishKeeps
  <2>3. CASE PlanReconcile
    BY <2>3, PlanKeeps
  <2>4. CASE ApplyReconcile
    BY <2>4, ApplyKeeps
  <2>5. CASE UNCHANGED numbersVars
    BY <2>5, Zenon DEF numbersVars, NumbersInv, PlanComplete
  <2> QED BY <2>1, <2>2, <2>3, <2>4, <2>5, Zenon DEF NumbersNext
<1> QED BY <1>1, <1>2, PTL DEF NumbersSpec

\* Whatever the order of saves, updates, status changes and reconciliations that race
\* them, stored figures are those the calculator gives for the stored terms, items,
\* expenses and project loan, and stored tax savings and percentages those of the stored
\* taxes, until a write skips the calculation.
THEOREM FiguresAreOfTheInputs == NumbersSpec => [](FiguresAreOfTheRow /\ TaxesAreOfTheRow)
<1>1. NumbersInv => FiguresAreOfTheRow /\ TaxesAreOfTheRow
  BY Zenon DEF NumbersInv, FiguresAreOfTheRow, TaxesAreOfTheRow, FiguresOfRow, TaxesOfRow
<1> QED BY <1>1, NumbersInvariant, PTL

\* Beside them: a simulation that overrides nothing shows the stored figures and
\* percentages unchanged, though it reads the blobs and the summed children, and the
\* balance read after a year is what the level payments leave.
\* (SimulateUnderwritingsService, _pmt, _ending_balance)
THEOREM FiguresAreSafe == NumbersSpec /\ LoanSpec => []FiguresFollowInputs
<1>1. ASSUME NumbersInv, deal # None, drift = {}, deal.figures.scenarios # None \/ deal.y1 # None
      PROVE  Simulatable(deal) /\ Simulated(deal) = deal.figures
  <2>1. /\ deal.terms # None /\ deal.revenue # None
        /\ ~OopRaises(deal.terms, deal.items, deal.loan)
        /\ deal.figures = Figures(deal.revenue, deal.terms, deal.items, deal.expenses, deal.loan)
    BY <1>1, Zenon DEF NumbersInv, FiguresOfRow
  <2>2. deal.items \in Seq(Int) /\ deal.expenses \in Seq(Int)
    BY <1>1, Zenon DEF NumbersInv, RowKept, Amounts
  <2>3. Simulated(deal) = Figures(deal.revenue, deal.terms, deal.items, deal.expenses, deal.loan)
    BY <2>2, FiguresOfSums, Zenon DEF Simulated
  <2> QED BY <2>1, <2>3, Zenon DEF Simulatable
<1>2. NumbersInv => EconomicsFollowInputs
  BY <1>1, Zenon DEF EconomicsFollowInputs
<1>3. NumbersInv => TaxesFollowInputs
  <2> SUFFICES ASSUME NumbersInv, deal # None, drift = {}, taxDrift = {}, deal.y1 # None
               PROVE  SimulatedY1(deal) = deal.y1
    BY Zenon DEF TaxesFollowInputs
  <2>1. Simulated(deal) = deal.figures
    BY <1>1
  <2>2. deal.y1 = Y1Coc(deal.figures.scenarios, deal.savings, deal.figures.oop)
    BY Zenon DEF NumbersInv, TaxesOfRow
  <2> QED BY <2>1, <2>2, Zenon DEF SimulatedY1, Y1From
<1>4. NumbersInv => FiguresAreOfTheRow /\ TaxesAreOfTheRow
  BY Zenon DEF NumbersInv, FiguresAreOfTheRow, TaxesAreOfTheRow, FiguresOfRow, TaxesOfRow
<1>5. NumbersInv /\ BalanceIsWhatPaymentsLeave => FiguresFollowInputs
  BY <1>2, <1>3, <1>4 DEF FiguresFollowInputs
<1> QED BY <1>5, NumbersInvariant, LoansAreRepaid, PTL

-----------------------------------------------------------------------------
(***************************************************************************)
(* The lists of deals.  First, sorting a finite set.                       *)
(***************************************************************************)

\* A strict order of all members, as a set of pairs.
StrictOrder(S, R) ==
    /\ \A x \in S : <<x, x>> \notin R
    /\ \A x, y, z \in S : <<x, y>> \in R /\ <<y, z>> \in R => <<x, z>> \in R
    /\ \A x, y \in S : x # y => <<x, y>> \in R \/ <<y, x>> \in R

Ahead(S, R, x) == {y \in S : <<y, x>> \in R}

LEMMA AheadCounts ==
    ASSUME NEW S, NEW R, IsFiniteSet(S), StrictOrder(S, R)
    PROVE  /\ Cardinality(S) \in Nat
           /\ \A x \in S : Cardinality(Ahead(S, R, x)) + 1 \in 1 .. Cardinality(S)
<1>1. Cardinality(S) \in Nat
  BY FS_CardinalityType
<1>2. ASSUME NEW x \in S
      PROVE  Cardinality(Ahead(S, R, x)) + 1 \in 1 .. Cardinality(S)
  <2>1. Ahead(S, R, x) \in SUBSET S /\ Ahead(S, R, x) # S
    BY DEF Ahead, StrictOrder
  <2>2. IsFiniteSet(Ahead(S, R, x)) /\ Cardinality(Ahead(S, R, x)) <= Cardinality(S)
        /\ Cardinality(Ahead(S, R, x)) # Cardinality(S)
    BY <2>1, FS_Subset
  <2>3. Cardinality(Ahead(S, R, x)) \in Nat
    BY <2>2, FS_CardinalityType
  <2> QED BY <1>1, <2>2, <2>3
<1> QED BY <1>1, <1>2

LEMMA AheadRises ==
    ASSUME NEW S, NEW R, IsFiniteSet(S), StrictOrder(S, R),
           NEW x \in S, NEW y \in S, <<x, y>> \in R
    PROVE  Cardinality(Ahead(S, R, x)) < Cardinality(Ahead(S, R, y))
<1>1. /\ Ahead(S, R, x) \in SUBSET Ahead(S, R, y) /\ x \in Ahead(S, R, y)
      /\ x \notin Ahead(S, R, x)
  BY DEF Ahead, StrictOrder
<1>2. /\ Ahead(S, R, x) # Ahead(S, R, y)
      /\ Ahead(S, R, y) \in SUBSET S /\ Ahead(S, R, x) \in SUBSET S
  BY <1>1 DEF Ahead
<1>3. IsFiniteSet(Ahead(S, R, y)) /\ IsFiniteSet(Ahead(S, R, x))
  BY <1>2, FS_Subset
<1>4. Cardinality(Ahead(S, R, x)) <= Cardinality(Ahead(S, R, y))
      /\ Cardinality(Ahead(S, R, x)) # Cardinality(Ahead(S, R, y))
  BY <1>1, <1>2, <1>3, FS_Subset
<1>5. Cardinality(Ahead(S, R, x)) \in Nat /\ Cardinality(Ahead(S, R, y)) \in Nat
  BY <1>3, FS_CardinalityType
<1> QED BY <1>4, <1>5

\* Positions tell the members apart, and none is left out.
LEMMA AheadTells ==
    ASSUME NEW S, NEW R, IsFiniteSet(S), StrictOrder(S, R)
    PROVE  /\ \A x, y \in S : Cardinality(Ahead(S, R, x)) = Cardinality(Ahead(S, R, y)) => x = y
           /\ \A k \in 1 .. Cardinality(S) : \E x \in S : Cardinality(Ahead(S, R, x)) = k - 1
<1> DEFINE n == Cardinality(S)
           f == [x \in S |-> Cardinality(Ahead(S, R, x)) + 1]
<1>1. n \in Nat /\ \A x \in S : Cardinality(Ahead(S, R, x)) + 1 \in 1 .. n
  BY AheadCounts
<1>2. ASSUME NEW x \in S
      PROVE  Cardinality(Ahead(S, R, x)) \in Nat
  <2>1. Ahead(S, R, x) \in SUBSET S
    BY DEF Ahead
  <2> QED BY <2>1, FS_Subset, FS_CardinalityType
<1>3. ASSUME NEW x \in S, NEW y \in S,
             Cardinality(Ahead(S, R, x)) = Cardinality(Ahead(S, R, y))
      PROVE  x = y
  <2>1. <<x, y>> \notin R /\ <<y, x>> \notin R
    BY <1>2, <1>3, AheadRises
  <2> QED BY <2>1 DEF StrictOrder
<1>4. f \in [S -> 1 .. n]
  BY <1>1
<1>5. f \in Injection(S, 1 .. n)
  <2>1. \A x, y \in S : f[x] = f[y] => x = y
    BY <1>2, <1>3
  <2> HIDE DEF f
  <2> QED BY <1>4, <2>1 DEF Injection, IsInjective
<1>6. IsFiniteSet(1 .. n) /\ Cardinality(1 .. n) = n
  BY <1>1, FS_Interval
<1>7. f \in Surjection(S, 1 .. n)
  BY <1>5, <1>6, FS_Injection
<1>8. \A k \in 1 .. n : \E x \in S : f[x] = k
  <2> HIDE DEF f
  <2> QED BY <1>7 DEF Surjection
<1>9. ASSUME NEW k \in 1 .. n
      PROVE  \E x \in S : Cardinality(Ahead(S, R, x)) = k - 1
  <2>1. PICK x \in S : f[x] = k
    BY <1>8
  <2>2. Cardinality(Ahead(S, R, x)) + 1 = k
    BY <2>1
  <2>3. Cardinality(Ahead(S, R, x)) = k - 1
    BY <1>2, <2>2
  <2> QED BY <2>3
<1> QED BY <1>3, <1>9

\* The sorted list has every member once, in the order.
LEMMA SortedWell ==
    ASSUME NEW S, NEW R, IsFiniteSet(S), StrictOrder(S, R)
    PROVE  /\ Cardinality(S) \in Nat
           /\ Sorted(S, R) \in [1 .. Cardinality(S) -> S]
           /\ \A k \in 1 .. Cardinality(S) : Cardinality(Ahead(S, R, Sorted(S, R)[k])) = k - 1
           /\ \A x \in S : \E k \in 1 .. Cardinality(S) : Sorted(S, R)[k] = x
           /\ \A i, j \in 1 .. Cardinality(S) : i < j => <<Sorted(S, R)[i], Sorted(S, R)[j]>> \in R
           /\ \A i, j \in 1 .. Cardinality(S) : Sorted(S, R)[i] = Sorted(S, R)[j] => i = j
<1> DEFINE n == Cardinality(S)
           L == Sorted(S, R)
           c(x) == Cardinality(Ahead(S, R, x))
<1>1. n \in Nat /\ \A x \in S : c(x) + 1 \in 1 .. n
  BY AheadCounts
<1>2. /\ \A x, y \in S : c(x) = c(y) => x = y
      /\ \A k \in 1 .. n : \E x \in S : c(x) = k - 1
  BY AheadTells
<1>3. \A x, y \in S : <<x, y>> \in R => c(x) < c(y)
  BY AheadRises
<1>4. ASSUME NEW x \in S
      PROVE  c(x) \in Nat
  <2>1. Ahead(S, R, x) \in SUBSET S
    BY DEF Ahead
  <2> QED BY <2>1, FS_Subset, FS_CardinalityType
<1>5. L = [k \in 1 .. n |-> CHOOSE x \in S : c(x) = k - 1]
  BY Zenon DEF Sorted, Ahead
<1> HIDE DEF L, c
<1>6. \A k \in 1 .. n : L[k] \in S /\ c(L[k]) = k - 1
  BY <1>2, <1>5
<1>7. L \in [1 .. n -> S]
  BY <1>5, <1>6
<1>8. ASSUME NEW x \in S
      PROVE  \E k \in 1 .. n : L[k] = x
  <2>1. PICK k \in 1 .. n : k - 1 = c(x)
    <3>1. PICK v : v = c(x)
      OBVIOUS
    <3>2. v \in Nat /\ v + 1 \in 1 .. n
      BY <1>1, <1>4, <3>1
    <3>3. v + 1 - 1 = c(x)
      BY <3>1, <3>2
    <3> QED BY <3>2, <3>3
  <2>2. c(L[k]) = c(x) /\ L[k] \in S
    BY <1>6, <2>1
  <2> QED BY <1>2, <2>1, <2>2
<1>9. ASSUME NEW i \in 1 .. n, NEW j \in 1 .. n, i < j
      PROVE  <<L[i], L[j]>> \in R
  <2>1. L[i] \in S /\ L[j] \in S /\ c(L[i]) = i - 1 /\ c(L[j]) = j - 1
    BY <1>6
  <2>2. L[i] # L[j]
    BY <1>1, <1>9, <2>1
  <2>3. <<L[j], L[i]>> \notin R
    BY <1>1, <1>3, <1>9, <2>1
  <2> QED BY <2>1, <2>2, <2>3 DEF StrictOrder
<1>10. ASSUME NEW i \in 1 .. n, NEW j \in 1 .. n, L[i] = L[j]
       PROVE  i = j
  BY <1>1, <1>6, <1>10
<1> QED BY <1>1, <1>6, <1>7, <1>8, <1>9, <1>10 DEF L, c

\* There is no other such list.
LEMMA SortedUnique ==
    ASSUME NEW S, NEW R, IsFiniteSet(S), StrictOrder(S, R),
           NEW m \in Nat, NEW T \in [1 .. m -> S], \A x \in S : \E k \in 1 .. m : T[k] = x,
           \A i, j \in 1 .. m : i < j => <<T[i], T[j]>> \in R
    PROVE  m = Cardinality(S) /\ T = Sorted(S, R)
<1>1. \A i, j \in 1 .. m : T[i] = T[j] => i = j
  <2> SUFFICES ASSUME NEW i \in 1 .. m, NEW j \in 1 .. m, T[i] = T[j] PROVE i = j
    OBVIOUS
  <2>1. <<T[i], T[i]>> \notin R /\ T[i] \in S
    BY DEF StrictOrder
  <2>2. ~(i < j) /\ ~(j < i)
    BY <2>1
  <2> QED BY <2>2
<1>2. ASSUME NEW k \in 1 .. m + 1, NEW A, A = {T[i] : i \in 1 .. k - 1}
      PROVE  Cardinality(A) = k - 1
  <2> DEFINE f == [i \in 1 .. k - 1 |-> T[i]]
  <2>1. k - 1 \in Nat /\ \A i \in 1 .. k - 1 : i \in 1 .. m
    OBVIOUS
  <2>2. f \in [1 .. k - 1 -> A]
    BY <1>2
  <2>3. \A i, j \in 1 .. k - 1 : f[i] = f[j] => i = j
    BY <1>1, <2>1
  <2>4. \A x \in A : \E i \in 1 .. k - 1 : f[i] = x
    BY <1>2
  <2> HIDE DEF f
  <2>5. f \in Bijection(1 .. k - 1, A)
    BY <2>2, <2>3, <2>4 DEF Bijection, Injection, Surjection, IsInjective
  <2>6. IsFiniteSet(1 .. k - 1) /\ Cardinality(1 .. k - 1) = k - 1
    <3>1. PICK h \in Nat : h = k - 1
      BY <2>1
    <3>2. IsFiniteSet(1 .. h) /\ Cardinality(1 .. h) = h
      BY FS_Interval
    <3> QED BY <3>1, <3>2, Zenon
  <2> QED BY <2>5, <2>6, FS_Bijection DEF ExistsBijection
<1>3. m = Cardinality(S)
  <2>1. S = {T[i] : i \in 1 .. m}
    OBVIOUS
  <2>2. m + 1 - 1 = m /\ m + 1 \in 1 .. m + 1
    OBVIOUS
  <2>3. S = {T[i] : i \in 1 .. m + 1 - 1}
    BY <2>1, <2>2
  <2> QED BY <1>2, <2>2, <2>3
<1>4. ASSUME NEW k \in 1 .. m
      PROVE  T[k] = Sorted(S, R)[k]
  <2>1. Ahead(S, R, T[k]) = {T[i] : i \in 1 .. k - 1}
    <3>1. ASSUME NEW y \in S
          PROVE  <<y, T[k]>> \in R <=> \E i \in 1 .. k - 1 : y = T[i]
      <4>1. PICK i \in 1 .. m : T[i] = y
        OBVIOUS
      <4>2. i < k => <<y, T[k]>> \in R
        BY <4>1
      <4>3. i = k => <<y, T[k]>> \notin R
        BY <4>1 DEF StrictOrder
      <4>4. i > k => <<y, T[k]>> \notin R
        <5> SUFFICES ASSUME i > k, <<y, T[k]>> \in R PROVE FALSE
          OBVIOUS
        <5>1. <<T[k], y>> \in R /\ T[k] \in S
          BY <4>1
        <5>2. <<y, y>> \in R
          BY <5>1 DEF StrictOrder
        <5> QED BY <5>2 DEF StrictOrder
      <4>5. i < k <=> i \in 1 .. k - 1
        OBVIOUS
      <4>6. \A l \in 1 .. k - 1 : y = T[l] => l = i
        BY <1>1, <4>1
      <4> QED BY <4>1, <4>2, <4>3, <4>4, <4>5, <4>6
    <3>2. \A i \in 1 .. k - 1 : T[i] \in S
      OBVIOUS
    <3> QED BY <3>1, <3>2 DEF Ahead
  <2>2. Cardinality(Ahead(S, R, T[k])) = k - 1
    BY <1>2, <2>1
  <2>3. /\ Cardinality(Ahead(S, R, Sorted(S, R)[k])) = k - 1
        /\ Sorted(S, R)[k] \in S
    <3>1. k \in 1 .. Cardinality(S)
      BY <1>3, Zenon
    <3>2. /\ Sorted(S, R) \in [1 .. Cardinality(S) -> S]
          /\ \A h \in 1 .. Cardinality(S) : Cardinality(Ahead(S, R, Sorted(S, R)[h])) = h - 1
      BY SortedWell
    <3> QED BY <3>1, <3>2
  <2>4. T[k] \in S
    OBVIOUS
  <2> QED BY <2>2, <2>3, <2>4, AheadTells
<1>5. Sorted(S, R) \in [1 .. m -> S]
  BY <1>3, SortedWell
<1>6. T = Sorted(S, R)
  BY <1>4, <1>5
<1> QED BY <1>3, <1>6

-----------------------------------------------------------------------------
(***************************************************************************)
(* Two stable passes are one order: by key, and the newest first among     *)
(* equals, which is the ORDER BY of the plain list.                        *)
(***************************************************************************)

\* "Before" leaves ties, and a tie is a class.
WeakOrder(S, B) ==
    /\ \A x \in S : <<x, x>> \notin B
    /\ \A x, y, z \in S : <<x, y>> \in B /\ <<y, z>> \in B => <<x, z>> \in B
    /\ \A x, y, z \in S : <<x, y>> \notin B /\ <<y, z>> \notin B => <<x, z>> \notin B

LEMMA StablyOrders ==
    ASSUME NEW S, S \subseteq Nat, NEW B, WeakOrder(S, B)
    PROVE  StrictOrder(S, Stably(S, B))
<1>1. \A x, y \in S : <<x, y>> \in Stably(S, B) <=>
                        <<x, y>> \in B \/ (<<y, x>> \notin B /\ x < y)
  BY DEF Stably
<1>2. ASSUME NEW x \in S
      PROVE  <<x, x>> \notin Stably(S, B)
  <2>1. <<x, x>> \notin B /\ ~(x < x)
    BY DEF WeakOrder
  <2> QED BY <1>1, <2>1
<1>3. ASSUME NEW x \in S, NEW y \in S, NEW z \in S,
             <<x, y>> \in Stably(S, B), <<y, z>> \in Stably(S, B)
      PROVE  <<x, z>> \in Stably(S, B)
  <2>1. CASE <<x, y>> \in B
    BY <1>1, <1>3, <2>1 DEF WeakOrder
  <2>2. CASE <<y, z>> \in B
    BY <1>1, <1>3, <2>2 DEF WeakOrder
  <2>3. CASE <<x, y>> \notin B /\ <<y, z>> \notin B
    <3>1. /\ <<y, x>> \notin B /\ x < y
          /\ <<z, y>> \notin B /\ y < z
      BY <1>1, <1>3, <2>3
    <3>2. <<z, x>> \notin B
      BY <3>1 DEF WeakOrder
    <3>3. x \in Nat /\ y \in Nat /\ z \in Nat
      OBVIOUS
    <3>4. x < z
      BY <3>1, <3>3
    <3> QED BY <1>1, <3>2, <3>4
  <2> QED BY <2>1, <2>2, <2>3
<1>4. ASSUME NEW x \in S, NEW y \in S, x # y
      PROVE  <<x, y>> \in Stably(S, B) \/ <<y, x>> \in Stably(S, B)
  BY <1>1, <1>4
<1> QED BY <1>2, <1>3, <1>4 DEF StrictOrder

\* The rows of a list in the order o of their positions.
IsOrder(n, o) ==
    /\ o \in [1 .. n -> 1 .. n]
    /\ \A k \in 1 .. n : \E i \in 1 .. n : o[i] = k
    /\ \A i, j \in 1 .. n : o[i] = o[j] => i = j
Reordered(rows, n, o) == [k \in 1 .. n |-> rows[o[k]]]

\* An order of positions that respects "before" and, in a tie, the old positions.
Respects(n, o, B) ==
    \A i, j \in 1 .. n : i < j =>
        <<o[i], o[j]>> \in B \/ (<<o[j], o[i]>> \notin B /\ o[i] < o[j])

LEMMA StableSorted ==
    ASSUME NEW n \in Nat, NEW rows, DOMAIN rows = 1 .. n, NEW B, WeakOrder(1 .. n, B)
    PROVE  \E o : IsOrder(n, o) /\ Respects(n, o, B) /\ StableSort(rows, B) = Reordered(rows, n, o)
<1> DEFINE o == Sorted(1 .. n, Stably(1 .. n, B))
<1>1. IsFiniteSet(1 .. n) /\ Cardinality(1 .. n) = n
  BY FS_Interval
<1>2. StrictOrder(1 .. n, Stably(1 .. n, B))
  BY StablyOrders
<1>3. /\ o \in [1 .. n -> 1 .. n]
      /\ \A x \in 1 .. n : \E k \in 1 .. n : o[k] = x
      /\ \A i, j \in 1 .. n : i < j => <<o[i], o[j]>> \in Stably(1 .. n, B)
      /\ \A i, j \in 1 .. n : o[i] = o[j] => i = j
  <2> HIDE DEF o
  <2>1. PICK m \in Nat : m = n
    OBVIOUS
  <2>2. /\ o \in [1 .. Cardinality(1 .. n) -> 1 .. n]
        /\ \A x \in 1 .. n : \E k \in 1 .. Cardinality(1 .. n) : o[k] = x
        /\ \A i, j \in 1 .. Cardinality(1 .. n) : i < j => <<o[i], o[j]>> \in Stably(1 .. n, B)
        /\ \A i, j \in 1 .. Cardinality(1 .. n) : o[i] = o[j] => i = j
    BY <1>1, <1>2, SortedWell DEF o
  <2> QED BY <1>1, <2>2
<1>4. StableSort(rows, B) = [k \in 1 .. n |-> rows[o[k]]]
  BY Zenon DEF StableSort
<1> HIDE DEF o
<1>5. \A i, j \in 1 .. n : i < j =>
        <<o[i], o[j]>> \in B \/ (<<o[j], o[i]>> \notin B /\ o[i] < o[j])
  <2> SUFFICES ASSUME NEW i \in 1 .. n, NEW j \in 1 .. n, i < j
               PROVE  <<o[i], o[j]>> \in B \/ (<<o[j], o[i]>> \notin B /\ o[i] < o[j])
    OBVIOUS
  <2>1. <<o[i], o[j]>> \in Stably(1 .. n, B)
    BY <1>3
  <2> QED BY <2>1 DEF Stably
<1> QED BY <1>3, <1>4, <1>5 DEF IsOrder, Respects, Reordered

\* Rows that can be sorted: no id twice, and numbers or None to sort by.
Sortable(rows, n, q) ==
    /\ DOMAIN rows = 1 .. n
    /\ \A i \in 1 .. n : rows[i].id \in Nat /\ NumberOrNone(SortValue(rows[i].id, rows[i], q))
    /\ \A i, j \in 1 .. n : rows[i].id = rows[j].id => i = j

LEMMA NewestFirstSorts ==
    ASSUME NEW n \in Nat, NEW q, NEW rows, Sortable(rows, n, q)
    PROVE  \E o : /\ IsOrder(n, o) /\ NewestFirst(rows) = Reordered(rows, n, o)
                  /\ \A i, j \in 1 .. n : i < j => rows[o[i]].id > rows[o[j]].id
<1> DEFINE B == {p \in Positions(rows) : rows[p[1]].id > rows[p[2]].id}
<1>1. DOMAIN rows = 1 .. n /\ \A i \in 1 .. n : rows[i].id \in Nat
  BY DEF Sortable
<1>2. \A i, j \in 1 .. n : <<i, j>> \in B <=> rows[i].id > rows[j].id
  BY <1>1 DEF Positions
<1>3. NewestFirst(rows) = StableSort(rows, B)
  BY Zenon DEF NewestFirst
<1> HIDE DEF B
<1>4. WeakOrder(1 .. n, B)
  BY <1>1, <1>2, SMTT(30) DEF WeakOrder
<1>5. PICK o : IsOrder(n, o) /\ Respects(n, o, B) /\ StableSort(rows, B) = Reordered(rows, n, o)
  BY <1>1, <1>4, StableSorted
<1>6. \A i, j \in 1 .. n : i < j => rows[o[i]].id > rows[o[j]].id
  <2> SUFFICES ASSUME NEW i \in 1 .. n, NEW j \in 1 .. n, i < j
               PROVE  rows[o[i]].id > rows[o[j]].id
    OBVIOUS
  <2>1. PICK a, b : a = o[i] /\ b = o[j]
    OBVIOUS
  <2>2. a \in 1 .. n /\ b \in 1 .. n /\ a # b
    BY <1>5, <2>1 DEF IsOrder
  <2>3. rows[a].id # rows[b].id
    BY <2>2 DEF Sortable
  <2>4. <<a, b>> \in B \/ <<b, a>> \notin B
    BY <1>5, <2>1 DEF Respects
  <2>5. rows[a].id \in Nat /\ rows[b].id \in Nat
    BY <1>1, <2>2
  <2>6. rows[a].id > rows[b].id
    BY <1>2, <2>2, <2>3, <2>4, <2>5
  <2> QED BY <2>1, <2>6
<1> QED BY <1>3, <1>5, <1>6

LEMMA KeyFirstIs ==
    ASSUME NEW q, q.descending \in BOOLEAN, NEW r, NEW s,
           NEW v, v = SortValue(r.id, r, q), NumberOrNone(v),
           NEW w, w = SortValue(s.id, s, q), NumberOrNone(w)
    PROVE  KeyFirst(r, s, q) <=>
             \/ v # None /\ w = None
             \/ v # None /\ w # None /\ (IF q.descending THEN w < v ELSE v < w)
<1>1. /\ SortKey(r, q) = IF v = None THEN <<IF q.descending THEN 0 ELSE 1, 0>>
                                     ELSE <<IF q.descending THEN 1 ELSE 0, v>>
      /\ SortKey(s, q) = IF w = None THEN <<IF q.descending THEN 0 ELSE 1, 0>>
                                     ELSE <<IF q.descending THEN 1 ELSE 0, w>>
  BY Zenon DEF SortKey
<1>2. PICK k, l : k = SortKey(r, q) /\ l = SortKey(s, q)
  OBVIOUS
<1>3. KeyFirst(r, s, q) = IF q.descending THEN KeyBelow(l, k) ELSE KeyBelow(k, l)
  BY <1>2, Zenon DEF KeyFirst
<1>4. (v = None \/ v \in Int) /\ (w = None \/ w \in Int)
  BY DEF NumberOrNone
<1>5. CASE q.descending
  <2>1. /\ k = IF v = None THEN <<0, 0>> ELSE <<1, v>>
        /\ l = IF w = None THEN <<0, 0>> ELSE <<1, w>>
    BY <1>1, <1>2, <1>5, Zenon
  <2>2. KeyBelow(l, k) <=> \/ v # None /\ w = None
                           \/ v # None /\ w # None /\ w < v
    BY <1>4, <2>1 DEF KeyBelow
  <2> QED BY <1>3, <1>5, <2>2, Zenon
<1>6. CASE ~q.descending
  <2>1. /\ k = IF v = None THEN <<1, 0>> ELSE <<0, v>>
        /\ l = IF w = None THEN <<1, 0>> ELSE <<0, w>>
    BY <1>1, <1>2, <1>6, Zenon
  <2>2. KeyBelow(k, l) <=> \/ v # None /\ w = None
                           \/ v # None /\ w # None /\ v < w
    BY <1>4, <2>1 DEF KeyBelow
  <2> QED BY <1>3, <1>6, <2>2, Zenon
<1> QED BY <1>5, <1>6

\* The order of the two passes.
RowFirst(r, s, q) == KeyFirst(r, s, q) \/ (~KeyFirst(s, r, q) /\ r.id > s.id)

LEMMA MovedSortable ==
    ASSUME NEW n \in Nat, NEW q, NEW rows, Sortable(rows, n, q), NEW o, IsOrder(n, o)
    PROVE  Sortable(Reordered(rows, n, o), n, q)
<1> DEFINE out == Reordered(rows, n, o)
<1>1. DOMAIN out = 1 .. n /\ \A k \in 1 .. n : out[k] = rows[o[k]] /\ o[k] \in 1 .. n
  BY DEF Reordered, IsOrder
<1> HIDE DEF out
<1>2. ASSUME NEW i \in 1 .. n
      PROVE  out[i].id \in Nat /\ NumberOrNone(SortValue(out[i].id, out[i], q))
  <2>1. PICK a \in 1 .. n : out[i] = rows[a]
    BY <1>1
  <2>2. rows[a].id \in Nat /\ NumberOrNone(SortValue(rows[a].id, rows[a], q))
    BY DEF Sortable
  <2> QED BY <2>1, <2>2, Zenon
<1>3. ASSUME NEW i \in 1 .. n, NEW j \in 1 .. n, out[i].id = out[j].id
      PROVE  i = j
  <2>1. rows[o[i]].id = rows[o[j]].id /\ o[i] \in 1 .. n /\ o[j] \in 1 .. n
    BY <1>1, <1>3
  <2>2. o[i] = o[j]
    BY <2>1 DEF Sortable
  <2> QED BY <2>2 DEF IsOrder
<1> QED BY <1>1, <1>2, <1>3 DEF Sortable, out

LEMMA OrdersCompose ==
    ASSUME NEW n \in Nat, NEW rows, NEW o, IsOrder(n, o), NEW p, IsOrder(n, p)
    PROVE  \E c : IsOrder(n, c) /\ Reordered(Reordered(rows, n, o), n, p) = Reordered(rows, n, c)
<1> DEFINE c == [k \in 1 .. n |-> o[p[k]]]
<1>1. /\ o \in [1 .. n -> 1 .. n] /\ p \in [1 .. n -> 1 .. n]
      /\ \A k \in 1 .. n : \E i \in 1 .. n : o[i] = k
      /\ \A k \in 1 .. n : \E i \in 1 .. n : p[i] = k
      /\ \A i, j \in 1 .. n : o[i] = o[j] => i = j
      /\ \A i, j \in 1 .. n : p[i] = p[j] => i = j
  BY DEF IsOrder
<1>2. c \in [1 .. n -> 1 .. n]
  BY <1>1
<1>3. ASSUME NEW k \in 1 .. n
      PROVE  \E i \in 1 .. n : c[i] = k
  <2>1. PICK j \in 1 .. n : o[j] = k
    BY <1>1
  <2>2. PICK i \in 1 .. n : p[i] = j
    BY <1>1
  <2> QED BY <2>1, <2>2
<1>4. \A i, j \in 1 .. n : c[i] = c[j] => i = j
  BY <1>1
<1>5. Reordered(Reordered(rows, n, o), n, p) = Reordered(rows, n, c)
  BY <1>1 DEF Reordered
<1> QED BY <1>2, <1>3, <1>4, <1>5 DEF IsOrder

LEMMA ByKeySorts ==
    ASSUME NEW n \in Nat, NEW q, q.descending \in BOOLEAN, NEW rows, Sortable(rows, n, q),
           \A i, j \in 1 .. n : i < j => rows[i].id > rows[j].id
    PROVE  \E o : /\ IsOrder(n, o) /\ ByKey(rows, q) = Reordered(rows, n, o)
                  /\ \A i, j \in 1 .. n : i < j => RowFirst(rows[o[i]], rows[o[j]], q)
<1> DEFINE B == {p \in Positions(rows) : KeyFirst(rows[p[1]], rows[p[2]], q)}
           v(i) == SortValue(rows[i].id, rows[i], q)
<1>1. DOMAIN rows = 1 .. n
  BY DEF Sortable
<1>2. \A i, j \in 1 .. n : <<i, j>> \in B <=> KeyFirst(rows[i], rows[j], q)
  BY <1>1 DEF Positions
<1>3. ByKey(rows, q) = StableSort(rows, B)
  BY Zenon DEF ByKey
<1>4. \A i \in 1 .. n : NumberOrNone(v(i))
  BY DEF Sortable
<1>5. ASSUME NEW i \in 1 .. n, NEW j \in 1 .. n
      PROVE  KeyFirst(rows[i], rows[j], q) <=>
               \/ v(i) # None /\ v(j) = None
               \/ v(i) # None /\ v(j) # None /\ (IF q.descending THEN v(j) < v(i) ELSE v(i) < v(j))
  BY <1>4, KeyFirstIs
<1> HIDE DEF B, v
<1>6. \A i \in 1 .. n : v(i) = None \/ v(i) \in Int
  BY <1>4 DEF NumberOrNone
<1>7. WeakOrder(1 .. n, B)
  <2>1. \A i \in 1 .. n : <<i, i>> \notin B
    BY <1>2, <1>5, <1>6
  <2>2. ASSUME NEW i \in 1 .. n, NEW j \in 1 .. n, NEW k \in 1 .. n,
               <<i, j>> \in B, <<j, k>> \in B
        PROVE  <<i, k>> \in B
    <3>1. KeyFirst(rows[i], rows[j], q) /\ KeyFirst(rows[j], rows[k], q)
      BY <1>2, <2>2
    <3>2. KeyFirst(rows[i], rows[k], q)
      BY <1>5, <1>6, <3>1
    <3> QED BY <1>2, <3>2
  <2>3. ASSUME NEW i \in 1 .. n, NEW j \in 1 .. n, NEW k \in 1 .. n,
               <<i, j>> \notin B, <<j, k>> \notin B
        PROVE  <<i, k>> \notin B
    <3>1. ~KeyFirst(rows[i], rows[j], q) /\ ~KeyFirst(rows[j], rows[k], q)
      BY <1>2, <2>3
    <3>2. ~KeyFirst(rows[i], rows[k], q)
      BY <1>5, <1>6, <3>1
    <3> QED BY <1>2, <3>2
  <2> QED BY <2>1, <2>2, <2>3 DEF WeakOrder
<1>8. PICK o : IsOrder(n, o) /\ Respects(n, o, B) /\ StableSort(rows, B) = Reordered(rows, n, o)
  BY <1>1, <1>7, StableSorted
<1>9. ASSUME NEW i \in 1 .. n, NEW j \in 1 .. n, i < j
      PROVE  RowFirst(rows[o[i]], rows[o[j]], q)
  <2>1. PICK a, b : a = o[i] /\ b = o[j]
    OBVIOUS
  <2>2. a \in 1 .. n /\ b \in 1 .. n
    BY <1>8, <2>1 DEF IsOrder
  <2>3. <<a, b>> \in B \/ (<<b, a>> \notin B /\ a < b)
    BY <1>8, <1>9, <2>1 DEF Respects
  <2>4. KeyFirst(rows[a], rows[b], q) \/ (~KeyFirst(rows[b], rows[a], q) /\ rows[a].id > rows[b].id)
    BY <1>2, <2>2, <2>3
  <2> QED BY <2>1, <2>4, Zenon DEF RowFirst
<1> QED BY <1>3, <1>8, <1>9

LEMMA SortRowsSorts ==
    ASSUME NEW n \in Nat, NEW q, q.descending \in BOOLEAN, NEW rows, Sortable(rows, n, q)
    PROVE  \E o : /\ IsOrder(n, o) /\ SortRows(rows, q) = Reordered(rows, n, o)
                  /\ \A i, j \in 1 .. n : i < j => RowFirst(rows[o[i]], rows[o[j]], q)
<1>1. PICK o : /\ IsOrder(n, o) /\ NewestFirst(rows) = Reordered(rows, n, o)
               /\ \A i, j \in 1 .. n : i < j => rows[o[i]].id > rows[o[j]].id
  BY NewestFirstSorts
<1>2. PICK first : first = Reordered(rows, n, o)
  OBVIOUS
<1>3. Sortable(first, n, q)
  BY <1>1, <1>2, MovedSortable
<1>4. \A i \in 1 .. n : first[i] = rows[o[i]]
  BY <1>2 DEF Reordered
<1>5. \A i, j \in 1 .. n : i < j => first[i].id > first[j].id
  BY <1>1, <1>4
<1>6. PICK p : /\ IsOrder(n, p) /\ ByKey(first, q) = Reordered(first, n, p)
               /\ \A i, j \in 1 .. n : i < j => RowFirst(first[p[i]], first[p[j]], q)
  BY <1>3, <1>5, ByKeySorts
<1>7. PICK c : IsOrder(n, c) /\ Reordered(first, n, p) = Reordered(rows, n, c)
  BY <1>1, <1>2, <1>6, OrdersCompose
<1>8. ASSUME NEW i \in 1 .. n
      PROVE  rows[c[i]] = first[p[i]]
  <2>1. Reordered(first, n, p)[i] = first[p[i]] /\ Reordered(rows, n, c)[i] = rows[c[i]]
    BY DEF Reordered
  <2> QED BY <1>7, <2>1
<1>9. \A i, j \in 1 .. n : i < j => RowFirst(rows[c[i]], rows[c[j]], q)
  BY <1>6, <1>8, Zenon
<1>10. SortRows(rows, q) = Reordered(rows, n, c)
  BY <1>1, <1>2, <1>6, <1>7, Zenon DEF SortRows
<1> QED BY <1>7, <1>9, <1>10

\* For rows that hold what is stored, the order of the two passes is the ORDER BY.
LEMMA RowFirstIsPrecedes ==
    ASSUME NEW q, q.descending \in BOOLEAN, NEW rows, NEW r, NEW s,
           SortValue(r.id, r, q) = SortValue(r.id, rows[r.id], q),
           SortValue(s.id, s, q) = SortValue(s.id, rows[s.id], q),
           NumberOrNone(SortValue(r.id, r, q)), NumberOrNone(SortValue(s.id, s, q)),
           RowFirst(r, s, q)
    PROVE  Precedes(r.id, s.id, rows, q)
<1> DEFINE v == SortValue(r.id, r, q)
           w == SortValue(s.id, s, q)
<1>1. KeyFirst(r, s, q) <=>
        \/ v # None /\ w = None
        \/ v # None /\ w # None /\ (IF q.descending THEN w < v ELSE v < w)
  BY KeyFirstIs
<1>2. KeyFirst(s, r, q) <=>
        \/ w # None /\ v = None
        \/ w # None /\ v # None /\ (IF q.descending THEN v < w ELSE w < v)
  BY KeyFirstIs
<1>3. Precedes(r.id, s.id, rows, q) <=>
        IF v = w THEN r.id > s.id
        ELSE IF None \in {v, w} THEN w = None
        ELSE IF q.descending THEN v > w ELSE v < w
  BY Zenon DEF Precedes
<1>4. (v = None \/ v \in Int) /\ (w = None \/ w \in Int)
  BY DEF NumberOrNone
<1>5. KeyFirst(r, s, q) \/ (~KeyFirst(s, r, q) /\ r.id > s.id)
  BY DEF RowFirst
<1> HIDE DEF v, w
<1> QED BY <1>1, <1>2, <1>3, <1>4, <1>5

LEMMA PrecedesOrders ==
    ASSUME NEW S, S \subseteq Nat, NEW rows, NEW q, q.descending \in BOOLEAN,
           \A id \in S : NumberOrNone(SortValue(id, rows[id], q))
    PROVE  StrictOrder(S, {p \in S \X S : Precedes(p[1], p[2], rows, q)})
<1> DEFINE R == {p \in S \X S : Precedes(p[1], p[2], rows, q)}
           v(x) == SortValue(x, rows[x], q)
<1>1. \A x, y \in S : <<x, y>> \in R <=> Precedes(x, y, rows, q)
  OBVIOUS
<1>2. ASSUME NEW x \in S, NEW y \in S
      PROVE  <<x, y>> \in R <=>
               IF v(x) = v(y) THEN x > y
               ELSE IF None \in {v(x), v(y)} THEN v(y) = None
               ELSE IF q.descending THEN v(x) > v(y) ELSE v(x) < v(y)
  <2>1. Precedes(x, y, rows, q) <=>
          IF v(x) = v(y) THEN x > y
          ELSE IF None \in {v(x), v(y)} THEN v(y) = None
          ELSE IF q.descending THEN v(x) > v(y) ELSE v(x) < v(y)
    BY Zenon DEF Precedes
  <2> HIDE DEF v, R
  <2> QED BY <1>1, <2>1
<1>3. \A x \in S : (v(x) = None \/ v(x) \in Int) /\ x \in Nat
  BY DEF NumberOrNone
<1> HIDE DEF v, R
<1>4. \A x \in S : <<x, x>> \notin R
  BY <1>2, <1>3
<1>5. ASSUME NEW x \in S, NEW y \in S, NEW z \in S, <<x, y>> \in R, <<y, z>> \in R
      PROVE  <<x, z>> \in R
  <2>1. /\ IF v(x) = v(y) THEN x > y
           ELSE IF None \in {v(x), v(y)} THEN v(y) = None
           ELSE IF q.descending THEN v(x) > v(y) ELSE v(x) < v(y)
        /\ IF v(y) = v(z) THEN y > z
           ELSE IF None \in {v(y), v(z)} THEN v(z) = None
           ELSE IF q.descending THEN v(y) > v(z) ELSE v(y) < v(z)
    BY <1>2, <1>5
  <2>2. IF v(x) = v(z) THEN x > z
        ELSE IF None \in {v(x), v(z)} THEN v(z) = None
        ELSE IF q.descending THEN v(x) > v(z) ELSE v(x) < v(z)
    BY <1>3, <2>1
  <2> QED BY <1>2, <2>2
<1>6. ASSUME NEW x \in S, NEW y \in S, x # y
      PROVE  <<x, y>> \in R \/ <<y, x>> \in R
  BY <1>2, <1>3, <1>6
<1> QED BY <1>4, <1>5, <1>6 DEF StrictOrder, R

-----------------------------------------------------------------------------
(***************************************************************************)
(* The rows a walk goes through: the matching ids in the order of the      *)
(* sort, or the candidates of the simulation.                              *)
(***************************************************************************)
TypedBook(b) ==
    /\ IsFiniteSet(DOMAIN b)
    /\ \A id \in DOMAIN b : id \in Nat /\ IsDeal(b[id])

\* A list of all members of a set, each once.
Lists(l, n, S) ==
    /\ n \in Nat /\ l \in [1 .. n -> S]
    /\ \A x \in S : \E k \in 1 .. n : l[k] = x
    /\ \A i, j \in 1 .. n : l[i] = l[j] => i = j

LEMMA BooksAreTyped == \A b \in Books : TypedBook(b)
<1> SUFFICES ASSUME NEW b \in Books PROVE TypedBook(b)
  OBVIOUS
<1>1. IsFiniteSet(DOMAIN b) /\ \A id \in DOMAIN b : id \in Nat /\ IsDeal(b[id])
  BY ListAssumption
<1> QED BY <1>1, Zenon DEF TypedBook

LEMMA SetToSeqLists ==
    ASSUME NEW S, IsFiniteSet(S)
    PROVE  Lists(SetToSeq(S), Cardinality(S), S)
<1> DEFINE n == Cardinality(S)
<1>1. n \in Nat
  BY FS_CardinalityType
<1>2. PICK m \in Nat : ExistsBijection(1 .. m, S)
  BY FS_NatBijection
<1>3. m = n
  BY <1>2, FS_CountingElements
<1>4. PICK f : f \in Bijection(1 .. m, S)
  BY <1>2 DEF ExistsBijection
<1>5. f \in [1 .. n -> S] /\ IsInjective(f)
  <2> HIDE DEF n
  <2> QED BY <1>3, <1>4 DEF Bijection, Injection
<1>6. PICK s : s = SetToSeq(S)
  OBVIOUS
<1>7. s = CHOOSE g \in [1 .. n -> S] : IsInjective(g)
  BY <1>6, Zenon DEF SetToSeq
<1> HIDE DEF n
<1>8. s \in [1 .. n -> S] /\ IsInjective(s)
  BY <1>5, <1>7
<1>9. IsFiniteSet(1 .. n) /\ Cardinality(1 .. n) = n
  BY <1>1, FS_Interval
<1>10. s \in Injection(1 .. n, S)
  BY <1>8 DEF Injection
<1>11. s \in Surjection(1 .. n, S)
  BY <1>9, <1>10, FS_Injection DEF n
<1>12. \A x \in S : \E k \in 1 .. n : s[k] = x
  BY <1>11 DEF Surjection
<1>13. \A i, j \in 1 .. n : s[i] = s[j] => i = j
  BY <1>8 DEF IsInjective
<1> QED BY <1>1, <1>6, <1>8, <1>12, <1>13 DEF Lists, n

\* What a deal is sorted by, and a recalculated row.
LEMMA SortValueTyped ==
    ASSUME NEW q \in Queries, NEW id \in Nat, NEW held, IsDeal(held)
    PROVE  NumberOrNone(SortValue(id, held, q))
<1>1. q.sort \in {"id", "oop", "created"}
  BY ListAssumption
<1>2. NumberOrNone(held["oop"]) /\ NumberOrNone(held["created"])
  BY DEF IsDeal, MayHold
<1>3. NumberOrNone(id)
  BY DEF NumberOrNone
<1>4. SortValue(id, held, q) = IF q.sort = "id" THEN id ELSE held[q.sort]
  BY DEF SortValue
<1> QED BY <1>1, <1>2, <1>3, <1>4

LEMMA RecalculatedTyped ==
    ASSUME NEW q \in Queries, q.rate # None, NEW id \in Nat, NEW held, IsDeal(held),
           NEW row, row = Recalculate(id, held, q)
    PROVE  /\ row.id = id /\ row.simulated \in BOOLEAN /\ row.simulated = held.inputs
           /\ row.created = held.created
           /\ row.oop = IF held.inputs THEN held.recalc[q.rate] ELSE held.oop
           /\ NumberOrNone(SortValue(id, row, q))
<1>1. q.sort \in {"id", "oop", "created"} /\ q.rate \in Rates
  BY ListAssumption
<1>2. /\ NumberOrNone(held["oop"]) /\ NumberOrNone(held["created"])
      /\ held.inputs \in BOOLEAN /\ NumberOrNone(held.recalc[q.rate])
  BY <1>1 DEF IsDeal, MayHold
<1>3. PICK figure : figure = IF held.inputs THEN held.recalc[q.rate] ELSE held.oop
  OBVIOUS
<1>4. row = [id |-> id, simulated |-> held.inputs, created |-> held.created, oop |-> figure]
  BY <1>3, Zenon DEF Recalculate
<1>5. /\ row.id = id /\ row.simulated = held.inputs
      /\ row["created"] = held.created /\ row["oop"] = figure
  BY <1>4
<1>6. NumberOrNone(figure)
  BY <1>2, <1>3
<1>7. NumberOrNone(id)
  BY DEF NumberOrNone
<1>8. SortValue(id, row, q) = IF q.sort = "id" THEN id ELSE row[q.sort]
  BY DEF SortValue
<1>9. NumberOrNone(row["created"]) /\ NumberOrNone(row["oop"])
  BY <1>2, <1>5, <1>6
<1>10. NumberOrNone(SortValue(id, row, q))
  BY <1>1, <1>7, <1>8, <1>9
<1> QED BY <1>2, <1>3, <1>5, <1>10

LEMMA MatchingLists ==
    ASSUME NEW b, TypedBook(b), NEW q \in Queries, NEW S, S \subseteq DOMAIN b
    PROVE  /\ IsFiniteSet(S) /\ StrictOrder(S, {p \in S \X S : Precedes(p[1], p[2], b, q)})
           /\ Lists(Ordered(S, b, q), Cardinality(S), S)
           /\ \A i, j \in 1 .. Cardinality(S) :
                 i < j => Precedes(Ordered(S, b, q)[i], Ordered(S, b, q)[j], b, q)
<1> DEFINE R == {p \in S \X S : Precedes(p[1], p[2], b, q)}
           L == Ordered(S, b, q)
           n == Cardinality(S)
<1>1. IsFiniteSet(S)
  BY FS_Subset DEF TypedBook
<1>2. S \subseteq Nat /\ \A id \in S : NumberOrNone(SortValue(id, b[id], q))
  BY SortValueTyped DEF TypedBook
<1>3. q.descending \in BOOLEAN
  BY ListAssumption
<1>4. StrictOrder(S, R)
  BY <1>2, <1>3, PrecedesOrders
<1>5. L = Sorted(S, R)
  BY Zenon DEF Ordered
<1>6. \A x, y \in S : <<x, y>> \in R => Precedes(x, y, b, q)
  OBVIOUS
<1> HIDE DEF R, L
<1>7. /\ n \in Nat
      /\ L \in [1 .. n -> S]
      /\ \A x \in S : \E k \in 1 .. n : L[k] = x
      /\ \A i, j \in 1 .. n : i < j => <<L[i], L[j]>> \in R
      /\ \A i, j \in 1 .. n : L[i] = L[j] => i = j
  BY <1>1, <1>4, <1>5, SortedWell, SMTT(30)
<1> HIDE DEF n
<1>8. \A i, j \in 1 .. n : i < j => Precedes(L[i], L[j], b, q)
  BY <1>6, <1>7
<1> QED BY <1>1, <1>4, <1>7, <1>8 DEF Lists, n, L, R

\* The candidates of a simulation: every one of them once, in the order of the passes.
LEMMA CandidatesList ==
    ASSUME NEW b, TypedBook(b), NEW q \in Queries, q.rate # None
    PROVE  \E n, l : /\ Lists(l, n, CandidateIds(b, q))
                     /\ Candidates(b, q) = [k \in 1 .. n |-> Recalculate(l[k], b[l[k]], q)]
                     /\ \A i, j \in 1 .. n : i < j =>
                           RowFirst(Recalculate(l[i], b[l[i]], q), Recalculate(l[j], b[l[j]], q), q)
<1> DEFINE S == CandidateIds(b, q)
           ids == SetToSeq(S)
           n == Cardinality(S)
           rows == [k \in 1 .. n |-> Recalculate(ids[k], b[ids[k]], q)]
<1>1. S \subseteq DOMAIN b
  BY DEF CandidateIds, SimulationInputs
<1>2. IsFiniteSet(S)
  BY <1>1, FS_Subset DEF TypedBook
<1>3. Lists(ids, n, S)
  BY <1>2, SetToSeqLists
<1>4. DOMAIN ids = 1 .. n
  BY <1>3 DEF Lists
<1>5. Candidates(b, q) = SortRows(rows, q)
  BY <1>4, Zenon DEF Candidates
<1>6. q.descending \in BOOLEAN
  BY ListAssumption
<1> HIDE DEF S, ids, n
<1>7. /\ n \in Nat /\ ids \in [1 .. n -> S]
      /\ \A x \in S : \E k \in 1 .. n : ids[k] = x
      /\ \A i, j \in 1 .. n : ids[i] = ids[j] => i = j
  BY <1>3 DEF Lists
<1>8. DOMAIN rows = 1 .. n /\ \A k \in 1 .. n : rows[k] = Recalculate(ids[k], b[ids[k]], q)
  OBVIOUS
<1> HIDE DEF rows
<1>9. ASSUME NEW k \in 1 .. n
      PROVE  /\ rows[k].id = ids[k] /\ rows[k].id \in Nat
             /\ NumberOrNone(SortValue(rows[k].id, rows[k], q))
  <2>1. PICK id : id = ids[k]
    OBVIOUS
  <2>2. id \in S
    BY <1>7, <2>1
  <2>3. id \in Nat /\ IsDeal(b[id])
    BY <1>1, <2>2 DEF TypedBook
  <2>4. rows[k] = Recalculate(id, b[id], q)
    BY <1>8, <2>1, Zenon
  <2>5. rows[k].id = id /\ NumberOrNone(SortValue(id, rows[k], q))
    BY <2>3, <2>4, RecalculatedTyped
  <2> QED BY <2>1, <2>3, <2>5, Zenon
<1>10. Sortable(rows, n, q)
  <2>1. \A i, j \in 1 .. n : rows[i].id = rows[j].id => i = j
    BY <1>7, <1>9
  <2>2. \A k \in 1 .. n : rows[k].id \in Nat /\ NumberOrNone(SortValue(rows[k].id, rows[k], q))
    BY <1>9, Zenon
  <2> QED BY <1>8, <2>1, <2>2, Zenon DEF Sortable
<1>11. PICK o : /\ IsOrder(n, o) /\ SortRows(rows, q) = Reordered(rows, n, o)
                /\ \A i, j \in 1 .. n : i < j => RowFirst(rows[o[i]], rows[o[j]], q)
  BY <1>6, <1>7, <1>10, SortRowsSorts
<1>12. PICK l : l = [k \in 1 .. n |-> ids[o[k]]]
  OBVIOUS
<1>13. /\ o \in [1 .. n -> 1 .. n]
       /\ \A k \in 1 .. n : \E i \in 1 .. n : o[i] = k
       /\ \A i, j \in 1 .. n : o[i] = o[j] => i = j
  BY <1>11 DEF IsOrder
<1>14. l \in [1 .. n -> S]
  BY <1>7, <1>12, <1>13
<1>15. ASSUME NEW x \in S
       PROVE  \E k \in 1 .. n : l[k] = x
  <2>1. PICK h \in 1 .. n : ids[h] = x
    BY <1>7
  <2>2. PICK k \in 1 .. n : o[k] = h
    BY <1>13
  <2> QED BY <1>12, <2>1, <2>2
<1>16. \A i, j \in 1 .. n : l[i] = l[j] => i = j
  BY <1>7, <1>12, <1>13, SMTT(30)
<1>17. Lists(l, n, S)
  BY <1>7, <1>14, <1>15, <1>16 DEF Lists
<1>18. ASSUME NEW k \in 1 .. n
       PROVE  rows[o[k]] = Recalculate(l[k], b[l[k]], q)
  <2>1. PICK h \in 1 .. n : h = o[k]
    BY <1>13
  <2>2. l[k] = ids[h]
    BY <1>12, <2>1
  <2>3. rows[h] = Recalculate(ids[h], b[ids[h]], q)
    BY <1>8
  <2> QED BY <2>1, <2>2, <2>3, Zenon
<1>19. Candidates(b, q) = [k \in 1 .. n |-> Recalculate(l[k], b[l[k]], q)]
  <2>1. PICK g : g = [k \in 1 .. n |-> rows[o[k]]]
    OBVIOUS
  <2>2. g = [k \in 1 .. n |-> Recalculate(l[k], b[l[k]], q)]
    BY <1>18, <2>1
  <2> QED BY <1>5, <1>11, <2>1, <2>2, Zenon DEF Reordered
<1>20. \A i, j \in 1 .. n : i < j =>
          RowFirst(Recalculate(l[i], b[l[i]], q), Recalculate(l[j], b[l[j]], q), q)
  BY <1>11, <1>18, Zenon
<1> QED BY <1>17, <1>19, <1>20 DEF S

\* An override that changes no figure has the plain list's deals, without the excluded
\* ones, in the plain list's order.
LEMMA SameRateIsPlain ==
    ASSUME NEW b \in Books, NEW q \in Queries, q.rate = "same",
           NEW n, NEW l, Lists(l, n, CandidateIds(b, q)),
           \A i, j \in 1 .. n : i < j =>
              RowFirst(Recalculate(l[i], b[l[i]], q), Recalculate(l[j], b[l[j]], q), q),
           NEW S, S = MatchingDeals(b, q) \cap {id \in DOMAIN b : b[id].status \notin Excluded}
    PROVE  n = Cardinality(S) /\ l = Ordered(S, b, q)
<1>1. TypedBook(b)
  BY BooksAreTyped
<1>2. S \subseteq DOMAIN b
  OBVIOUS
<1>3. q.rate # None /\ q.descending \in BOOLEAN /\ q.sort \in {"id", "oop", "created"}
  BY ListAssumption DEF Rates
<1>4. ASSUME NEW id \in DOMAIN b
      PROVE  /\ Recalculate(id, b[id], q).oop = b[id].oop
             /\ Recalculate(id, b[id], q).created = b[id].created
             /\ Recalculate(id, b[id], q).id = id /\ id \in Nat
             /\ NumberOrNone(SortValue(id, Recalculate(id, b[id], q), q))
             /\ SortValue(id, Recalculate(id, b[id], q), q) = SortValue(id, b[id], q)
  <2>1. PICK row, held : row = Recalculate(id, held, q) /\ held = b[id]
    OBVIOUS
  <2>2. id \in Nat /\ IsDeal(held)
    BY <1>1, <2>1 DEF TypedBook
  <2>3. held.inputs => held.recalc["same"] = held.oop
    BY <2>1, ListAssumption
  <2>4. /\ row.id = id /\ row.created = held.created
        /\ row.oop = IF held.inputs THEN held.recalc[q.rate] ELSE held.oop
        /\ NumberOrNone(SortValue(id, row, q))
    BY <1>3, <2>1, <2>2, RecalculatedTyped
  <2>5. row["oop"] = held["oop"] /\ row["created"] = held["created"]
    BY <2>3, <2>4
  <2>6. SortValue(id, row, q) = SortValue(id, held, q)
    BY <1>3, <2>5 DEF SortValue
  <2> QED BY <2>1, <2>2, <2>4, <2>5, <2>6
<1>5. CandidateIds(b, q) = S
  BY <1>4 DEF CandidateIds, SimulationInputs, MatchingDeals, Matches
<1>6. /\ n \in Nat /\ l \in [1 .. n -> S]
      /\ \A x \in S : \E k \in 1 .. n : l[k] = x
  BY <1>5 DEF Lists
<1>7. PICK R : R = {p \in S \X S : Precedes(p[1], p[2], b, q)}
  OBVIOUS
<1>8. ASSUME NEW i \in 1 .. n, NEW j \in 1 .. n, i < j
      PROVE  <<l[i], l[j]>> \in R
  <2>1. PICK x, y : x = l[i] /\ y = l[j]
    OBVIOUS
  <2>2. x \in DOMAIN b /\ y \in DOMAIN b /\ x \in S /\ y \in S
    BY <1>2, <1>6, <2>1
  <2>3. PICK r, s : r = Recalculate(x, b[x], q) /\ s = Recalculate(y, b[y], q)
    OBVIOUS
  <2>4. RowFirst(r, s, q)
    BY <1>8, <2>1, <2>3, Zenon
  <2>5. /\ r.id = x /\ NumberOrNone(SortValue(x, r, q)) /\ SortValue(x, r, q) = SortValue(x, b[x], q)
    BY <1>4, <2>2, <2>3
  <2>7. /\ s.id = y /\ NumberOrNone(SortValue(y, s, q)) /\ SortValue(y, s, q) = SortValue(y, b[y], q)
    BY <1>4, <2>2, <2>3
  <2>6. Precedes(x, y, b, q)
    <3>1. /\ SortValue(r.id, r, q) = SortValue(r.id, b[r.id], q)
          /\ SortValue(s.id, s, q) = SortValue(s.id, b[s.id], q)
          /\ NumberOrNone(SortValue(r.id, r, q)) /\ NumberOrNone(SortValue(s.id, s, q))
      BY <2>5, <2>7, Zenon
    <3>2. Precedes(r.id, s.id, b, q)
      BY <1>3, <2>4, <3>1, RowFirstIsPrecedes
    <3> QED BY <2>5, <2>7, <3>2, Zenon
  <2> QED BY <1>7, <2>1, <2>2, <2>6
<1>9. IsFiniteSet(S) /\ StrictOrder(S, R)
  BY <1>1, <1>2, <1>7, MatchingLists
<1>10. n = Cardinality(S) /\ l = Sorted(S, R)
  BY <1>6, <1>8, <1>9, SortedUnique
<1>11. Ordered(S, b, q) = Sorted(S, R)
  BY <1>7, Zenon DEF Ordered
<1> QED BY <1>10, <1>11

-----------------------------------------------------------------------------
(***************************************************************************)
(* Pages.                                                                  *)
(***************************************************************************)
LEMMA UptoIs ==
    ASSUME NEW n \in Nat \ {0}, NEW N \in Nat
    PROVE  /\ Upto(n - 1, N) \in 0 .. N /\ Upto(n, N) \in 0 .. N
           /\ Upto(n - 1, N) <= Upto(n, N)
           /\ n >= Pages(N) => Upto(n, N) = N
           /\ Upto(0, N) = 0
<1> DEFINE P == PageSize
<1>1. P \in Nat \ {0}
  BY ListAssumption
<1>2. PICK a : a = (n - 1) * P
  OBVIOUS
<1>3. a \in Nat /\ n * P = a + P
  BY <1>1, <1>2
<1>4. /\ Upto(n - 1, N) = IF a > N THEN N ELSE a
      /\ Upto(n, N) = IF a + P > N THEN N ELSE a + P
  BY <1>2, <1>3, Zenon DEF Upto
<1>5. Upto(0, N) = 0
  <2>1. 0 * P = 0
    BY <1>1
  <2> QED BY <2>1 DEF Upto
<1>6. ASSUME n >= Pages(N)
      PROVE  a + P >= N
  <2>1. PICK d : d = Pages(N)
    OBVIOUS
  <2>2. d = (N + P - 1) \div P
    BY <2>1 DEF Pages
  <2>3. d \in Nat /\ d * P <= N + P - 1 /\ N + P - 1 < d * P + P
    BY <1>1, <2>2
  <2>4. (n - d) * P >= 0
    BY <1>1, <1>6, <2>1, <2>3
  <2>5. n * P - d * P >= 0
    BY <1>1, <2>3, <2>4
  <2> QED BY <1>1, <1>3, <2>3, <2>5
<1> HIDE DEF P
<1> QED BY <1>1, <1>3, <1>4, <1>5, <1>6

IsList(s, n) == n \in Nat /\ s = [i \in 1 .. n |-> s[i]]

LEMMA ListLen ==
    ASSUME NEW n \in Nat, NEW s, IsList(s, n)
    PROVE  s \in Seq(Range(s)) /\ Len(s) = n /\ DOMAIN s = 1 .. n
  BY DEF IsList, Range

\* The m items after the first lo of a list of N.
SliceOf(a, list, lo, m, N) ==
    /\ m \in Nat /\ lo \in Nat /\ a = [i \in 1 .. m |-> list[lo + i]]
    /\ \A i \in 1 .. m : lo + i \in 1 .. N

LEMMA SliceIs ==
    ASSUME NEW N \in Nat, NEW list, Len(list) = N, NEW n \in Nat \ {0},
           NEW lo, lo = Upto(n - 1, N), NEW m, m = Upto(n, N) - lo
    PROVE  SliceOf(Slice(list, n), list, lo, m, N)
<1>1. /\ lo \in 0 .. N /\ Upto(n, N) \in 0 .. N /\ lo <= Upto(n, N)
  BY UptoIs
<1>2. m \in Nat /\ lo \in Nat /\ lo + m = Upto(n, N) /\ \A i \in 1 .. m : lo + i \in 1 .. N
  BY <1>1
<1>3. Slice(list, n) = [i \in 1 .. m |-> list[lo + i]]
  BY Zenon DEF Slice
<1> QED BY <1>2, <1>3, Zenon DEF SliceOf

\* One list after another.
Appends(u, s, n, t, m) ==
    /\ IsList(u, n + m)
    /\ \A i \in 1 .. n : u[i] = s[i]
    /\ \A i \in 1 .. m : u[n + i] = t[i]

LEMMA Appended ==
    ASSUME NEW n \in Nat, NEW s, IsList(s, n), NEW m \in Nat, NEW t, IsList(t, m)
    PROVE  Appends(s \o t, s, n, t, m)
<1> DEFINE S == {s[i] : i \in 1 .. n} \cup {t[i] : i \in 1 .. m}
<1>1. s \in Seq(S) /\ Len(s) = n
  BY DEF IsList
<1>2. t \in Seq(S) /\ Len(t) = m
  BY DEF IsList
<1> HIDE DEF S
<1>3. /\ s \o t \in Seq(S) /\ Len(s \o t) = n + m
      /\ \A i \in 1 .. n + m : (s \o t)[i] = IF i <= n THEN s[i] ELSE t[i - n]
  <2>1. /\ s \o t \in Seq(S) /\ Len(s \o t) = Len(s) + Len(t)
        /\ \A i \in 1 .. Len(s) + Len(t) :
              (s \o t)[i] = IF i <= Len(s) THEN s[i] ELSE t[i - Len(s)]
    BY <1>1, <1>2, ConcatProperties
  <2> QED BY <1>1, <1>2, <2>1
<1>4. s \o t = [i \in 1 .. n + m |-> (s \o t)[i]]
  <2>1. PICK u, k : u = s \o t /\ k = n + m
    OBVIOUS
  <2>2. k \in Nat /\ u \in Seq(S) /\ Len(u) = k
    BY <1>3, <2>1
  <2>3. u = [i \in 1 .. k |-> u[i]]
    BY <2>2
  <2> QED BY <2>1, <2>3, Zenon
<1>5. ASSUME NEW i \in 1 .. m
      PROVE  (s \o t)[n + i] = t[i]
  <2>1. n + i \in 1 .. n + m /\ ~(n + i <= n) /\ n + i - n = i
    OBVIOUS
  <2> QED BY <1>3, <2>1
<1>6. \A i \in 1 .. n : (s \o t)[i] = s[i]
  BY <1>3
<1>7. IsList(s \o t, n + m)
  BY <1>4 DEF IsList
<1> QED BY <1>5, <1>6, <1>7, Zenon DEF Appends

-----------------------------------------------------------------------------
(***************************************************************************)
(* One row of a page.                                                      *)
(***************************************************************************)
LEMMA RemainingKeeps ==
    ASSUME NEW list, list \in Seq(ToSet(list)), NEW r \in ToSet(list)
    PROVE  (r \in ToSet(Remaining(list))) <=> (r \notin DeletedRealtors)
<1> DEFINE kept == {i \in DOMAIN list : list[i] \notin DeletedRealtors}
           R == {p \in kept \X kept : p[1] < p[2]}
           order == Sorted(kept, R)
           n == Cardinality(kept)
<1>1. PICK m \in Nat : m = Len(list) /\ DOMAIN list = 1 .. m
  OBVIOUS
<1>2. IsFiniteSet(1 .. m)
  BY FS_Interval
<1>3. kept \subseteq 1 .. m
  BY <1>1
<1>4. IsFiniteSet(kept)
  BY <1>2, <1>3, FS_Subset
<1>5. StrictOrder(kept, R)
  <2>1. \A x, y \in kept : <<x, y>> \in R <=> x < y
    OBVIOUS
  <2> HIDE DEF kept, R
  <2> QED BY <1>3, <2>1 DEF StrictOrder
<1>6. Remaining(list) = [k \in DOMAIN order |-> list[order[k]]]
  BY Zenon DEF Remaining
<1>7. \E i \in 1 .. m : list[i] = r
  BY <1>1 DEF ToSet
<1>8. \A i \in 1 .. m : i \in kept <=> list[i] \notin DeletedRealtors
  BY <1>1
<1> HIDE DEF kept, R, n
<1>9. /\ n \in Nat /\ order \in [1 .. n -> kept]
      /\ \A x \in kept : \E k \in 1 .. n : order[k] = x
  BY <1>4, <1>5, SortedWell DEF n
<1> HIDE DEF order
<1>10. ToSet(Remaining(list)) = {list[order[k]] : k \in 1 .. n}
  <2>1. PICK rest : rest = Remaining(list)
    OBVIOUS
  <2>2. DOMAIN order = 1 .. n
    BY <1>9
  <2>3. rest = [k \in 1 .. n |-> list[order[k]]]
    BY <1>6, <2>1, <2>2, Zenon
  <2>4. ToSet(rest) = {list[order[k]] : k \in 1 .. n}
    BY <2>3 DEF ToSet
  <2> QED BY <2>1, <2>4, Zenon
<1>11. ASSUME r \notin DeletedRealtors
       PROVE  r \in ToSet(Remaining(list))
  <2>1. PICK i \in 1 .. m : list[i] = r
    BY <1>7
  <2>2. i \in kept
    BY <1>8, <1>11, <2>1
  <2>3. PICK k \in 1 .. n : order[k] = i
    BY <1>9, <2>2
  <2> QED BY <1>10, <2>1, <2>3
<1>12. ASSUME r \in ToSet(Remaining(list))
       PROVE  r \notin DeletedRealtors
  <2>1. PICK k \in 1 .. n : list[order[k]] = r
    BY <1>10, <1>12
  <2>2. order[k] \in kept /\ order[k] \in 1 .. m
    BY <1>3, <1>9
  <2> QED BY <1>8, <2>1, <2>2
<1> QED BY <1>11, <1>12

\* What RowsAreTheirOwn says of a row that was shown.
RowIsItsOwn(row) ==
    /\ row.zillow = FormZillow(row)
    /\ row.discussion = "empty" <=> row.deal.thread = None
    /\ row.analyst \in {row.deal.analyst, None} \ DeletedUsers
    /\ row.deal.market # None =>
          \A r \in ToSet(RealtorsOf[row.deal.market]) :
              (r \in ToSet(row.realtors)) = (r \notin DeletedRealtors)

\* A row as it was read, before anything is joined to it.
RawRow(row) ==
    /\ row = [id |-> row.id, oop |-> row.oop, simulated |-> row.simulated, deal |-> row.deal,
              zillow |-> row.zillow, analyst |-> row.analyst, realtors |-> row.realtors,
              discussion |-> row.discussion]
    /\ row.zillow = row.deal.zillow
    /\ IsDeal(row.deal)

LEMMA EnrichedIsItsOwn ==
    ASSUME NEW row, RawRow(row)
    PROVE  /\ Enriched(row).id = row.id /\ Enriched(row).deal = row.deal
           /\ RowIsItsOwn(Enriched(row))
<1>1. PICK d, z, u, t, c :
         /\ d = row.deal
         /\ z = IF d.automated /\ d.zpid \notin MissingListings \cup {None} THEN d.zpid ELSE d.zillow
         /\ u = IF d.analyst \in DeletedUsers THEN None ELSE d.analyst
         /\ t = IF d.market = None THEN None ELSE Remaining(RealtorsOf[d.market])
         /\ c = IF d.thread = None THEN "empty" ELSE d.thread
  OBVIOUS
<1>2. PICK r1, r2, r3, r4 : /\ r1 = WithZillow(row) /\ r2 = WithUsers(r1)
                            /\ r3 = WithRealtors(r2) /\ r4 = WithDiscussion(r3)
  OBVIOUS
<1>3. row = [id |-> row.id, oop |-> row.oop, simulated |-> row.simulated, deal |-> d,
             zillow |-> d.zillow, analyst |-> row.analyst, realtors |-> row.realtors,
             discussion |-> row.discussion]
  BY <1>1, Zenon DEF RawRow
<1>4. r1 = [id |-> row.id, oop |-> row.oop, simulated |-> row.simulated, deal |-> d,
            zillow |-> z, analyst |-> row.analyst, realtors |-> row.realtors,
            discussion |-> row.discussion]
  <2>1. row.zillow = d.zillow
    BY <1>3
  <2>2. r1 = [row EXCEPT !.zillow = z]
    BY <1>1, <1>2, <2>1, Zenon DEF WithZillow
  <2> QED BY <1>3, <2>2
<1>5. r2 = [id |-> row.id, oop |-> row.oop, simulated |-> row.simulated, deal |-> d,
            zillow |-> z, analyst |-> u, realtors |-> row.realtors,
            discussion |-> row.discussion]
  <2>1. r1.deal = d
    BY <1>4
  <2>2. r2 = [r1 EXCEPT !.analyst = u]
    BY <1>1, <1>2, <2>1, Zenon DEF WithUsers
  <2> QED BY <1>4, <2>2
<1>6. r3 = [id |-> row.id, oop |-> row.oop, simulated |-> row.simulated, deal |-> d,
            zillow |-> z, analyst |-> u, realtors |-> t,
            discussion |-> row.discussion]
  <2>1. r2.deal = d
    BY <1>5
  <2>2. r3 = [r2 EXCEPT !.realtors = t]
    BY <1>1, <1>2, <2>1, Zenon DEF WithRealtors
  <2> QED BY <1>5, <2>2
<1>7. r4 = [id |-> row.id, oop |-> row.oop, simulated |-> row.simulated, deal |-> d,
            zillow |-> z, analyst |-> u, realtors |-> t,
            discussion |-> c]
  <2>1. r3.deal = d
    BY <1>6
  <2>2. r4 = [r3 EXCEPT !.discussion = c]
    BY <1>1, <1>2, <2>1, Zenon DEF WithDiscussion
  <2> QED BY <1>6, <2>2
<1>8. /\ r4.id = row.id /\ r4.deal = d /\ r4.zillow = z /\ r4.analyst = u
      /\ r4.realtors = t /\ r4.discussion = c
  BY <1>7
<1>9. r4 = Enriched(row)
  BY <1>2, Zenon DEF Enriched
<1>10. /\ d.thread # "empty" /\ d.market \in DOMAIN RealtorsOf \cup {None}
  BY <1>1 DEF RawRow, IsDeal, MayHold
<1>11. None \notin DeletedUsers
  BY ListAssumption
<1>12. FormZillow(r4) = z
  <2>1. PICK live, property :
           /\ live = IF d.zpid \in MissingListings \cup {None} THEN None ELSE d.zpid
           /\ property = IF d.automated THEN live ELSE d.zillow
    OBVIOUS
  <2>2. FormZillow(r4) = IF property = None THEN d.zillow ELSE property
    BY <1>8, <2>1, Zenon DEF FormZillow
  <2>3. (d.zpid \in MissingListings \cup {None}) \/ d.zpid # None
    OBVIOUS
  <2> QED BY <1>1, <2>1, <2>2, <2>3, Zenon
<1>13. ASSUME d.market # None, NEW r \in ToSet(RealtorsOf[d.market])
       PROVE  (r \in ToSet(t)) = (r \notin DeletedRealtors)
  <2>1. PICK list : list = RealtorsOf[d.market]
    OBVIOUS
  <2>2. list \in Seq(ToSet(list))
    BY <1>10, <1>13, <2>1, ListAssumption
  <2>3. t = Remaining(list)
    BY <1>1, <1>13, <2>1, Zenon
  <2> QED BY <1>13, <2>1, <2>2, <2>3, RemainingKeeps
<1>14. u \in {d.analyst, None} \ DeletedUsers
  BY <1>1, <1>11
<1>15. c = "empty" <=> d.thread = None
  BY <1>1, <1>10
<1>16. RowIsItsOwn(r4)
  BY <1>8, <1>12, <1>13, <1>14, <1>15, Zenon DEF RowIsItsOwn
<1> QED BY <1>1, <1>8, <1>9, <1>16, Zenon

\* An edit leaves a deal.
LEMMA OverwrittenIsDeal ==
    ASSUME NEW held, IsDeal(held), NEW e, MayHold(e)
    PROVE  IsDeal(Overwritten(held, e))
<1>1. PICK made : made = Overwritten(held, e)
  OBVIOUS
<1>2. /\ DOMAIN made = DOMAIN e \cup DOMAIN held
      /\ \A f \in DOMAIN e \cup DOMAIN held : made[f] = IF f \in DOMAIN e THEN e[f] ELSE held[f]
  BY <1>1 DEF Overwritten
<1>3. {"oop", "created", "inputs", "recalc", "thread", "market"} \subseteq DOMAIN held /\ MayHold(held)
  BY DEF IsDeal
<1>4. \A f \in DOMAIN held : (made[f] = e[f] /\ f \in DOMAIN e) \/ made[f] = held[f]
  BY <1>2
<1>5. NumberOrNone(made["oop"]) /\ NumberOrNone(made["created"])
  BY <1>3, <1>4 DEF MayHold
<1>6. made["inputs"] \in BOOLEAN
  BY <1>3, <1>4 DEF MayHold
<1>7. \A r \in Rates : NumberOrNone(made["recalc"][r])
  BY <1>3, <1>4 DEF MayHold
<1>8. made["thread"] # "empty"
  BY <1>3, <1>4 DEF MayHold
<1>9. made["market"] \in DOMAIN RealtorsOf \cup {None}
  BY <1>3, <1>4 DEF MayHold
<1>10. {"oop", "created", "inputs", "recalc", "thread", "market"} \subseteq DOMAIN made
  BY <1>2, <1>3
<1>11. MayHold(made)
  BY <1>5, <1>6, <1>7, <1>8, <1>9 DEF MayHold
<1> QED BY <1>1, <1>10, <1>11 DEF IsDeal

-----------------------------------------------------------------------------
(***************************************************************************)
(* The invariant: every row is its own deal's, and until something is      *)
(* edited the rows shown are the first of the walk.                        *)
(***************************************************************************)
Walk(b, q) ==
    IF q.rate = None THEN Ordered(MatchingDeals(b, q), b, q)
    ELSE [k \in DOMAIN Candidates(b, q) |-> Candidates(b, q)[k].id]

\* A list of ids of the book, each once.
WalkOf(W, N, b) ==
    /\ N \in Nat /\ IsList(W, N) /\ Len(W) = N
    /\ \A i \in 1 .. N : W[i] \in DOMAIN b
    /\ \A i, j \in 1 .. N : W[i] = W[j] => i = j

\* Rows with the ids of the walk.
RowsOf(rows, W, N) ==
    /\ IsList(rows, N) /\ Len(rows) = N
    /\ \A i \in 1 .. N : rows[i].id = W[i] /\ rows[i].simulated \in BOOLEAN

LEMMA ListsIsList ==
    ASSUME NEW n, NEW l, NEW S, Lists(l, n, S)
    PROVE  n \in Nat /\ IsList(l, n) /\ Len(l) = n
<1>1. n \in Nat /\ l = [i \in 1 .. n |-> l[i]]
  BY DEF Lists
<1>2. IsList(l, n)
  BY <1>1 DEF IsList
<1> QED BY <1>1, <1>2, ListLen

LEMMA PlainWalk ==
    ASSUME NEW b, TypedBook(b), NEW q \in Queries, q.rate = None,
           NEW S, S = MatchingDeals(b, q), NEW W, W = Walk(b, q)
    PROVE  /\ W = Ordered(S, b, q) /\ WalkOf(W, Cardinality(S), b)
           /\ \A x \in S : \E k \in 1 .. Cardinality(S) : W[k] = x
           /\ \A k \in 1 .. Cardinality(S) : W[k] \in S
           /\ \A i, j \in 1 .. Cardinality(S) : i < j => Precedes(W[i], W[j], b, q)
<1>1. W = Ordered(S, b, q)
  BY Zenon DEF Walk
<1>2. S \subseteq DOMAIN b
  BY DEF MatchingDeals
<1>3. /\ Lists(W, Cardinality(S), S)
      /\ \A i, j \in 1 .. Cardinality(S) : i < j => Precedes(W[i], W[j], b, q)
  BY <1>1, <1>2, MatchingLists
<1>4. Cardinality(S) \in Nat /\ IsList(W, Cardinality(S)) /\ Len(W) = Cardinality(S)
  BY <1>3, ListsIsList
<1>5. /\ \A k \in 1 .. Cardinality(S) : W[k] \in S
      /\ \A x \in S : \E k \in 1 .. Cardinality(S) : W[k] = x
      /\ \A i, j \in 1 .. Cardinality(S) : W[i] = W[j] => i = j
  BY <1>3 DEF Lists
<1>6. WalkOf(W, Cardinality(S), b)
  BY <1>2, <1>4, <1>5 DEF WalkOf
<1> QED BY <1>1, <1>3, <1>5, <1>6

LEMMA SimulatedWalk ==
    ASSUME NEW b, TypedBook(b), NEW q \in Queries, q.rate # None,
           NEW W, W = Walk(b, q), NEW C, C = Candidates(b, q)
    PROVE  \E N : /\ WalkOf(W, N, b) /\ RowsOf(C, W, N)
                  /\ Lists(W, N, CandidateIds(b, q))
                  /\ \A i, j \in 1 .. N : i < j =>
                        RowFirst(Recalculate(W[i], b[W[i]], q), Recalculate(W[j], b[W[j]], q), q)
<1>1. PICK n, l : /\ Lists(l, n, CandidateIds(b, q))
                  /\ C = [k \in 1 .. n |-> Recalculate(l[k], b[l[k]], q)]
                  /\ \A i, j \in 1 .. n : i < j =>
                        RowFirst(Recalculate(l[i], b[l[i]], q), Recalculate(l[j], b[l[j]], q), q)
  BY CandidatesList
<1>2. CandidateIds(b, q) \subseteq DOMAIN b
  BY DEF CandidateIds, SimulationInputs
<1>3. n \in Nat /\ IsList(l, n) /\ Len(l) = n
  BY <1>1, ListsIsList
<1>4. /\ l \in [1 .. n -> DOMAIN b]
      /\ \A i, j \in 1 .. n : l[i] = l[j] => i = j
  BY <1>1, <1>2 DEF Lists
<1>5. ASSUME NEW k \in 1 .. n
      PROVE  C[k].id = l[k] /\ C[k].simulated \in BOOLEAN
  <2>1. PICK id, held : id = l[k] /\ held = b[id]
    OBVIOUS
  <2>2. id \in Nat /\ IsDeal(held)
    BY <1>4, <2>1 DEF TypedBook
  <2>3. C[k] = Recalculate(id, held, q)
    BY <1>1, <2>1
  <2>4. C[k].id = id /\ C[k].simulated \in BOOLEAN
    BY <2>2, <2>3, RecalculatedTyped
  <2> QED BY <2>1, <2>4
<1>6. DOMAIN C = 1 .. n /\ C = [i \in 1 .. n |-> C[i]]
  <2>1. DOMAIN C = 1 .. n
    BY <1>1
  <2>2. \A k \in 1 .. n : C[k] = Recalculate(l[k], b[l[k]], q)
    BY <1>1
  <2>3. C = [i \in 1 .. n |-> C[i]]
    BY <1>1, <2>2
  <2> QED BY <2>1, <2>3
<1>7. W = l
  <2>1. W = [k \in DOMAIN C |-> C[k].id]
    BY Zenon DEF Walk
  <2>2. W = [k \in 1 .. n |-> l[k]]
    BY <1>5, <1>6, <2>1
  <2>3. l = [k \in 1 .. n |-> l[k]]
    BY <1>4
  <2> QED BY <2>2, <2>3
<1>8. IsList(C, n) /\ Len(C) = n
  BY <1>3, <1>6, ListLen DEF IsList
<1>9. RowsOf(C, l, n)
  BY <1>5, <1>8 DEF RowsOf
<1>10. WalkOf(l, n, b)
  BY <1>3, <1>4 DEF WalkOf
<1> QED BY <1>1, <1>7, <1>9, <1>10, Zenon

LEMMA WalkIs ==
    ASSUME NEW b, TypedBook(b), NEW q \in Queries
    PROVE  \E N : WalkOf(Walk(b, q), N, b)
<1>1. CASE q.rate = None
  BY <1>1, PlainWalk
<1>2. CASE q.rate # None
  BY <1>2, SimulatedWalk
<1> QED BY <1>1, <1>2

\* The rows of the page that is being answered.
PageOf(rows, W, N) ==
    /\ IsList(rows, Upto(page, N) - Upto(page - 1, N))
    /\ \A i \in 1 .. (Upto(page, N) - Upto(page - 1, N)) : rows[i].id = W[Upto(page - 1, N) + i]

FirstOf(rows, W, k) ==
    /\ IsList(rows, k)
    /\ \A i \in 1 .. k : rows[i].id = W[i] /\ rows[i].deal = book[W[i]]

WalkSoFar(W, N) ==
    /\ FirstOf(shown, W, Upto(page - 1, N))
    /\ stage \in {"counted", "read", "hydrated"} => total = N
    /\ stage = "read" => PageOf(inputs, W, N)
    /\ stage = "hydrated" =>
          /\ PageOf(answer, W, N)
          /\ \A i \in DOMAIN answer : answer[i].deal = book[answer[i].id]
    /\ stage = "done" => Upto(page - 1, N) = N

ListTyped ==
    /\ TypedBook(book) /\ query \in Queries
    /\ page \in Nat \ {0} /\ total \in Nat /\ edits \in Nat
    /\ edits = 0 => book \in Books

\* The rows on their way, and those of the simulation between its two fetches.
AllShown == IsList(shown, Len(shown)) /\ \A i \in 1 .. Len(shown) : RowIsItsOwn(shown[i])
AllRead == IsList(answer, Len(answer)) /\ \A i \in 1 .. Len(answer) : RawRow(answer[i])
AllInputs ==
    /\ IsList(inputs, Len(inputs))
    /\ \A i \in 1 .. Len(inputs) : inputs[i].id \in DOMAIN book /\ inputs[i].simulated \in BOOLEAN
    /\ \A i, j \in 1 .. Len(inputs) : inputs[i].id = inputs[j].id => i = j

\* The simulated rows put on the hydrated ones.
FiguresOverlaid ==
    /\ DOMAIN answer = DOMAIN inputs
    /\ \A i \in DOMAIN inputs : /\ answer[i].id = inputs[i].id
                                /\ inputs[i].simulated => answer[i].oop = inputs[i].oop

Stages ==
    \/ stage \in {"idle", "done"} /\ inputs = <<>> /\ answer = <<>>
    \/ stage = "counted" /\ query.rate = None /\ inputs = <<>> /\ answer = <<>>
    \/ stage = "read" /\ query.rate # None /\ answer = <<>>
    \/ stage = "hydrated" /\ query.rate = None /\ inputs = <<>>
    \/ stage = "hydrated" /\ query.rate # None /\ FiguresOverlaid

WalkProgress ==
    \A W, N : edits = 0 /\ W = Walk(book, query) /\ WalkOf(W, N, book) => WalkSoFar(W, N)

ListInv ==
    /\ ListTyped /\ AllShown /\ AllRead /\ AllInputs /\ Stages /\ WalkProgress

LEMMA EmptyList == IsList(<<>>, 0) /\ Len(<<>>) = 0 /\ \A i \in 1 .. 0 : FALSE
<1>1. <<>> = [i \in 1 .. 0 |-> <<>>[i]]
  OBVIOUS
<1> QED BY <1>1, ListLen DEF IsList

LEMMA ListInitInv == ListInit => ListInv
<1> SUFFICES ASSUME ListInit PROVE ListInv
  OBVIOUS
<1>1. /\ book \in Books /\ query \in Queries
      /\ page = 1 /\ stage = "idle" /\ total = 0 /\ edits = 0
      /\ inputs = <<>> /\ answer = <<>> /\ shown = <<>>
  BY DEF ListInit
<1>2. ListTyped
  BY <1>1, BooksAreTyped DEF ListTyped
<1>3. AllShown /\ AllRead /\ AllInputs
  BY <1>1, EmptyList DEF AllShown, AllRead, AllInputs
<1>4. Stages
  BY <1>1 DEF Stages
<1>5. WalkProgress
  <2> SUFFICES ASSUME NEW W, NEW N, WalkOf(W, N, book) PROVE WalkSoFar(W, N)
    BY DEF WalkProgress
  <2>1. Upto(page - 1, N) = 0
    BY <1>1, UptoIs DEF WalkOf
  <2>2. FirstOf(shown, W, Upto(page - 1, N))
    BY <1>1, <2>1, EmptyList DEF FirstOf
  <2> QED BY <1>1, <2>2 DEF WalkSoFar
<1> QED BY <1>2, <1>3, <1>4, <1>5 DEF ListInv

\* What an action leaves as it was.
LEMMA RowsKept ==
    /\ AllShown /\ shown' = shown => AllShown'
    /\ AllRead /\ answer' = answer => AllRead'
    /\ AllInputs /\ inputs' = inputs /\ DOMAIN book' = DOMAIN book => AllInputs'
  BY DEF AllShown, AllRead, AllInputs

LEMMA NothingRead ==
    /\ answer' = <<>> => AllRead'
    /\ inputs' = <<>> => AllInputs'
  BY EmptyList DEF AllRead, AllInputs

LEMMA CountKeeps == ListInv /\ CountDeals => ListInv'
<1> SUFFICES ASSUME ListInv, CountDeals PROVE ListInv'
  OBVIOUS
<1>1. /\ stage = "idle" /\ query.rate = None /\ stage' = "counted"
      /\ total' = Cardinality(MatchingDeals(book, query))
      /\ UNCHANGED <<book, query, page, inputs, answer, shown, edits>>
  BY DEF CountDeals
<1>2. ListTyped /\ AllShown /\ AllRead /\ AllInputs /\ Stages /\ WalkProgress
  BY DEF ListInv
<1>3. PICK S, V : S = MatchingDeals(book, query) /\ V = Walk(book, query)
  OBVIOUS
<1>4. WalkOf(V, Cardinality(S), book)
  BY <1>1, <1>2, <1>3, PlainWalk DEF ListTyped
<1>5. ListTyped'
  BY <1>1, <1>2, <1>3, <1>4 DEF ListTyped, WalkOf
<1>6. AllShown' /\ AllRead' /\ AllInputs'
  BY <1>1, <1>2, RowsKept
<1>7. Stages'
  BY <1>1, <1>2 DEF Stages
<1>8. WalkProgress'
  <2> SUFFICES ASSUME NEW W, NEW N, edits' = 0, W = Walk(book', query'), WalkOf(W, N, book')
               PROVE  WalkSoFar(W, N)'
    BY Zenon DEF WalkProgress
  <2>1. WalkSoFar(W, N)
    BY <1>1, <1>2 DEF WalkProgress
  <2>2. N = Cardinality(S)
    BY <1>1, <1>3, <1>4 DEF WalkOf
  <2>3. FirstOf(shown, W, Upto(page - 1, N))
    BY <2>1 DEF WalkSoFar
  <2>4. FirstOf(shown, W, Upto(page - 1, N))'
    BY <1>1, <2>3 DEF FirstOf
  <2> QED BY <1>1, <1>3, <2>2, <2>4 DEF WalkSoFar
<1> QED BY <1>5, <1>6, <1>7, <1>8 DEF ListInv

LEMMA ResultIsRaw ==
    ASSUME NEW b, TypedBook(b), NEW id \in DOMAIN b, NEW figure, NEW flag, NEW row,
           row = [id |-> id, oop |-> figure, simulated |-> flag, deal |-> b[id],
                  zillow |-> b[id].zillow, analyst |-> None, realtors |-> None,
                  discussion |-> None]
    PROVE  RawRow(row) /\ row.id = id /\ row.oop = figure /\ row.deal = b[id]
<1>1. PICK d, z : d = b[id] /\ z = d.zillow
  OBVIOUS
<1>2. row = [id |-> id, oop |-> figure, simulated |-> flag, deal |-> d,
             zillow |-> z, analyst |-> None, realtors |-> None, discussion |-> None]
  BY <1>1, Zenon
<1>3. /\ row.id = id /\ row.oop = figure /\ row.simulated = flag /\ row.deal = d
      /\ row.zillow = z /\ row.analyst = None /\ row.realtors = None /\ row.discussion = None
  BY <1>2
<1>4. row = [id |-> row.id, oop |-> row.oop, simulated |-> row.simulated, deal |-> row.deal,
             zillow |-> row.zillow, analyst |-> row.analyst, realtors |-> row.realtors,
             discussion |-> row.discussion]
  BY <1>2, <1>3, Zenon
<1>5. IsDeal(d)
  BY <1>1 DEF TypedBook
<1>6. RawRow(row)
  BY <1>1, <1>3, <1>4, <1>5, Zenon DEF RawRow
<1> QED BY <1>1, <1>3, <1>6

LEMMA ReadKeeps == ListInv /\ ReadPage => ListInv'
<1> SUFFICES ASSUME ListInv, ReadPage PROVE ListInv'
  OBVIOUS
<1>1. /\ ListTyped /\ AllShown /\ AllRead /\ AllInputs /\ Stages /\ WalkProgress
  BY DEF ListInv
<1>2. stage = "counted" /\ query.rate = None /\ inputs = <<>>
  BY <1>1 DEF Stages, ReadPage
<1>3. TypedBook(book) /\ query \in Queries /\ page \in Nat \ {0}
  BY <1>1 DEF ListTyped
<1>4. PICK S, V, M : S = MatchingDeals(book, query) /\ V = Walk(book, query) /\ M = Cardinality(S)
  OBVIOUS
<1>5. WalkOf(V, M, book) /\ V = Ordered(S, book, query)
  BY <1>2, <1>3, <1>4, PlainWalk
<1>6. M \in Nat /\ Len(V) = M /\ \A i \in 1 .. M : V[i] \in DOMAIN book
  BY <1>5 DEF WalkOf
<1>7. PICK lo, m, rows : /\ lo = Upto(page - 1, M) /\ m = Upto(page, M) - lo
                         /\ rows = Slice(V, page)
  OBVIOUS
<1>8. /\ m \in Nat /\ lo \in Nat /\ rows = [i \in 1 .. m |-> V[lo + i]]
      /\ \A i \in 1 .. m : lo + i \in 1 .. M
  <2>1. SliceOf(rows, V, lo, m, M)
    BY <1>3, <1>6, <1>7, SliceIs
  <2> QED BY <2>1, Zenon DEF SliceOf
<1>9. /\ stage' = "hydrated"
      /\ answer' = [i \in DOMAIN rows |-> ToResult(rows[i], book[rows[i]].oop, None)]
      /\ UNCHANGED <<book, query, page, total, inputs, shown, edits>>
  BY <1>4, <1>5, <1>7, Zenon DEF ReadPage
<1>10. PICK a : a = answer'
  OBVIOUS
<1>11. DOMAIN rows = 1 .. m
  BY <1>8
<1>12. IsList(a, m) /\ Len(a) = m /\ DOMAIN a = 1 .. m
  <2>1. \A i \in 1 .. m : a[i] = ToResult(rows[i], book[rows[i]].oop, None)
    BY <1>9, <1>10, <1>11
  <2>2. a = [i \in 1 .. m |-> a[i]]
    BY <1>9, <1>10, <1>11, <2>1
  <2> QED BY <1>8, <2>2, ListLen DEF IsList
<1>13. ASSUME NEW i \in 1 .. m
       PROVE  RawRow(a[i]) /\ a[i].id = V[lo + i] /\ a[i].deal = book[a[i].id]
  <2>1. PICK id : id = V[lo + i]
    OBVIOUS
  <2>2. id \in DOMAIN book /\ rows[i] = id
    BY <1>6, <1>8, <2>1
  <2>3. a[i] = ToResult(id, book[id].oop, None)
    BY <1>9, <1>10, <1>11, <2>2
  <2>4. RawRow(a[i]) /\ a[i].id = id /\ a[i].deal = book[id]
    BY <1>3, <2>2, <2>3, ResultIsRaw DEF ToResult
  <2> QED BY <2>1, <2>4
<1>14. ListTyped'
  BY <1>1, <1>9 DEF ListTyped
<1>15. AllShown' /\ AllInputs'
  BY <1>1, <1>9, RowsKept
<1>16. AllRead'
  BY <1>10, <1>12, <1>13 DEF AllRead
<1>17. Stages'
  BY <1>2, <1>9 DEF Stages
<1>18. WalkProgress'
  <2> SUFFICES ASSUME NEW W, NEW N, edits' = 0, W = Walk(book', query'), WalkOf(W, N, book')
               PROVE  WalkSoFar(W, N)'
    BY Zenon DEF WalkProgress
  <2>1. WalkSoFar(W, N)
    BY <1>1, <1>9 DEF WalkProgress
  <2>2. N = M /\ W = V
    BY <1>4, <1>6, <1>9 DEF WalkOf
  <2>3. FirstOf(shown, W, Upto(page - 1, N)) /\ total = N
    BY <1>2, <2>1 DEF WalkSoFar
  <2>4. FirstOf(shown, W, Upto(page - 1, N))'
    BY <1>9, <2>3 DEF FirstOf
  <2>5. PageOf(answer, W, N)'
    <3>1. Upto(page', N) - Upto(page' - 1, N) = m /\ Upto(page' - 1, N) = lo
      BY <1>7, <1>9, <2>2
    <3>2. \A i \in 1 .. m : a[i].id = W[lo + i]
      BY <1>13, <2>2
    <3> QED BY <1>10, <1>12, <3>1, <3>2, Zenon DEF PageOf
  <2>6. \A i \in DOMAIN a : a[i].deal = book'[a[i].id]
    BY <1>9, <1>12, <1>13
  <2> QED BY <1>9, <1>10, <2>3, <2>4, <2>5, <2>6 DEF WalkSoFar
<1> QED BY <1>14, <1>15, <1>16, <1>17, <1>18 DEF ListInv

LEMMA SimulateKeeps == ListInv /\ SimulatePage => ListInv'
<1> SUFFICES ASSUME ListInv, SimulatePage PROVE ListInv'
  OBVIOUS
<1>1. /\ ListTyped /\ AllShown /\ AllRead /\ AllInputs /\ Stages /\ WalkProgress
  BY DEF ListInv
<1>2. stage = "idle" /\ query.rate # None /\ answer = <<>>
  BY <1>1 DEF Stages, SimulatePage
<1>3. TypedBook(book) /\ query \in Queries /\ page \in Nat \ {0}
  BY <1>1 DEF ListTyped
<1>4. PICK C, V : C = Candidates(book, query) /\ V = Walk(book, query)
  OBVIOUS
<1>5. PICK M : WalkOf(V, M, book) /\ RowsOf(C, V, M)
  BY <1>2, <1>3, <1>4, SimulatedWalk
<1>6. /\ M \in Nat /\ \A i \in 1 .. M : V[i] \in DOMAIN book
      /\ \A i, j \in 1 .. M : V[i] = V[j] => i = j
      /\ Len(C) = M /\ \A i \in 1 .. M : C[i].id = V[i] /\ C[i].simulated \in BOOLEAN
  BY <1>5 DEF WalkOf, RowsOf
<1>7. PICK lo, m, a : lo = Upto(page - 1, M) /\ m = Upto(page, M) - lo /\ a = Slice(C, page)
  OBVIOUS
<1>8. /\ m \in Nat /\ lo \in Nat /\ a = [i \in 1 .. m |-> C[lo + i]]
      /\ \A i \in 1 .. m : lo + i \in 1 .. M
  <2>1. M \in Nat /\ Len(C) = M /\ page \in Nat \ {0}
    BY <1>3, <1>6
  <2>2. SliceOf(a, C, lo, m, M)
    BY <1>7, <2>1, SliceIs
  <2> QED BY <2>2, Zenon DEF SliceOf
<1>9. /\ stage' = "read" /\ total' = M /\ inputs' = a
      /\ UNCHANGED <<book, query, page, answer, shown, edits>>
  BY <1>4, <1>6, <1>7, Zenon DEF SimulatePage
<1>10. IsList(a, m) /\ Len(a) = m
  <2>1. \A i \in 1 .. m : a[i] = C[lo + i]
    BY <1>8
  <2>2. a = [i \in 1 .. m |-> a[i]]
    BY <1>8, <2>1
  <2> QED BY <1>8, <2>2, ListLen DEF IsList
<1>11. ASSUME NEW i \in 1 .. m
       PROVE  a[i].id = V[lo + i] /\ lo + i \in 1 .. M /\ a[i].simulated \in BOOLEAN
  <2>1. a[i] = C[lo + i] /\ lo + i \in 1 .. M
    BY <1>8
  <2> QED BY <1>6, <2>1
<1>12. ListTyped'
  BY <1>1, <1>6, <1>9 DEF ListTyped
<1>13. AllShown' /\ AllRead'
  BY <1>1, <1>9, RowsKept
<1>14. AllInputs'
  <2>1. \A i \in 1 .. m : a[i].id \in DOMAIN book /\ a[i].simulated \in BOOLEAN
    BY <1>6, <1>11
  <2>2. ASSUME NEW i \in 1 .. m, NEW j \in 1 .. m, a[i].id = a[j].id
        PROVE  i = j
    <3>1. V[lo + i] = V[lo + j] /\ lo + i \in 1 .. M /\ lo + j \in 1 .. M
      BY <1>11, <2>2
    <3>2. lo + i = lo + j
      BY <1>6, <3>1
    <3> QED BY <1>8, <3>2
  <2> QED BY <1>9, <1>10, <2>1, <2>2 DEF AllInputs
<1>15. Stages'
  BY <1>2, <1>9 DEF Stages
<1>16. WalkProgress'
  <2> SUFFICES ASSUME NEW W, NEW N, edits' = 0, W = Walk(book', query'), WalkOf(W, N, book')
               PROVE  WalkSoFar(W, N)'
    BY Zenon DEF WalkProgress
  <2>1. WalkSoFar(W, N)
    BY <1>1, <1>9 DEF WalkProgress
  <2>2. N = M /\ W = V
    BY <1>4, <1>5, <1>9 DEF WalkOf
  <2>3. FirstOf(shown, W, Upto(page - 1, N))
    BY <2>1 DEF WalkSoFar
  <2>4. FirstOf(shown, W, Upto(page - 1, N))'
    BY <1>9, <2>3 DEF FirstOf
  <2>5. PageOf(inputs, W, N)'
    <3>1. Upto(page', N) - Upto(page' - 1, N) = m /\ Upto(page' - 1, N) = lo
      BY <1>7, <1>9, <2>2
    <3>2. \A i \in 1 .. m : a[i].id = W[lo + i]
      BY <1>11, <2>2
    <3> QED BY <1>9, <1>10, <3>1, <3>2, Zenon DEF PageOf
  <2> QED BY <1>9, <2>2, <2>4, <2>5 DEF WalkSoFar
<1> QED BY <1>12, <1>13, <1>14, <1>15, <1>16 DEF ListInv

LEMMA HydrateKeeps == ListInv /\ HydratePage => ListInv'
<1> SUFFICES ASSUME ListInv, HydratePage PROVE ListInv'
  OBVIOUS
<1>1. /\ ListTyped /\ AllShown /\ AllRead /\ AllInputs /\ Stages /\ WalkProgress
  BY DEF ListInv
<1>2. stage = "read" /\ query.rate # None
  BY <1>1 DEF Stages, HydratePage
<1>3. TypedBook(book) /\ query \in Queries /\ page \in Nat \ {0}
  BY <1>1 DEF ListTyped
<1>4. PICK m : m = Len(inputs)
  OBVIOUS
<1>5. /\ IsList(inputs, m)
      /\ \A i \in 1 .. m : inputs[i].id \in DOMAIN book /\ inputs[i].simulated \in BOOLEAN
      /\ \A i, j \in 1 .. m : inputs[i].id = inputs[j].id => i = j
  BY <1>1, <1>4 DEF AllInputs
<1>6. m \in Nat /\ DOMAIN inputs = 1 .. m
  BY <1>5, ListLen DEF IsList
<1>7. /\ stage' = "hydrated"
      /\ UNCHANGED <<book, query, page, total, inputs, shown, edits>>
  BY DEF HydratePage
<1>8. PICK a : a = answer'
  OBVIOUS
<1>9. a = [i \in 1 .. m |->
             ToResult(inputs[i].id,
                      IF RowOf(inputs, inputs[i].id).simulated
                      THEN RowOf(inputs, inputs[i].id).oop ELSE book[inputs[i].id].oop,
                      RowOf(inputs, inputs[i].id).simulated)]
  BY <1>6, <1>8, Zenon DEF HydratePage
<1>10. ASSUME NEW i \in 1 .. m
       PROVE  RowOf(inputs, inputs[i].id) = inputs[i]
  <2>1. PICK k : k = CHOOSE h \in DOMAIN inputs : inputs[h].id = inputs[i].id
    OBVIOUS
  <2>2. k \in 1 .. m /\ inputs[k].id = inputs[i].id
    BY <1>6, <2>1
  <2>3. k = i
    BY <1>5, <2>2
  <2>4. RowOf(inputs, inputs[i].id) = inputs[k]
    BY <2>1, Zenon DEF RowOf
  <2> QED BY <2>3, <2>4
<1>11. IsList(a, m) /\ Len(a) = m /\ DOMAIN a = 1 .. m
  <2>1. DOMAIN a = 1 .. m
    BY <1>9
  <2>2. a = [i \in 1 .. m |-> a[i]]
    BY <1>9
  <2> QED BY <1>6, <2>1, <2>2, ListLen DEF IsList
<1>12. ASSUME NEW i \in 1 .. m
       PROVE  /\ RawRow(a[i]) /\ a[i].id = inputs[i].id /\ a[i].deal = book[a[i].id]
              /\ inputs[i].simulated => a[i].oop = inputs[i].oop
  <2>1. PICK id, row : id = inputs[i].id /\ row = inputs[i]
    OBVIOUS
  <2>2. id \in DOMAIN book /\ RowOf(inputs, id) = row
    BY <1>5, <1>10, <2>1
  <2>3. PICK figure : figure = IF row.simulated THEN row.oop ELSE book[id].oop
    OBVIOUS
  <2>4. a[i] = ToResult(inputs[i].id,
                      IF RowOf(inputs, inputs[i].id).simulated
                      THEN RowOf(inputs, inputs[i].id).oop ELSE book[inputs[i].id].oop,
                      RowOf(inputs, inputs[i].id).simulated)
    BY <1>9
  <2>5. a[i] = ToResult(id, figure, row.simulated)
    BY <2>1, <2>2, <2>3, <2>4, Zenon
  <2>6. RawRow(a[i]) /\ a[i].id = id /\ a[i].oop = figure /\ a[i].deal = book[id]
    BY <1>3, <2>2, <2>5, ResultIsRaw DEF ToResult
  <2> QED BY <2>1, <2>3, <2>6
<1>13. ListTyped'
  BY <1>1, <1>7 DEF ListTyped
<1>14. AllShown' /\ AllInputs'
  BY <1>1, <1>7, RowsKept
<1>15. AllRead'
  BY <1>8, <1>11, <1>12 DEF AllRead
<1>16. Stages'
  <2>1. FiguresOverlaid'
    BY <1>6, <1>7, <1>8, <1>11, <1>12 DEF FiguresOverlaid
  <2> QED BY <1>2, <1>7, <2>1 DEF Stages
<1>17. WalkProgress'
  <2> SUFFICES ASSUME NEW W, NEW N, edits' = 0, W = Walk(book', query'), WalkOf(W, N, book')
               PROVE  WalkSoFar(W, N)'
    BY Zenon DEF WalkProgress
  <2>1. WalkSoFar(W, N)
    BY <1>1, <1>7 DEF WalkProgress
  <2>2. FirstOf(shown, W, Upto(page - 1, N)) /\ total = N /\ PageOf(inputs, W, N)
    BY <1>2, <2>1 DEF WalkSoFar
  <2>3. FirstOf(shown, W, Upto(page - 1, N))'
    BY <1>7, <2>2 DEF FirstOf
  <2>4. PageOf(answer, W, N)'
    <3>1. PICK k, lo : k = Upto(page, N) - Upto(page - 1, N) /\ lo = Upto(page - 1, N)
      OBVIOUS
    <3>2. IsList(inputs, k) /\ \A i \in 1 .. k : inputs[i].id = W[lo + i]
      BY <2>2, <3>1, Zenon DEF PageOf
    <3>3. k = m
      BY <1>4, <3>2, ListLen DEF IsList
    <3>4. IsList(a, k) /\ \A i \in 1 .. k : a[i].id = W[lo + i]
      BY <1>11, <1>12, <3>2, <3>3
    <3>5. Upto(page', N) - Upto(page' - 1, N) = k /\ Upto(page' - 1, N) = lo
      BY <1>7, <3>1
    <3> QED BY <1>8, <3>4, <3>5, Zenon DEF PageOf
  <2>5. \A i \in DOMAIN a : a[i].deal = book'[a[i].id]
    BY <1>7, <1>11, <1>12
  <2> QED BY <1>7, <1>8, <2>2, <2>3, <2>4, <2>5 DEF WalkSoFar
<1> QED BY <1>13, <1>14, <1>15, <1>16, <1>17 DEF ListInv

LEMMA AnswerKeeps == ListInv /\ AnswerPage => ListInv'
<1> SUFFICES ASSUME ListInv, AnswerPage PROVE ListInv'
  OBVIOUS
<1>1. /\ ListTyped /\ AllShown /\ AllRead /\ AllInputs /\ Stages /\ WalkProgress
  BY DEF ListInv
<1>2. /\ stage = "hydrated" /\ answer' = <<>> /\ inputs' = <<>> /\ page' = page + 1
      /\ stage' = IF page >= Pages(total) THEN "done" ELSE "idle"
      /\ UNCHANGED <<book, query, total, edits>>
  BY DEF AnswerPage
<1>3. TypedBook(book) /\ query \in Queries /\ page \in Nat \ {0} /\ total \in Nat
  BY <1>1 DEF ListTyped
<1>4. PICK n, m : n = Len(shown) /\ m = Len(answer)
  OBVIOUS
<1>5. /\ IsList(shown, n) /\ \A i \in 1 .. n : RowIsItsOwn(shown[i])
      /\ IsList(answer, m) /\ \A i \in 1 .. m : RawRow(answer[i])
  BY <1>1, <1>4, Zenon DEF AllShown, AllRead
<1>6. n \in Nat /\ m \in Nat /\ DOMAIN answer = 1 .. m
  BY <1>5, ListLen DEF IsList
<1>7. PICK t, all : t = [i \in DOMAIN answer |-> Enriched(answer[i])] /\ all = shown \o t
  OBVIOUS
<1>8. IsList(t, m) /\ \A i \in 1 .. m : t[i] = Enriched(answer[i])
  <2>1. \A i \in 1 .. m : t[i] = Enriched(answer[i])
    BY <1>6, <1>7
  <2>2. t = [i \in 1 .. m |-> t[i]]
    BY <1>6, <1>7, <2>1
  <2> QED BY <1>6, <2>1, <2>2 DEF IsList
<1>9. shown' = all
  BY <1>7, Zenon DEF AnswerPage
<1>10. /\ IsList(all, n + m) /\ \A i \in 1 .. n : all[i] = shown[i]
       /\ \A i \in 1 .. m : all[n + i] = t[i]
  <2>1. n \in Nat /\ IsList(shown, n) /\ m \in Nat /\ IsList(t, m)
    BY <1>5, <1>6, <1>8
  <2>2. Appends(all, shown, n, t, m)
    BY <1>7, <2>1, Appended
  <2> QED BY <2>2, Zenon DEF Appends
<1>11. ASSUME NEW i \in 1 .. m
       PROVE  /\ all[n + i].id = answer[i].id /\ all[n + i].deal = answer[i].deal
              /\ RowIsItsOwn(all[n + i])
  <2>1. PICK row : row = answer[i]
    OBVIOUS
  <2>2. all[n + i] = Enriched(row) /\ RawRow(row)
    BY <1>5, <1>8, <1>10, <2>1, Zenon
  <2>3. PICK e : e = Enriched(row)
    OBVIOUS
  <2>4. e.id = row.id /\ e.deal = row.deal /\ RowIsItsOwn(e)
    BY <2>2, <2>3, EnrichedIsItsOwn
  <2> QED BY <2>1, <2>2, <2>3, <2>4, Zenon
<1>12. \A k \in 1 .. n + m : k \in 1 .. n \/ \E i \in 1 .. m : k = n + i
  <2> SUFFICES ASSUME NEW k \in 1 .. n + m, k \notin 1 .. n PROVE \E i \in 1 .. m : k = n + i
    OBVIOUS
  <2>1. k - n \in 1 .. m /\ k = n + (k - n)
    BY <1>6
  <2> QED BY <2>1
<1>13. AllShown'
  <2>1. Len(all) = n + m
    BY <1>6, <1>10, ListLen
  <2>2. ASSUME NEW k \in 1 .. n + m
        PROVE  RowIsItsOwn(all[k])
    <3>1. CASE k \in 1 .. n
      BY <1>5, <1>10, <3>1
    <3>2. CASE \E i \in 1 .. m : k = n + i
      BY <1>11, <3>2
    <3> QED BY <1>12, <3>1, <3>2
  <2> QED BY <1>9, <1>10, <2>1, <2>2 DEF AllShown
<1>14. ListTyped'
  BY <1>1, <1>2 DEF ListTyped
<1>15. AllRead' /\ AllInputs'
  BY <1>2, NothingRead
<1>16. Stages'
  BY <1>2 DEF Stages
<1>17. WalkProgress'
  <2> SUFFICES ASSUME NEW W, NEW N, edits' = 0, W = Walk(book', query'), WalkOf(W, N, book')
               PROVE  WalkSoFar(W, N)'
    BY Zenon DEF WalkProgress
  <2>1. WalkSoFar(W, N)
    BY <1>1, <1>2 DEF WalkProgress
  <2>2. N \in Nat
    BY DEF WalkOf
  <2>3. PICK lo, hi : lo = Upto(page - 1, N) /\ hi = Upto(page, N)
    OBVIOUS
  <2>4. /\ lo \in Nat /\ hi \in Nat /\ lo <= hi
        /\ page >= Pages(N) => hi = N
    BY <1>3, <2>2, <2>3, UptoIs
  <2>5. /\ FirstOf(shown, W, lo) /\ total = N /\ PageOf(answer, W, N)
        /\ \A i \in DOMAIN answer : answer[i].deal = book[answer[i].id]
    BY <1>2, <2>1, <2>3 DEF WalkSoFar
  <2>6. /\ IsList(shown, lo) /\ \A i \in 1 .. lo : shown[i].id = W[i] /\ shown[i].deal = book[W[i]]
    BY <2>5 DEF FirstOf
  <2>7. /\ IsList(answer, hi - lo) /\ \A i \in 1 .. (hi - lo) : answer[i].id = W[lo + i]
    BY <2>3, <2>5, Zenon DEF PageOf
  <2>8. n = lo /\ m = hi - lo /\ n + m = hi
    <3>1. n = lo
      BY <1>4, <2>6, <2>4, ListLen
    <3>2. m = hi - lo
      BY <1>4, <2>7, <2>4, ListLen DEF IsList
    <3> QED BY <2>4, <3>1, <3>2
  <2>9. ASSUME NEW k \in 1 .. hi
        PROVE  all[k].id = W[k] /\ all[k].deal = book[W[k]]
    <3>1. CASE k \in 1 .. n
      BY <1>10, <2>6, <2>8, <3>1
    <3>2. CASE \E i \in 1 .. m : k = n + i
      <4>1. PICK i \in 1 .. m : k = n + i
        BY <3>2
      <4>2. all[k].id = answer[i].id /\ all[k].deal = answer[i].deal
        BY <1>11, <4>1
      <4>3. answer[i].id = W[k]
        BY <2>7, <2>8, <4>1
      <4>4. answer[i].deal = book[answer[i].id]
        BY <1>6, <2>5
      <4> QED BY <4>2, <4>3, <4>4, Zenon
    <3> QED BY <1>12, <2>8, <3>1, <3>2
  <2>10. FirstOf(all, W, hi)
    BY <1>10, <2>8, <2>9 DEF FirstOf
  <2>11. Upto(page' - 1, N) = hi
    BY <1>2, <1>3, <2>3
  <2>12. FirstOf(shown, W, Upto(page - 1, N))'
    <3>1. FirstOf(shown, W, hi)'
      BY <1>2, <1>9, <2>10 DEF FirstOf
    <3> QED BY <2>11, <3>1, Zenon DEF FirstOf
  <2>13. stage' = "done" => Upto(page' - 1, N) = N
    BY <1>2, <2>4, <2>5, <2>11
  <2> QED BY <1>2, <2>12, <2>13 DEF WalkSoFar
<1> QED BY <1>13, <1>14, <1>15, <1>16, <1>17 DEF ListInv

LEMMA EditKeeps == ListInv /\ EditDeal => ListInv'
<1> SUFFICES ASSUME ListInv, EditDeal PROVE ListInv'
  OBVIOUS
<1>1. /\ ListTyped /\ AllShown /\ AllRead /\ AllInputs /\ Stages /\ WalkProgress
  BY DEF ListInv
<1>2. /\ edits' = edits + 1
      /\ UNCHANGED <<query, page, stage, total, inputs, answer, shown>>
  BY DEF EditDeal
<1>3. PICK id \in DOMAIN book, e \in Edits : book' = [book EXCEPT ![id] = Overwritten(@, e)]
  BY DEF EditDeal
<1>4. /\ DOMAIN book' = DOMAIN book
      /\ \A x \in DOMAIN book : book'[x] = IF x = id THEN Overwritten(book[id], e) ELSE book[x]
  BY <1>3
<1>5. TypedBook(book) /\ edits \in Nat
  BY <1>1 DEF ListTyped
<1>6. MayHold(e)
  BY ListAssumption
<1>7. TypedBook(book')
  <2>1. ASSUME NEW x \in DOMAIN book
        PROVE  x \in Nat /\ IsDeal(book'[x])
    <3>1. PICK held : held = book[x]
      OBVIOUS
    <3>2. x \in Nat /\ IsDeal(held)
      BY <1>5, <3>1 DEF TypedBook
    <3>3. IsDeal(Overwritten(held, e))
      BY <1>6, <3>2, OverwrittenIsDeal
    <3>4. book'[x] = IF x = id THEN Overwritten(held, e) ELSE held
      BY <1>4, <3>1
    <3> QED BY <3>2, <3>3, <3>4
  <2> QED BY <1>4, <1>5, <2>1 DEF TypedBook
<1>8. edits' \in Nat /\ edits' # 0
  BY <1>2, <1>5
<1>9. ListTyped'
  BY <1>1, <1>2, <1>7, <1>8 DEF ListTyped
<1>10. AllShown' /\ AllRead' /\ AllInputs'
  BY <1>1, <1>2, <1>4, RowsKept
<1>11. Stages'
  BY <1>1, <1>2 DEF Stages, FiguresOverlaid
<1>12. WalkProgress'
  BY <1>8, Zenon DEF WalkProgress
<1> QED BY <1>9, <1>10, <1>11, <1>12 DEF ListInv

\* The rows a client is shown, for every book, query, page size and edit.
THEOREM ListInvariant == ListSpec => []ListInv
<1>1. ListInv /\ [ListNext]_listVars => ListInv'
  <2> SUFFICES ASSUME ListInv, [ListNext]_listVars PROVE ListInv'
    OBVIOUS
  <2>1. CASE ListNext
    BY <2>1, CountKeeps, ReadKeeps, SimulateKeeps, HydrateKeeps, AnswerKeeps, EditKeeps DEF ListNext
  <2>2. CASE UNCHANGED listVars
    <3>1. /\ ListTyped /\ AllShown /\ AllRead /\ AllInputs /\ Stages /\ WalkProgress
      BY DEF ListInv
    <3>2. UNCHANGED <<book, query, page, stage, total, inputs, answer, shown, edits>>
      BY <2>2 DEF listVars
    <3>3. ListTyped'
      BY <3>1, <3>2 DEF ListTyped
    <3>4. AllShown' /\ AllRead' /\ AllInputs'
      BY <3>1, <3>2, RowsKept
    <3>5. Stages'
      BY <3>1, <3>2 DEF Stages, FiguresOverlaid
    <3>6. WalkProgress'
      BY <3>1, <3>2 DEF WalkProgress, WalkSoFar, FirstOf, PageOf
    <3> QED BY <3>3, <3>4, <3>5, <3>6 DEF ListInv
  <2> QED BY <2>1, <2>2
<1> QED BY <1>1, ListInitInv, PTL DEF ListSpec

\* IS TRUE and IS NOT TRUE, and the two answers to the other yes/no filters.
LEMMA FiltersSplit == FiltersSplitTheBook
<1>1. TRUE # None /\ FALSE # None
  BY ListAssumption
<1> SUFFICES ASSUME NEW id \in DOMAIN book, NEW held, held = book[id]
             PROVE  /\ IsFlag(held.pending, TRUE) # IsFlag(held.pending, FALSE)
                    /\ IsFlag(held.flag, TRUE) # IsFlag(held.flag, FALSE)
                    /\ HasPitch(held.pitch, TRUE) # HasPitch(held.pitch, FALSE)
                    /\ InvolvedIn(held, TRUE, query.threads) # InvolvedIn(held, FALSE, query.threads)
  BY Zenon DEF FiltersSplitTheBook
<1>2. \A v : IsFlag(v, TRUE) # IsFlag(v, FALSE)
  BY <1>1, Zenon DEF IsFlag
<1>3. \A v : HasPitch(v, TRUE) # HasPitch(v, FALSE)
  BY <1>1, Zenon DEF HasPitch
<1>4. ASSUME NEW threads
      PROVE  InvolvedIn(held, TRUE, threads) # InvolvedIn(held, FALSE, threads)
  <2>1. /\ InvolvedIn(held, TRUE, threads) <=> held.thread \in threads
        /\ InvolvedIn(held, FALSE, threads) <=> held.thread \notin threads
    BY <1>1 DEF InvolvedIn
  <2>2. /\ InvolvedIn(held, TRUE, threads) \in BOOLEAN
        /\ InvolvedIn(held, FALSE, threads) \in BOOLEAN
    BY DEF InvolvedIn
  <2> QED BY <2>1, <2>2
<1> QED BY <1>2, <1>3, <1>4, Zenon

LEMMA InvShowsTheWalk == ListInv => WalkShowsEachDealOnce
<1> SUFFICES ASSUME ListInv, stage = "done", edits = 0, query.rate = None
             PROVE  /\ IsInjective(ShownIds)
                    /\ ToSet(ShownIds) = PlainIds
                    /\ \A i, j \in DOMAIN shown : i < j =>
                          LET vi == SortValue(shown[i].id, shown[i].deal, query)
                              vj == SortValue(shown[j].id, shown[j].deal, query)
                          IN  \/ vj = None /\ (vi = None => shown[i].id > shown[j].id)
                              \/ /\ None \notin {vi, vj}
                                 /\ IF vi = vj THEN shown[i].id > shown[j].id
                                                ELSE (vi > vj) = query.descending
  BY Zenon DEF WalkShowsEachDealOnce
<1>1. TypedBook(book) /\ query \in Queries /\ WalkProgress
  BY DEF ListInv, ListTyped
<1>2. PICK S, W, N : S = MatchingDeals(book, query) /\ W = Walk(book, query) /\ N = Cardinality(S)
  OBVIOUS
<1>3. /\ WalkOf(W, N, book)
      /\ \A x \in S : \E k \in 1 .. N : W[k] = x
      /\ \A k \in 1 .. N : W[k] \in S
      /\ \A i, j \in 1 .. N : i < j => Precedes(W[i], W[j], book, query)
  BY <1>1, <1>2, PlainWalk
<1>4. N \in Nat /\ \A i, j \in 1 .. N : W[i] = W[j] => i = j
  BY <1>3 DEF WalkOf
<1>5. WalkSoFar(W, N)
  BY <1>1, <1>2, <1>3, Zenon DEF WalkProgress
<1>6. FirstOf(shown, W, N)
  <2>1. FirstOf(shown, W, Upto(page - 1, N)) /\ Upto(page - 1, N) = N
    BY <1>5 DEF WalkSoFar
  <2> QED BY <2>1, Zenon
<1>7. DOMAIN shown = 1 .. N
  BY <1>6 DEF FirstOf, IsList
<1>8. \A i \in 1 .. N : shown[i].id = W[i] /\ shown[i].deal = book[W[i]]
  BY <1>6 DEF FirstOf
<1>9. PICK ids : ids = ShownIds
  OBVIOUS
<1>10. DOMAIN ids = 1 .. N /\ \A i \in 1 .. N : ids[i] = W[i]
  BY <1>7, <1>8, <1>9 DEF ShownIds
<1>11. IsInjective(ids)
  BY <1>4, <1>10 DEF IsInjective
<1>12. ToSet(ids) = S
  <2>1. ToSet(ids) = {W[i] : i \in 1 .. N}
    BY <1>10 DEF ToSet
  <2> QED BY <1>3, <2>1
<1>13. ASSUME NEW i \in DOMAIN shown, NEW j \in DOMAIN shown, i < j,
              NEW vi, vi = SortValue(shown[i].id, shown[i].deal, query),
              NEW vj, vj = SortValue(shown[j].id, shown[j].deal, query)
       PROVE  \/ vj = None /\ (vi = None => shown[i].id > shown[j].id)
              \/ /\ None \notin {vi, vj}
                 /\ IF vi = vj THEN shown[i].id > shown[j].id
                               ELSE (vi > vj) = query.descending
  <2>1. PICK x, y : x = W[i] /\ y = W[j]
    OBVIOUS
  <2>2. i \in 1 .. N /\ j \in 1 .. N
    BY <1>7
  <2>3. /\ shown[i].id = x /\ shown[i].deal = book[x]
        /\ shown[j].id = y /\ shown[j].deal = book[y]
    BY <1>8, <2>1, <2>2
  <2>4. Precedes(x, y, book, query)
    BY <1>3, <1>13, <2>1, <2>2
  <2>5. vi = SortValue(x, book[x], query) /\ vj = SortValue(y, book[y], query)
    BY <1>13, <2>3, Zenon
  <2>6. IF vi = vj THEN x > y
        ELSE IF None \in {vi, vj} THEN vj = None
        ELSE IF query.descending THEN vi > vj ELSE vi < vj
    BY <2>4, <2>5, Zenon DEF Precedes
  <2>7. NumberOrNone(vi) /\ NumberOrNone(vj)
    <3>1. x \in DOMAIN book /\ y \in DOMAIN book
      BY <1>3, <2>1, <2>2 DEF WalkOf
    <3>2. PICK d, e : d = book[x] /\ e = book[y]
      OBVIOUS
    <3>3. x \in Nat /\ y \in Nat /\ IsDeal(d) /\ IsDeal(e)
      BY <1>1, <3>1, <3>2 DEF TypedBook
    <3> QED BY <1>1, <2>5, <3>2, <3>3, SortValueTyped
  <2>8. (vi = None \/ vi \in Int) /\ (vj = None \/ vj \in Int)
    BY <2>7 DEF NumberOrNone
  <2>9. query.descending \in BOOLEAN
    BY <1>1, ListAssumption
  <2>10. \/ vj = None /\ (vi = None => x > y)
         \/ /\ None \notin {vi, vj}
            /\ IF vi = vj THEN x > y ELSE (vi > vj) = query.descending
    BY <2>6, <2>8, <2>9
  <2> QED BY <2>3, <2>10, Zenon
<1>14. ToSet(ShownIds) = PlainIds /\ IsInjective(ShownIds)
  BY <1>2, <1>9, <1>11, <1>12, Zenon DEF PlainIds
<1> QED BY <1>13, <1>14, ZenonT(30)

LEMMA InvKeepsTheOrder == ListInv => SimulationKeepsTheOrder
<1> SUFFICES ASSUME ListInv, stage = "done", edits = 0, query.rate = "same"
             PROVE  ShownIds = Ordered(PlainIds \cap Alive, book, query)
  BY Zenon DEF SimulationKeepsTheOrder
<1>1. TypedBook(book) /\ query \in Queries /\ WalkProgress /\ book \in Books
  BY DEF ListInv, ListTyped
<1>2. query.rate # None
  BY ListAssumption DEF Rates
<1>3. PICK W, S : W = Walk(book, query) /\ S = PlainIds \cap Alive
  OBVIOUS
<1>4. PICK N : /\ WalkOf(W, N, book) /\ Lists(W, N, CandidateIds(book, query))
               /\ \A i, j \in 1 .. N : i < j =>
                     RowFirst(Recalculate(W[i], book[W[i]], query),
                              Recalculate(W[j], book[W[j]], query), query)
  <2>1. PICK C : C = Candidates(book, query)
    OBVIOUS
  <2> QED BY <1>1, <1>2, <1>3, <2>1, SimulatedWalk
<1>5. W = Ordered(S, book, query)
  <2>1. S = MatchingDeals(book, query) \cap {id \in DOMAIN book : book[id].status \notin Excluded}
    BY <1>3, Zenon DEF PlainIds, Alive
  <2> QED BY <1>1, <1>4, <2>1, SameRateIsPlain
<1>6. WalkSoFar(W, N)
  BY <1>1, <1>3, <1>4, Zenon DEF WalkProgress
<1>7. FirstOf(shown, W, N)
  <2>1. FirstOf(shown, W, Upto(page - 1, N)) /\ Upto(page - 1, N) = N
    BY <1>6 DEF WalkSoFar
  <2> QED BY <2>1, Zenon
<1>8. DOMAIN shown = 1 .. N
  BY <1>7 DEF FirstOf, IsList
<1>9. \A i \in 1 .. N : shown[i].id = W[i]
  BY <1>7 DEF FirstOf
<1>10. W = [i \in 1 .. N |-> W[i]]
  BY <1>4 DEF WalkOf, IsList
<1>11. ShownIds = [i \in 1 .. N |-> W[i]]
  BY <1>8, <1>9 DEF ShownIds
<1> QED BY <1>3, <1>5, <1>10, <1>11, Zenon

LEMMA InvRowsTheirOwn == ListInv => RowsAreTheirOwn
<1> SUFFICES ASSUME ListInv PROVE RowsAreTheirOwn
  OBVIOUS
<1>1. AllShown /\ AllInputs /\ Stages
  BY DEF ListInv
<1>2. ASSUME stage = "hydrated", NEW i \in DOMAIN inputs, NEW k \in DOMAIN answer,
             answer[k].id = inputs[i].id, inputs[i].simulated
      PROVE  answer[k].oop = inputs[i].oop
  <2>1. inputs # <<>>
    BY <1>2
  <2>2. FiguresOverlaid
    BY <1>1, <1>2, <2>1 DEF Stages
  <2>3. k \in DOMAIN inputs /\ answer[k].id = inputs[k].id
    BY <1>2, <2>2 DEF FiguresOverlaid
  <2>4. DOMAIN inputs = 1 .. Len(inputs) /\ \A g, h \in 1 .. Len(inputs) : inputs[g].id = inputs[h].id => g = h
    BY <1>1, ListLen DEF AllInputs, IsList
  <2>5. i = k
    BY <1>2, <2>3, <2>4
  <2> QED BY <1>2, <2>2, <2>5 DEF FiguresOverlaid
<1>3. ASSUME NEW i \in DOMAIN shown
      PROVE  RowIsItsOwn(shown[i])
  <2>1. DOMAIN shown = 1 .. Len(shown)
    BY <1>1 DEF AllShown, IsList
  <2> QED BY <1>1, <2>1 DEF AllShown
<1> QED BY <1>2, <1>3, Zenon DEF RowsAreTheirOwn, RowIsItsOwn

\* What every list shows, for every book, query, page size and edit: a walk shows each
\* deal once and in order, a simulation that changes no figure is the plain list, the
\* filters lose no deal and every row is its own deal's.
THEOREM ListsAreSafe == ListSpec => []ListSafety
<1>1. ListInv => ListSafety
  BY FiltersSplit, InvShowsTheWalk, InvKeepsTheOrder, InvRowsTheirOwn DEF ListSafety
<1> QED BY <1>1, ListInvariant, PTL

=============================================================================
