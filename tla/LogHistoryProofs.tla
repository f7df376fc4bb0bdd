--------------------------- MODULE LogHistoryProofs ---------------------------
(***************************************************************************)
(* Proof that the committed log implements StatusHistory: what get_chain   *)
(* returns only ever grows at its end, and no status follows itself.       *)
(*                                                                         *)
(* Ids place the rows of a subject one to one on 1 .. n; a commit adds     *)
(* rows with higher ids only, so it moves none of the places taken; and    *)
(* neighbours are linked, because id order is chain order.                 *)
(***************************************************************************)
EXTENDS LogHistory, ProcessLogProofs, SequenceTheorems

-----------------------------------------------------------------------------
(***************************************************************************)
(* Ordering a finite set of rows by id.                                    *)
(***************************************************************************)

\* Rows that can be ordered by id.
Ordered(rows) ==
    /\ IsFiniteSet(rows)
    /\ \A r \in rows : r.id \in Nat
    /\ \A r, q \in rows : r.id = q.id => r = q

LEMMA PlaceInRange ==
    ASSUME NEW rows, Ordered(rows)
    PROVE  /\ Cardinality(rows) \in Nat
           /\ \A r \in rows : Place(rows, r) \in 1 .. Cardinality(rows)
<1>1. Cardinality(rows) \in Nat
  BY FS_CardinalityType DEF Ordered
<1>2. ASSUME NEW r \in rows
      PROVE  Place(rows, r) \in 1 .. Cardinality(rows)
  <2> DEFINE before == {q \in rows : q.id < r.id}
  <2>1. before \in SUBSET rows /\ r \notin before
    BY DEF Ordered
  <2>2. before # rows
    BY <2>1
  <2> HIDE DEF before
  <2>3. IsFiniteSet(before) /\ Cardinality(before) <= Cardinality(rows)
        /\ Cardinality(before) # Cardinality(rows)
    BY <2>1, <2>2, FS_Subset DEF Ordered
  <2>4. Cardinality(before) \in Nat
    BY <2>3, FS_CardinalityType
  <2>5. Cardinality(before) + 1 \in 1 .. Cardinality(rows)
    BY <1>1, <2>3, <2>4
  <2> QED BY <2>5 DEF Place, before
<1> QED BY <1>1, <1>2

LEMMA PlaceFollowsId ==
    ASSUME NEW rows, Ordered(rows), NEW r \in rows, NEW q \in rows, r.id < q.id
    PROVE  Place(rows, r) < Place(rows, q)
<1> DEFINE before(p) == {x \in rows : x.id < p.id}
<1>1. \A x \in rows : x.id < r.id => x.id < q.id
  BY DEF Ordered
<1>2. before(r) \in SUBSET before(q) /\ r \in before(q) /\ r \notin before(r)
  BY <1>1 DEF Ordered
<1>3. before(r) # before(q) /\ before(q) \in SUBSET rows /\ before(r) \in SUBSET rows
  BY <1>2
<1> HIDE DEF before
<1>4. IsFiniteSet(before(q)) /\ IsFiniteSet(before(r))
  BY <1>3, FS_Subset DEF Ordered
<1>5. Cardinality(before(r)) <= Cardinality(before(q))
      /\ Cardinality(before(r)) # Cardinality(before(q))
  BY <1>2, <1>3, <1>4, FS_Subset
<1>6. Cardinality(before(r)) \in Nat /\ Cardinality(before(q)) \in Nat
  BY <1>4, FS_CardinalityType
<1>7. Cardinality(before(r)) + 1 < Cardinality(before(q)) + 1
  BY <1>5, <1>6
<1> QED BY <1>7 DEF Place, before

\* Places tell rows apart, and none is left out.
LEMMA PlacesTaken ==
    ASSUME NEW rows, Ordered(rows)
    PROVE  /\ \A r, q \in rows : Place(rows, r) = Place(rows, q) => r = q
           /\ \A i \in 1 .. Cardinality(rows) : \E r \in rows : Place(rows, r) = i
<1> DEFINE f == [r \in rows |-> Place(rows, r)]
           n == Cardinality(rows)
<1>1. ASSUME NEW r \in rows, NEW q \in rows, Place(rows, r) = Place(rows, q)
      PROVE  r = q
  <2>1. Place(rows, r) \in Nat /\ Place(rows, q) \in Nat /\ r.id \in Nat /\ q.id \in Nat
    BY PlaceInRange DEF Ordered
  <2>2. ~(r.id < q.id) /\ ~(q.id < r.id)
    BY <1>1, <2>1, PlaceFollowsId
  <2> QED BY <2>1, <2>2 DEF Ordered
<1>2. n \in Nat /\ f \in [rows -> 1 .. n]
  BY PlaceInRange
<1>3. f \in Injection(rows, 1 .. n)
  BY <1>1, <1>2 DEF Injection, IsInjective
<1>4. IsFiniteSet(1 .. n) /\ Cardinality(1 .. n) = n
  BY <1>2, FS_Interval
<1>5. f \in Surjection(rows, 1 .. n)
  BY <1>3, <1>4, FS_Injection
<1>6. \A i \in 1 .. n : \E r \in rows : f[r] = i
  BY <1>5 DEF Surjection
<1> QED BY <1>1, <1>6

\* The i-th row is the one in place i.
LEMMA InOrderRows ==
    ASSUME NEW rows, Ordered(rows)
    PROVE  /\ InOrder(rows) \in Seq(rows) /\ Len(InOrder(rows)) = Cardinality(rows)
           /\ \A i \in 1 .. Cardinality(rows) : Place(rows, InOrder(rows)[i]) = i
           /\ \A r \in rows : InOrder(rows)[Place(rows, r)] = r
<1> DEFINE n == Cardinality(rows)
<1>1. n \in Nat
  BY PlaceInRange
<1>2. ASSUME NEW i \in 1 .. n
      PROVE  InOrder(rows)[i] \in rows /\ Place(rows, InOrder(rows)[i]) = i
  <2>1. \E r \in rows : Place(rows, r) = i
    BY PlacesTaken
  <2>2. InOrder(rows)[i] = CHOOSE r \in rows : Place(rows, r) = i
    BY DEF InOrder
  <2> QED BY <2>1, <2>2
<1>3. InOrder(rows) \in [1 .. n -> rows]
  BY <1>2 DEF InOrder
<1>4. InOrder(rows) \in Seq(rows) /\ Len(InOrder(rows)) = n
  BY <1>1, <1>3
<1>5. ASSUME NEW r \in rows
      PROVE  InOrder(rows)[Place(rows, r)] = r
  <2>1. Place(rows, r) \in 1 .. n
    BY PlaceInRange
  <2> QED BY <1>2, <2>1, PlacesTaken
<1> QED BY <1>2, <1>4, <1>5

\* Rows with higher ids come after those there were.
LEMMA InOrderGrows ==
    ASSUME NEW rows, NEW more, Ordered(more), rows \subseteq more,
           \A r \in rows, q \in more \ rows : r.id < q.id
    PROVE  /\ Ordered(rows) /\ Cardinality(rows) <= Cardinality(more)
           /\ \A i \in 1 .. Cardinality(rows) : InOrder(more)[i] = InOrder(rows)[i]
<1>1. Ordered(rows) /\ Cardinality(rows) <= Cardinality(more)
  BY FS_Subset DEF Ordered
<1>2. ASSUME NEW r \in rows
      PROVE  Place(more, r) = Place(rows, r)
  <2>1. \A q \in more \ rows : ~(q.id < r.id)
    BY DEF Ordered
  <2>2. {q \in more : q.id < r.id} = {q \in rows : q.id < r.id}
    BY <2>1
  <2> QED BY <2>2 DEF Place
<1>3. ASSUME NEW i \in 1 .. Cardinality(rows)
      PROVE  InOrder(more)[i] = InOrder(rows)[i]
  <2>1. InOrder(rows)[i] \in rows /\ Place(rows, InOrder(rows)[i]) = i
    BY <1>1, InOrderRows
  <2>2. InOrder(rows)[i] \in more /\ Place(more, InOrder(rows)[i]) = i
    BY <1>2, <2>1
  <2> QED BY <2>2, InOrderRows
<1> QED BY <1>1, <1>3

-----------------------------------------------------------------------------
(***************************************************************************)
(* The histories of the log.                                               *)
(***************************************************************************)

ChainsOrdered == \A s \in Subjects : Ordered(RowsOf(transitions, s))

LEMMA LogOrdered == LogInv => ChainsOrdered
<1> SUFFICES ASSUME LogInv, NEW s \in Subjects PROVE Ordered(RowsOf(transitions, s))
  BY DEF ChainsOrdered
<1>1. RowsTyped /\ ChainRows
  BY LogInvRows
<1>2. IsFiniteSet(transitions) /\ RowsOf(transitions, s) \in SUBSET transitions
  BY <1>1, RowsAreFinite DEF ChainRows, RowsOf
<1>3. \A r \in transitions : r \in AllRows /\ r.id \in Nat
  BY <1>1, AllRowsTyped, RowFields DEF AllRows
<1> QED BY <1>1, <1>2, <1>3, FS_Subset DEF Ordered, ChainRows, IdsUnique

\* The statuses are those of the rows, in the order of their ids.
LEMMA HistoryRows ==
    ASSUME NEW rows, Ordered(rows), rows \subseteq Row
    PROVE  /\ StatusesOf(rows) \in Seq(Statuses) /\ Len(StatusesOf(rows)) = Cardinality(rows)
           /\ \A i \in 1 .. Cardinality(rows) : StatusesOf(rows)[i] = InOrder(rows)[i].to
<1> DEFINE n == Cardinality(rows)
<1>1. InOrder(rows) \in Seq(rows) /\ Len(InOrder(rows)) = n /\ n \in Nat
  BY InOrderRows, PlaceInRange
<1>2. DOMAIN InOrder(rows) = 1 .. n /\ \A i \in 1 .. n : InOrder(rows)[i] \in rows
  BY <1>1
<1>3. StatusesOf(rows) = [i \in 1 .. n |-> InOrder(rows)[i].to]
  BY <1>2 DEF StatusesOf
<1>4. \A i \in 1 .. n : InOrder(rows)[i].to \in Statuses
  BY <1>2, RowFields
<1> QED BY <1>1, <1>3, <1>4

\* Neighbours are linked, so they differ.
LEMMA HistoriesDiffer ==
    LogInv => \A s \in Subjects : History!NoRepeats(HistoryOf(s))
<1> SUFFICES ASSUME LogInv, NEW s \in Subjects,
                    NEW i \in 1 .. Len(HistoryOf(s)) - 1
             PROVE  HistoryOf(s)[i] # HistoryOf(s)[i + 1]
  BY DEF History!NoRepeats
<1> DEFINE rows == RowsOf(transitions, s)
           r == InOrder(rows)[i]
           q == InOrder(rows)[i + 1]
<1>1. RowsTyped /\ ChainRows /\ Ordered(rows)
  BY LogInvRows, LogOrdered DEF ChainsOrdered
<1>2. rows \subseteq transitions /\ rows \subseteq Row /\ \A p \in rows : p.subject = s
  BY <1>1 DEF RowsTyped, RowsOf
<1>3. HistoryOf(s) = StatusesOf(rows) /\ Len(StatusesOf(rows)) = Cardinality(rows)
  BY <1>1, <1>2, HistoryRows DEF HistoryOf
<1>4. Cardinality(rows) \in Nat
  BY <1>1, PlaceInRange
<1>5. i \in 1 .. Cardinality(rows) /\ i + 1 \in 1 .. Cardinality(rows) /\ i \in Nat
  BY <1>3, <1>4
<1>6. HistoryOf(s)[i] = r.to /\ HistoryOf(s)[i + 1] = q.to
  BY <1>1, <1>2, <1>3, <1>5, HistoryRows
<1>7. /\ r \in rows /\ q \in rows
      /\ Place(rows, r) = i /\ Place(rows, q) = i + 1
  BY <1>1, <1>5, InOrderRows
<1> HIDE DEF rows, r, q
<1>8. r.id \in Nat /\ q.id \in Nat /\ r.id < q.id
  <2>1. r.id \in Nat /\ q.id \in Nat
    BY <1>2, <1>7, RowFields
  <2>2. r.id # q.id
    BY <1>1, <1>5, <1>7 DEF Ordered
  <2>3. ~(q.id < r.id)
    BY <1>1, <1>5, <1>7, PlaceFollowsId
  <2> QED BY <2>1, <2>2, <2>3
<1>9. PICK n \in transitions : n.subject = s /\ n.prev = r.id /\ n.id <= q.id
  BY <1>2, <1>7, <1>8, IdOrder DEF IdOrderIsChainOrder
<1>10. /\ n.from = r.to /\ n.from # n.to /\ r.id < n.id
  <2>1. n.prev # NoRow /\ r \in transitions
    BY <1>2, <1>7, <1>9, RowFields
  <2>2. LinkedIn(n, transitions)
    BY <1>1 DEF ChainRows, RowsLinked
  <2>3. PICK p \in transitions : p.id = r.id /\ p.id < n.id /\ p.to = n.from
    BY <1>9, <2>1, <2>2 DEF LinkedIn
  <2>4. p = r
    BY <1>1, <2>1, <2>3, AllRowsSplit DEF ChainRows, IdsUnique
  <2> QED BY <2>2, <2>3, <2>4 DEF LinkedIn
<1>11. n = q
  <2>1. n \in rows
    BY <1>9 DEF rows, RowsOf
  <2>2. Place(rows, n) \in Nat /\ Place(rows, r) < Place(rows, n)
    BY <1>1, <1>7, <1>10, <2>1, PlaceFollowsId, PlaceInRange
  <2>3. n.id \in Nat
    BY <1>2, <2>1, RowFields
  <2>4. ~(n.id < q.id)
    <3>1. n.id < q.id => Place(rows, n) < Place(rows, q)
      BY <1>1, <1>7, <2>1, PlaceFollowsId
    <3> QED BY <1>5, <1>7, <2>2, <3>1
  <2>5. n.id = q.id
    BY <1>8, <1>9, <2>3, <2>4
  <2> QED BY <1>1, <1>7, <2>1, <2>5 DEF Ordered
<1> QED BY <1>6, <1>10, <1>11

\* A commit adds rows with higher ids.
LEMMA CommitsFollow ==
    ASSUME LogInv, [LogNext]_logVars
    PROVE  /\ transitions \subseteq transitions'
           /\ \A r \in transitions, q \in transitions' \ transitions :
                r.subject = q.subject => r.id < q.id
<1>1. ASSUME NEW tx \in Txs, CommitLog(tx)
      PROVE  /\ transitions \subseteq transitions'
             /\ \A r \in transitions, q \in transitions' \ transitions :
                  r.subject = q.subject => r.id < q.id
  <2>1. OneWriter /\ transitions' = transitions \cup pending[tx]
    BY <1>1, LogInvRows DEF ChainRows, CommitLog
  <2> QED BY <2>1 DEF OneWriter
<1>2. ASSUME NEW tx \in Txs, AnyRecord(tx) \/ ContinueRecord(tx) \/ AnySeed(tx)
             \/ RollbackLog(tx)
      PROVE  transitions' = transitions
  BY <1>2 DEF AnyRecord, RecordTransition, ContinueRecord, RepairDrift, UpsertSnapshot,
              AppendTransition, InsertTransition, AnySeed, SeedSnapshot, SeedHead,
              RollbackLog
<1>3. UNCHANGED logVars => transitions' = transitions
  BY DEF logVars
<1> QED BY <1>1, <1>2, <1>3 DEF LogNext

LEMMA GrownIsPrefix ==
    ASSUME NEW S, NEW h \in Seq(S), NEW k \in Seq(S), Len(h) <= Len(k),
           \A i \in 1 .. Len(h) : h[i] = k[i]
    PROVE  History!IsPrefix(h, k)
<1>1. SubSeq(h, 1, Len(h)) = h
  BY SubSeqFull
<1>2. /\ SubSeq(k, 1, Len(h)) \in Seq(S)
      /\ Len(SubSeq(k, 1, Len(h))) = Len(h)
      /\ \A i \in 1 .. Len(h) : SubSeq(k, 1, Len(h))[i] = k[i]
  BY SubSeqProperties
<1>3. SubSeq(k, 1, Len(h)) = h
  BY <1>2
<1> QED BY <1>1, <1>3 DEF History!IsPrefix

LEMMA HistoriesGrow ==
    ASSUME LogInv, LogInv', [LogNext]_logVars, NEW s \in Subjects
    PROVE  History!IsPrefix(HistoryOf(s), HistoryOf(s)')
<1> DEFINE rows == RowsOf(transitions, s)
           more == RowsOf(transitions', s)
<1>1. Ordered(rows) /\ rows \subseteq Row
  BY LogOrdered, LogInvRows DEF ChainsOrdered, RowsTyped, RowsOf
<1>2. Ordered(more) /\ more \subseteq Row
  <2>1. (LogInv => ChainsOrdered)'
    BY LogOrdered, PTL
  <2>2. transitions' \subseteq Row
    BY DEF LogInv, ChainInv, LogTypeOK
  <2> QED BY <2>1, <2>2 DEF ChainsOrdered, RowsOf
<1>3. rows \subseteq more /\ \A r \in rows, q \in more \ rows : r.id < q.id
  BY CommitsFollow DEF RowsOf
<1>4. /\ Cardinality(rows) <= Cardinality(more)
      /\ \A i \in 1 .. Cardinality(rows) : InOrder(more)[i] = InOrder(rows)[i]
  BY <1>2, <1>3, InOrderGrows
<1>5. /\ StatusesOf(rows) \in Seq(Statuses) /\ Len(StatusesOf(rows)) = Cardinality(rows)
      /\ \A i \in 1 .. Cardinality(rows) : StatusesOf(rows)[i] = InOrder(rows)[i].to
  BY <1>1, HistoryRows
<1>6. /\ StatusesOf(more) \in Seq(Statuses) /\ Len(StatusesOf(more)) = Cardinality(more)
      /\ \A i \in 1 .. Cardinality(more) : StatusesOf(more)[i] = InOrder(more)[i].to
  BY <1>2, HistoryRows
<1>7. Cardinality(rows) \in Nat /\ Cardinality(more) \in Nat
  BY <1>1, <1>2, PlaceInRange
<1>8. \A i \in 1 .. Cardinality(rows) : StatusesOf(rows)[i] = StatusesOf(more)[i]
  BY <1>4, <1>5, <1>6, <1>7
<1> HIDE DEF rows, more
<1>9. History!IsPrefix(StatusesOf(rows), StatusesOf(more))
  BY <1>4, <1>5, <1>6, <1>8, GrownIsPrefix
<1> QED BY <1>9 DEF HistoryOf, rows, more

\* The committed log implements StatusHistory: whatever the transactions do, what
\* get_chain returns for a subject is only ever appended to, and no status
\* follows itself.
THEOREM LogImplementsHistory == LogSpec => ImplementsHistory
<1>1. LogInit => History!Init
  <2> SUFFICES ASSUME LogInit PROVE History!Init
    OBVIOUS
  <2>1. \A s \in Subjects : HistoryOf(s) = <<>>
    <3> SUFFICES ASSUME NEW s \in Subjects PROVE HistoryOf(s) = <<>>
      OBVIOUS
    <3>1. RowsOf(transitions, s) = {}
      BY DEF LogInit, RowsOf
    <3>2. Ordered({}) /\ Cardinality({}) = 0
      BY FS_EmptySet DEF Ordered
    <3>3. HistoryOf(s) \in Seq(Statuses) /\ Len(HistoryOf(s)) = 0
      BY <3>1, <3>2, HistoryRows DEF HistoryOf
    <3> QED BY <3>3
  <2> QED BY <2>1 DEF History!Init
<1>2. LogInv /\ LogInv' /\ [LogNext]_logVars =>
        [History!Append_]_[s \in Subjects |-> HistoryOf(s)]
  <2> SUFFICES ASSUME LogInv, LogInv', [LogNext]_logVars PROVE History!Append_
    OBVIOUS
  <2>1. \A s \in Subjects : History!IsPrefix(HistoryOf(s), HistoryOf(s)')
    BY HistoriesGrow
  <2>2. (LogInv => \A s \in Subjects : History!NoRepeats(HistoryOf(s)))'
    BY HistoriesDiffer, PTL
  <2> QED BY <2>1, <2>2 DEF History!Append_
<1> QED BY <1>1, <1>2, LogInvariant, PTL DEF LogSpec, ImplementsHistory, History!Spec

=============================================================================
