--------------------------- MODULE ProcessLogProofs ---------------------------
(***************************************************************************)
(* Proofs about ProcessLog: LogInv is an invariant for every number of     *)
(* subjects, statuses, payloads and transactions and every length of the   *)
(* log, and the properties the runs check follow from it.                  *)
(*                                                                         *)
(* The argument has one hard step, a row being added (AddRow).  The rows   *)
(* of a subject, uncommitted ones included, form one chain whose order is  *)
(* id order; a writer that saw a stale tail finds its key taken, or waits  *)
(* for whoever holds it, so a row that does go in follows the last row.    *)
(***************************************************************************)
EXTENDS ProcessLog, FiniteSetTheorems, WellFoundedInduction, TLAPS

RowsTyped ==
    /\ transitions \subseteq Row
    /\ pending \in [Txs -> SUBSET Row]
    /\ nextId \in Nat \ {NoRow}

ChainRows ==
    /\ IdsUnique
    /\ RowsLinked
    /\ RowsHeaded
    /\ KeysUnique
    /\ RowsChained
    /\ OneWriter

\* Transaction tx gains row r, linked to what it sees; no key is in the way.
AddsRow(tx, r) ==
    /\ r \in Row
    /\ r.id = nextId
    /\ LinkedIn(r, Visible(tx))
    /\ ~InsertWaits(tx, r)
    /\ \A q \in Visible(tx) : ~SameKey(r, q)
    /\ nextId' = nextId + 1
    /\ transitions' = transitions
    /\ pending' = [pending EXCEPT ![tx] = @ \cup {r}]

-----------------------------------------------------------------------------
(***************************************************************************)
(* Facts about rows.                                                       *)
(***************************************************************************)

LEMMA RowFields ==
    ASSUME NEW r \in Row
    PROVE  /\ r.id \in Nat /\ r.id # NoRow
           /\ r.prev \in Nat
           /\ r.subject \in Subjects
           /\ r.to \in Statuses
           /\ r.to # None
  BY NoneAssumption DEF Row

LEMMA AllRowsTyped ==
    ASSUME RowsTyped, NEW r \in AllRows
    PROVE  r \in Row
  BY DEF RowsTyped, AllRows

\* Every row is visible to someone.
LEMMA AllRowsSplit ==
    ASSUME NEW r
    PROVE  r \in AllRows <=> \/ r \in transitions
                             \/ \E tx \in Txs : r \in pending[tx]
  BY DEF AllRows

LEMMA VisibleInAll ==
    ASSUME NEW tx \in Txs, NEW r \in Visible(tx)
    PROVE  r \in AllRows
  BY AllRowsSplit DEF Visible

\* A row every writer can see is linked and headed for its writer.
LEMMA EveryRowHeaded ==
    ASSUME RowsHeaded, NEW r \in AllRows
    PROVE  \E h \in AllRows : h.prev = NoRow /\ h.subject = r.subject
<1>1. CASE r \in transitions
  <2>1. PICK h \in Heads(transitions, r.subject) : TRUE
    BY <1>1 DEF RowsHeaded
  <2> QED BY <2>1, AllRowsSplit DEF Heads, RowsOf
<1>2. CASE \E tx \in Txs : r \in pending[tx]
  <2>1. PICK tx \in Txs : r \in pending[tx]
    BY <1>2
  <2>2. PICK h \in Heads(Visible(tx), r.subject) : TRUE
    BY <2>1 DEF RowsHeaded
  <2> QED BY <2>2, VisibleInAll DEF Heads, RowsOf
<1> QED BY <1>1, <1>2, AllRowsSplit

LEMMA SameKeySymmetric ==
    ASSUME NEW r, NEW q
    PROVE  SameKey(r, q) <=> SameKey(q, r)
  BY DEF SameKey

-----------------------------------------------------------------------------
(***************************************************************************)
(* Adding a row.                                                           *)
(***************************************************************************)

\* The key of the new row is free, in uncommitted rows too.
LEMMA KeyFree ==
    ASSUME NEW tx \in Txs, NEW r, AddsRow(tx, r), NEW q \in AllRows
    PROVE  ~SameKey(r, q)
<1>1. CASE q \in Visible(tx)
  BY <1>1 DEF AddsRow
<1>2. CASE q \notin Visible(tx)
  <2>1. PICK other \in Txs : q \in pending[other]
    BY <1>2, AllRowsSplit DEF Visible
  <2>2. other # tx
    BY <1>2, <2>1 DEF Visible
  <2> QED BY <2>1, <2>2 DEF AddsRow, InsertWaits
<1> QED BY <1>1, <1>2

\* If its subject has rows, the new row follows the last of them.
LEMMA FollowsLast ==
    ASSUME RowsTyped, ChainRows,
           NEW tx \in Txs, NEW r, AddsRow(tx, r),
           NEW q \in AllRows, q.subject = r.subject
    PROVE  \E p \in Visible(tx) :
             /\ p.id = r.prev /\ p.subject = r.subject
             /\ q.id <= p.id
<1>1. r.prev # NoRow
  <2> SUFFICES ASSUME r.prev = NoRow PROVE FALSE
    OBVIOUS
  <2>1. PICK h \in AllRows : h.prev = NoRow /\ h.subject = q.subject
    BY EveryRowHeaded DEF ChainRows
  <2>2. SameKey(r, h)
    BY <2>1 DEF SameKey
  <2> QED BY <2>1, <2>2, KeyFree
<1>2. PICK p \in Visible(tx) : p.id = r.prev /\ p.subject = r.subject
  BY <1>1 DEF AddsRow, LinkedIn
<1>3. p \in AllRows /\ p \in Row /\ q \in Row
  BY VisibleInAll, AllRowsTyped
<1>4. ~(p.id < q.id)
  <2> SUFFICES ASSUME p.id < q.id PROVE FALSE
    OBVIOUS
  <2>1. PICK n \in AllRows : n.prev = p.id
    BY <1>2, <1>3 DEF ChainRows, RowsChained
  <2>2. SameKey(r, n)
    BY <1>1, <1>2, <2>1 DEF SameKey
  <2> QED BY <2>2, KeyFree
<1>5. q.id <= p.id
  BY <1>3, <1>4, RowFields
<1> QED BY <1>2, <1>5

\* No other open transaction has rows of its subject.
LEMMA SoleWriter ==
    ASSUME RowsTyped, ChainRows,
           NEW tx \in Txs, NEW r, AddsRow(tx, r),
           NEW other \in Txs, other # tx, NEW q \in pending[other]
    PROVE  q.subject # r.subject
<1> SUFFICES ASSUME q.subject = r.subject PROVE FALSE
  OBVIOUS
<1>1. q \in AllRows
  BY AllRowsSplit
<1>2. PICK p \in Visible(tx) : p.subject = r.subject /\ q.id <= p.id
  BY <1>1, FollowsLast
<1>3. p.id \in Nat /\ q.id \in Nat
  BY <1>1, VisibleInAll, AllRowsTyped, RowFields
<1>4. CASE p \in transitions
  BY <1>2, <1>3, <1>4 DEF ChainRows, OneWriter
<1>5. CASE p \in pending[tx]
  BY <1>2, <1>5 DEF ChainRows, OneWriter
<1> QED BY <1>4, <1>5 DEF Visible

LEMMA AddRow ==
    ASSUME RowsTyped, ChainRows, NEW tx \in Txs, NEW r, AddsRow(tx, r)
    PROVE  RowsTyped' /\ ChainRows'
<1>1. RowsTyped'
  BY DEF RowsTyped, AddsRow, NoRow
<1>2. \A t \in Txs : pending'[t] = IF t = tx THEN pending[t] \cup {r} ELSE pending[t]
  BY DEF RowsTyped, AddsRow
<1>3. \A q : q \in AllRows' <=> q \in AllRows \/ q = r
  BY <1>2 DEF AllRows, AddsRow
<1>4. \A t \in Txs : Visible(t)' = IF t = tx THEN Visible(t) \cup {r} ELSE Visible(t)
  BY <1>2 DEF Visible, AddsRow
<1>5. /\ r.id = nextId /\ nextId \in Nat /\ nextId' = nextId + 1
      /\ transitions' = transitions
      /\ r \in Row
  BY DEF RowsTyped, AddsRow
<1>6. \A q \in AllRows : q.id \in Nat /\ q.id < nextId
  BY AllRowsTyped, RowFields DEF ChainRows, IdsUnique
<1>7. IdsUnique'
  BY <1>3, <1>5, <1>6 DEF ChainRows, IdsUnique
<1>8. RowsLinked'
  <2>1. \A q \in transitions' : LinkedIn(q, transitions)'
    BY <1>5 DEF ChainRows, RowsLinked, LinkedIn
  <2>2. ASSUME NEW t \in Txs, NEW q \in pending'[t]
        PROVE  LinkedIn(q, Visible(t)')
    <3>1. LinkedIn(q, Visible(t))
      BY <1>2, <2>2 DEF ChainRows, RowsLinked, AddsRow
    <3>2. Visible(t) \subseteq Visible(t)'
      BY <1>4
    <3> QED BY <3>1, <3>2 DEF LinkedIn
  <2> QED BY <2>1, <2>2 DEF RowsLinked, LinkedIn
<1>9. RowsHeaded'
  <2>1. \A q \in transitions' : Heads(transitions, q.subject)' # {}
    BY <1>5 DEF ChainRows, RowsHeaded, Heads, RowsOf
  <2>2. ASSUME NEW t \in Txs, NEW q \in pending'[t]
        PROVE  Heads(Visible(t)', q.subject) # {}
    <3>1. CASE q \in pending[t]
      BY <1>4, <3>1 DEF ChainRows, RowsHeaded, Heads, RowsOf
    <3>2. CASE t = tx /\ q = r
      <4>1. CASE r.prev = NoRow
        BY <1>4, <3>2, <4>1 DEF Heads, RowsOf
      <4>2. CASE r.prev # NoRow
        <5>1. PICK p \in Visible(tx) : p.subject = r.subject
          BY <4>2 DEF AddsRow, LinkedIn
        <5>2. Heads(Visible(tx), p.subject) # {}
          BY <5>1 DEF ChainRows, RowsHeaded, Heads, RowsOf, Visible
        <5> QED BY <1>4, <3>2, <5>1, <5>2 DEF Heads, RowsOf
      <4> QED BY <4>1, <4>2
    <3> QED BY <1>2, <3>1, <3>2
  <2> QED BY <2>1, <2>2 DEF RowsHeaded
<1>10. KeysUnique'
  BY <1>3, KeyFree, SameKeySymmetric DEF ChainRows, KeysUnique
<1>11. RowsChained'
  <2> SUFFICES ASSUME NEW a \in AllRows', NEW b \in AllRows',
                      a.subject = b.subject, a.id < b.id
               PROVE  \E n \in AllRows' : /\ n.subject = a.subject
                                          /\ n.prev = a.id /\ n.id <= b.id
    BY DEF RowsChained
  <2>1. a \in AllRows
    BY <1>3, <1>5, <1>6
  <2>2. CASE b \in AllRows
    BY <1>3, <2>1, <2>2 DEF ChainRows, RowsChained
  <2>3. CASE b = r
    <3>1. PICK p \in Visible(tx) :
            p.id = r.prev /\ p.subject = r.subject /\ a.id <= p.id
      BY <2>1, <2>3, FollowsLast
    <3>2. p \in AllRows
      BY VisibleInAll
    <3>3. CASE a.id = p.id
      BY <1>3, <1>5, <2>3, <3>1, <3>3
    <3>4. CASE a.id < p.id
      <4>1. PICK n \in AllRows : /\ n.subject = a.subject
                                 /\ n.prev = a.id /\ n.id <= p.id
        BY <2>1, <2>3, <3>1, <3>2, <3>4 DEF ChainRows, RowsChained
      <4>2. n.id <= b.id
        BY <1>5, <1>6, <2>3, <4>1
      <4> QED BY <1>3, <4>1, <4>2
    <3> QED BY <1>6, <2>1, <3>1, <3>2, <3>3, <3>4
  <2> QED BY <1>3, <2>2, <2>3
<1>12. OneWriter'
  <2>1. ASSUME NEW t \in Txs, NEW a \in pending'[t], NEW q \in transitions',
               a.subject = q.subject
        PROVE  q.id < a.id
    <3>1. CASE a \in pending[t]
      BY <1>5, <2>1, <3>1 DEF ChainRows, OneWriter
    <3>2. CASE a = r
      BY <1>5, <1>6, <3>2, AllRowsSplit
    <3> QED BY <1>2, <3>1, <3>2
  <2>2. ASSUME NEW t \in Txs, NEW o \in Txs, t # o,
               NEW a \in pending'[t], NEW q \in pending'[o]
        PROVE  a.subject # q.subject
    <3>1. CASE t = tx /\ a = r
      <4>1. q \in pending[o]
        BY <1>2, <2>2, <3>1
      <4>2. q.subject # r.subject
        BY <2>2, <3>1, <4>1, SoleWriter
      <4> QED BY <3>1, <4>2
    <3>2. CASE o = tx /\ q = r
      <4>1. a \in pending[t]
        BY <1>2, <2>2, <3>2
      <4>2. a.subject # r.subject
        BY <2>2, <3>2, <4>1, SoleWriter
      <4> QED BY <3>2, <4>2
    <3>3. CASE a \in pending[t] /\ q \in pending[o]
      BY <2>2, <3>3 DEF ChainRows, OneWriter
    <3> QED BY <1>2, <3>1, <3>2, <3>3
  <2> QED BY <2>1, <2>2 DEF OneWriter
<1> QED BY <1>1, <1>7, <1>8, <1>9, <1>10, <1>11, <1>12 DEF ChainRows

-----------------------------------------------------------------------------
(***************************************************************************)
(* The other effects a step has on the rows.                               *)
(***************************************************************************)

\* Identity values are spent by failed inserts too.
LEMMA KeepRows ==
    ASSUME RowsTyped, ChainRows,
           transitions' = transitions, pending' = pending,
           nextId' = nextId \/ nextId' = nextId + 1
    PROVE  RowsTyped' /\ ChainRows'
<1>1. AllRows' = AllRows /\ \A t : Visible(t)' = Visible(t)
  BY DEF AllRows, Visible
<1>2. RowsTyped'
  BY DEF RowsTyped, NoRow
<1>3. IdsUnique'
  <2>1. \A q \in AllRows : q.id \in Nat
    BY AllRowsTyped, RowFields
  <2> QED BY <1>1, <2>1 DEF ChainRows, IdsUnique, RowsTyped
<1>4. RowsLinked' /\ RowsHeaded'
  BY <1>1 DEF ChainRows, RowsLinked, LinkedIn, RowsHeaded, Heads, RowsOf
<1>5. KeysUnique' /\ RowsChained' /\ OneWriter'
  BY <1>1 DEF ChainRows, KeysUnique, SameKey, RowsChained, OneWriter
<1> QED BY <1>2, <1>3, <1>4, <1>5 DEF ChainRows

\* A commit makes the rows of a transaction visible to all.
LEMMA CommitRows ==
    ASSUME RowsTyped, ChainRows, NEW tx \in Txs,
           transitions' = transitions \cup pending[tx],
           pending' = [pending EXCEPT ![tx] = {}],
           nextId' = nextId
    PROVE  /\ RowsTyped' /\ ChainRows'
           /\ \A t \in Txs : Visible(t) \subseteq Visible(t)'
<1>1. \A t \in Txs : pending'[t] = IF t = tx THEN {} ELSE pending[t]
  BY DEF RowsTyped
<1>2. RowsTyped'
  BY <1>1 DEF RowsTyped
<1>3. \A q : q \in AllRows' <=> q \in AllRows
  BY <1>1, AllRowsSplit DEF AllRows
<1>4. \A t \in Txs : Visible(t) \subseteq Visible(t)'
  BY <1>1 DEF Visible
<1>5. IdsUnique' /\ KeysUnique' /\ RowsChained'
  BY <1>3 DEF ChainRows, IdsUnique, KeysUnique, SameKey, RowsChained
<1>6. transitions' = Visible(tx)
  BY DEF Visible
<1>7. RowsLinked'
  <2>1. ASSUME NEW q \in transitions'
        PROVE  LinkedIn(q, transitions')
    <3>1. LinkedIn(q, transitions) \/ LinkedIn(q, Visible(tx))
      BY <2>1 DEF ChainRows, RowsLinked
    <3> QED BY <1>6, <3>1 DEF LinkedIn, Visible
  <2>2. ASSUME NEW t \in Txs, NEW q \in pending'[t]
        PROVE  LinkedIn(q, Visible(t)')
    <3>1. LinkedIn(q, Visible(t))
      BY <1>1, <2>2 DEF ChainRows, RowsLinked
    <3> QED BY <1>4, <3>1 DEF LinkedIn
  <2> QED BY <2>1, <2>2 DEF RowsLinked, LinkedIn
<1>8. RowsHeaded'
  <2>1. ASSUME NEW q \in transitions'
        PROVE  Heads(transitions', q.subject) # {}
    <3>1. Heads(transitions, q.subject) # {} \/ Heads(Visible(tx), q.subject) # {}
      BY <2>1 DEF ChainRows, RowsHeaded
    <3> QED BY <1>6, <3>1 DEF Heads, RowsOf, Visible
  <2>2. ASSUME NEW t \in Txs, NEW q \in pending'[t]
        PROVE  Heads(Visible(t)', q.subject) # {}
    <3>1. Heads(Visible(t), q.subject) # {}
      BY <1>1, <2>2 DEF ChainRows, RowsHeaded
    <3> QED BY <1>4, <3>1 DEF Heads, RowsOf
  <2> QED BY <2>1, <2>2 DEF RowsHeaded, Heads, RowsOf
<1>9. OneWriter'
  <2>1. ASSUME NEW t \in Txs, NEW a \in pending'[t], NEW q \in transitions',
               a.subject = q.subject
        PROVE  q.id < a.id
    <3>1. t # tx /\ a \in pending[t]
      BY <1>1, <2>1
    <3>2. q \notin pending[tx]
      BY <2>1, <3>1 DEF ChainRows, OneWriter
    <3> QED BY <2>1, <3>1, <3>2 DEF ChainRows, OneWriter
  <2>2. ASSUME NEW t \in Txs, NEW o \in Txs, t # o,
               NEW a \in pending'[t], NEW q \in pending'[o]
        PROVE  a.subject # q.subject
    <3>1. a \in pending[t] /\ q \in pending[o]
      BY <1>1, <2>2
    <3> QED BY <2>2, <3>1 DEF ChainRows, OneWriter
  <2> QED BY <2>1, <2>2 DEF OneWriter
<1> QED BY <1>2, <1>4, <1>5, <1>7, <1>8, <1>9 DEF ChainRows

\* A rollback cuts an uncommitted suffix off its chain: no row of another
\* transaction, and no committed row, loses its successor.
LEMMA RollbackRows ==
    ASSUME RowsTyped, ChainRows, NEW tx \in Txs,
           transitions' = transitions,
           pending' = [pending EXCEPT ![tx] = {}],
           nextId' = nextId
    PROVE  /\ RowsTyped' /\ ChainRows'
           /\ \A t \in Txs : t # tx => Visible(t)' = Visible(t)
<1>1. \A t \in Txs : pending'[t] = IF t = tx THEN {} ELSE pending[t]
  BY DEF RowsTyped
<1>2. RowsTyped'
  BY <1>1 DEF RowsTyped
<1>3. \A q : q \in AllRows' => q \in AllRows
  BY <1>1 DEF AllRows
<1>4. \A q \in AllRows : q \in AllRows' \/ q \in pending[tx]
  BY <1>1, AllRowsSplit DEF AllRows
<1>5. \A t \in Txs : t # tx => Visible(t)' = Visible(t)
  BY <1>1 DEF Visible
<1>6. IdsUnique' /\ KeysUnique'
  BY <1>3 DEF ChainRows, IdsUnique, KeysUnique, SameKey
<1>7. \A t \in Txs : \A q \in pending'[t] : t # tx /\ q \in pending[t]
  BY <1>1
<1>8. RowsLinked' /\ RowsHeaded'
  BY <1>5, <1>7 DEF ChainRows, RowsLinked, LinkedIn, RowsHeaded, Heads, RowsOf
<1>9. OneWriter'
  BY <1>7 DEF ChainRows, OneWriter
<1>10. RowsChained'
  <2> SUFFICES ASSUME NEW a \in AllRows', NEW b \in AllRows',
                      a.subject = b.subject, a.id < b.id
               PROVE  \E n \in AllRows' : /\ n.subject = a.subject
                                          /\ n.prev = a.id /\ n.id <= b.id
    BY DEF RowsChained
  <2>1. PICK n \in AllRows : n.subject = a.subject /\ n.prev = a.id /\ n.id <= b.id
    BY <1>3 DEF ChainRows, RowsChained
  <2>2. n \notin pending[tx]
    <3> SUFFICES ASSUME n \in pending[tx] PROVE FALSE
      OBVIOUS
    <3>1. n.id \in Nat /\ b.id \in Nat
      BY <1>3, AllRowsTyped, RowFields
    <3>2. CASE b \in transitions
      BY <2>1, <3>1, <3>2 DEF ChainRows, OneWriter
    <3>3. CASE \E t \in Txs : b \in pending'[t]
      BY <1>7, <2>1, <3>3 DEF ChainRows, OneWriter
    <3> QED BY <3>2, <3>3 DEF AllRows
  <2> QED BY <1>4, <2>1, <2>2
<1> QED BY <1>2, <1>5, <1>6, <1>8, <1>9, <1>10 DEF ChainRows

-----------------------------------------------------------------------------
(***************************************************************************)
(* Whoever has rows of a subject has a last one.                           *)
(***************************************************************************)

\* A set of naturals has a least element, because the finite sets 0 .. x are
\* well-founded under inclusion, and a greatest one if it is bounded.
LEMMA LeastNat ==
    ASSUME NEW S, S \subseteq Nat, S # {}
    PROVE  \E m \in S : \A x \in S : m <= x
<1> DEFINE Below == {0 .. x : x \in S}
<1>1. \A x \in S : 0 .. x \in FiniteSubsetsOf(Nat)
  <2> SUFFICES ASSUME NEW x \in S PROVE 0 .. x \in FiniteSubsetsOf(Nat)
    OBVIOUS
  <2>1. IsFiniteSet(0 .. x)
    BY FS_Interval
  <2> QED BY <2>1 DEF FiniteSubsetsOf
<1>2. Below \subseteq FiniteSubsetsOf(Nat) /\ Below # {}
  BY <1>1
<1>3. IsWellFoundedOn(StrictSubsetOrdering(Nat), FiniteSubsetsOf(Nat))
  BY FS_StrictSubsetOrderingWellFounded
<1>4. PICK B \in Below : \A C \in Below : ~(<<C, B>> \in StrictSubsetOrdering(Nat))
  <2> HIDE DEF Below
  <2> QED BY <1>2, <1>3, WFMin
<1>5. PICK m \in S : B = 0 .. m
  BY <1>4
<1>6. ASSUME NEW x \in S, x < m
      PROVE  FALSE
  <2>1. 0 .. x \in Below /\ 0 .. x \subseteq 0 .. m /\ 0 .. x # 0 .. m
    BY <1>6
  <2>2. 0 .. x \in SUBSET Nat /\ 0 .. m \in SUBSET Nat
    OBVIOUS
  <2> QED BY <1>4, <1>5, <2>1, <2>2 DEF StrictSubsetOrdering
<1> QED BY <1>6

LEMMA GreatestNat ==
    ASSUME NEW S, S \subseteq Nat, S # {}, NEW b \in Nat, \A x \in S : x <= b
    PROVE  \E m \in S : \A x \in S : x <= m
<1> DEFINE D == {b - x : x \in S}
<1>1. D \subseteq Nat /\ D # {}
  <2>1. \A x \in S : b - x \in Nat
    OBVIOUS
  <2>2. D \subseteq Nat
    BY <2>1
  <2> QED BY <2>2
<1>2. PICK k \in D : \A y \in D : k <= y
  BY <1>1, LeastNat
<1>3. PICK m \in S : k = b - m
  OBVIOUS
<1>4. \A x \in S : b - m <= b - x
  BY <1>2, <1>3
<1> QED BY <1>3, <1>4

LEMMA TailExists ==
    ASSUME RowsTyped, ChainRows, NEW rows, rows \subseteq AllRows,
           \A r \in rows : LinkedIn(r, rows),
           NEW s, RowsOf(rows, s) # {}
    PROVE  Tails(rows, s) # {}
<1> DEFINE ids == {r.id : r \in RowsOf(rows, s)}
<1>1. \A r \in rows : r \in Row /\ r.id \in Nat /\ r.id <= nextId /\ r.id # NoRow
  BY AllRowsTyped, RowFields DEF ChainRows, IdsUnique, RowsTyped
<1>2. nextId \in Nat
  BY DEF RowsTyped
<1>3. ids \subseteq Nat /\ ids # {} /\ \A i \in ids : i <= nextId
  BY <1>1 DEF RowsOf
<1>4. PICK m \in ids : \A i \in ids : i <= m
  <2> HIDE DEF ids
  <2> QED BY <1>2, <1>3, GreatestNat
<1>5. PICK r \in RowsOf(rows, s) : r.id = m
  BY <1>4
<1>6. ASSUME NEW q \in rows, q.prev = r.id
      PROVE  FALSE
  <2>1. r \in rows /\ r.subject = s
    BY <1>5 DEF RowsOf
  <2>2. PICK p \in rows : p.id = q.prev /\ p.id < q.id /\ p.subject = q.subject
    BY <1>1, <1>6, <2>1 DEF LinkedIn
  <2>3. p = r
    BY <1>6, <2>1, <2>2 DEF ChainRows, IdsUnique
  <2>4. q \in RowsOf(rows, s) /\ r.id < q.id
    BY <2>1, <2>2, <2>3 DEF RowsOf
  <2>5. q.id <= r.id
    BY <1>4, <1>5, <2>4
  <2> QED BY <1>1, <2>1, <2>4, <2>5
<1>7. r \in Tails(rows, s)
  BY <1>5, <1>6 DEF Tails, RowsOf
<1> QED BY <1>7

\* There are no more rows than identity values handed out.
LEMMA RowsAreFinite ==
    ASSUME RowsTyped, IdsUnique
    PROVE  /\ IsFiniteSet(AllRows) /\ IsFiniteSet(transitions)
           /\ \A tx \in Txs : IsFiniteSet(pending[tx])
<1> DEFINE idOf == [r \in AllRows |-> r.id]
<1>1. \A r \in AllRows : r.id \in 0 .. nextId
  BY AllRowsTyped, RowFields DEF RowsTyped, IdsUnique
<1>2. idOf \in Injection(AllRows, 0 .. nextId)
  BY <1>1 DEF Injection, IsInjective, IdsUnique
<1>3. IsFiniteSet(0 .. nextId)
  BY FS_Interval DEF RowsTyped
<1>4. IsFiniteSet(AllRows)
  BY <1>2, <1>3, FS_Injection
<1>5. transitions \in SUBSET AllRows /\ \A tx \in Txs : pending[tx] \in SUBSET AllRows
  BY DEF AllRows
<1> QED BY <1>4, <1>5, FS_Subset

LEMMA VisibleLinked ==
    ASSUME ChainRows, NEW tx \in Txs
    PROVE  /\ Visible(tx) \subseteq AllRows
           /\ \A r \in Visible(tx) : LinkedIn(r, Visible(tx))
<1>1. \A r \in transitions : LinkedIn(r, Visible(tx))
  BY DEF ChainRows, RowsLinked, LinkedIn, Visible
<1>2. \A r \in pending[tx] : LinkedIn(r, Visible(tx))
  BY DEF ChainRows, RowsLinked
<1> QED BY <1>1, <1>2, VisibleInAll DEF Visible

-----------------------------------------------------------------------------
(***************************************************************************)
(* The inserts of record_transition.                                       *)
(***************************************************************************)

LEMMA LogInvRows ==
    ASSUME LogInv
    PROVE  RowsTyped /\ ChainRows
  BY DEF LogInv, ChainInv, ChainRows, LogTypeOK, RowsTyped

LEMMA CallGrows ==
    ASSUME NEW c, NEW small, NEW large, small \subseteq large, CallLinked(c, small)
    PROVE  CallLinked(c, large)
  BY DEF CallLinked

LEMMA LinkedIsAdmissible ==
    ASSUME NEW r, NEW rows, LinkedIn(r, rows)
    PROVE  Admissible(r, rows)
  BY DEF LinkedIn, Admissible

\* A row that follows the tail a call has loaded is linked.
LEMMA CallsRowLinked ==
    ASSUME LogInv, NEW tx \in Txs,
           call[tx].pc \in {"repair", "snapshot", "append"},
           NEW r, r.id = nextId, r.subject = call[tx].subject,
           r.prev = call[tx].tail, r.from = call[tx].logged, r.to # r.from
    PROVE  LinkedIn(r, Visible(tx))
<1>1. CallLinked(call[tx], Visible(tx))
  BY DEF LogInv, CallsLinked
<1>2. CASE call[tx].tail = NoRow /\ call[tx].logged = None
  BY <1>2 DEF LinkedIn
<1>3. ASSUME NEW p \in Visible(tx), p.id = call[tx].tail,
             p.subject = call[tx].subject, p.to = call[tx].logged
      PROVE  LinkedIn(r, Visible(tx))
  <2>1. p \in AllRows /\ p.id # NoRow /\ p.to # None
    BY LogInvRows, VisibleInAll, AllRowsTyped, RowFields
  <2>2. p.id < nextId
    BY <2>1 DEF LogInv, ChainInv, IdsUnique
  <2> QED BY <1>3, <2>1, <2>2 DEF LinkedIn
<1> QED BY <1>1, <1>2, <1>3 DEF CallLinked

\* What an insert does: add the row, or abort the transaction on a lost race.
LEMMA InsertEffects ==
    ASSUME LogInv, NEW tx \in Txs, NEW r \in Row, r.id = nextId,
           LinkedIn(r, Visible(tx)), NEW done, InsertTransition(tx, r, done)
    PROVE  \/ AddsRow(tx, r) /\ call' = [call EXCEPT ![tx] = done]
           \/ /\ transitions' = transitions /\ pending' = pending
              /\ nextId' = nextId + 1
              /\ call' = [call EXCEPT ![tx].pc = "conflict"]
  BY LinkedIsAdmissible DEF InsertTransition, AddsRow

LEMMA InsertInv ==
    ASSUME LogInv, NEW tx \in Txs, NEW r \in Row, r.id = nextId,
           LinkedIn(r, Visible(tx)),
           NEW done \in Call,
           done.pc \in {"idle", "snapshot", "append"},
           CallLinked(done, Visible(tx) \cup {r}),
           r.snapshot # None =>
             <<r.subject, r.snapshot>> \in SnapshotsSeen(tx),
           done.pc = "append" => done.snapshot = None \/
             <<done.subject, done.snapshot>> \in SnapshotsSeen(tx),
           InsertTransition(tx, r, done)
    PROVE  LogInv'
<1>1. call \in [Txs -> Call] /\ snapshots' = snapshots
      /\ \A t \in Txs : SnapshotsSeen(t)' = SnapshotsSeen(t)
      /\ pendingSnapshots' = pendingSnapshots
  BY DEF LogInv, ChainInv, LogTypeOK, InsertTransition, SnapshotsSeen
<1>2. CASE AddsRow(tx, r) /\ call' = [call EXCEPT ![tx] = done]
  <2>1. RowsTyped' /\ ChainRows'
    BY <1>2, LogInvRows, AddRow
  <2>2. \A t \in Txs : call'[t] = IF t = tx THEN done ELSE call[t]
    BY <1>1, <1>2
  <2>3. \A t \in Txs :
          pending'[t] = IF t = tx THEN pending[t] \cup {r} ELSE pending[t]
    BY <1>2, LogInvRows DEF RowsTyped, AddsRow
  <2>4. transitions' = transitions
    BY <1>2 DEF AddsRow
  <2>5. \A t \in Txs : Visible(t)' = IF t = tx THEN Visible(t) \cup {r} ELSE Visible(t)
    BY <2>3, <2>4 DEF Visible
  <2>6. LogTypeOK'
    BY <1>1, <1>2, <2>1 DEF LogInv, ChainInv, LogTypeOK, RowsTyped
  <2>7. CallsLinked'
    <3> SUFFICES ASSUME NEW t \in Txs PROVE CallLinked(call'[t], Visible(t)')
      BY DEF CallsLinked, CallLinked
    <3>1. CASE t = tx
      BY <2>2, <2>5, <3>1
    <3>2. CASE t # tx
      BY <2>2, <2>5, <3>2 DEF LogInv, CallsLinked
    <3> QED BY <3>1, <3>2
  <2>8. OnlyRacesFail'
    BY <2>2 DEF LogInv, OnlyRacesFail
  <2>9. CallsHaveSnapshot'
    BY <1>1, <2>2 DEF LogInv, CallsHaveSnapshot
  <2>10. SnapshotsPresent'
    BY <1>1, <2>3, <2>4 DEF LogInv, SnapshotsPresent
  <2> QED BY <2>1, <2>6, <2>7, <2>8, <2>9, <2>10 DEF LogInv, ChainInv, ChainRows
<1>3. CASE /\ transitions' = transitions /\ pending' = pending
           /\ nextId' = nextId + 1
           /\ call' = [call EXCEPT ![tx].pc = "conflict"]
  <2>1. RowsTyped' /\ ChainRows'
    BY <1>3, LogInvRows, KeepRows
  <2>2. \A t \in Txs : /\ t = tx => call'[t].pc = "conflict"
                       /\ t # tx => call'[t] = call[t]
                       /\ Visible(t)' = Visible(t)
    BY <1>1, <1>3 DEF Call, Visible
  <2>3. call' \in [Txs -> Call]
    BY <1>1, <1>3 DEF Call, CallPc
  <2>4. LogTypeOK'
    BY <1>1, <2>1, <2>3 DEF LogInv, ChainInv, LogTypeOK, RowsTyped
  <2>5. CallsLinked'
    BY <2>2 DEF LogInv, CallsLinked, CallLinked
  <2>6. OnlyRacesFail' /\ CallsHaveSnapshot' /\ SnapshotsPresent'
    BY <1>1, <1>3, <2>2
    DEF LogInv, OnlyRacesFail, CallsHaveSnapshot, SnapshotsPresent
  <2> QED BY <2>1, <2>4, <2>5, <2>6 DEF LogInv, ChainInv, ChainRows
<1> QED BY <1>2, <1>3, InsertEffects

LEMMA RepairDriftInv ==
    ASSUME LogInv, NEW tx \in Txs, RepairDrift(tx)
    PROVE  LogInv'
<1> DEFINE c == call[tx]
           r == [id |-> nextId, subject |-> c.subject, prev |-> c.tail,
                 from |-> c.logged, to |-> c.expected, source |-> "system",
                 actor |-> None, snapshot |-> None]
           done == [c EXCEPT !.pc = AfterLink(c.snapshot), !.tail = nextId,
                             !.logged = c.expected]
<1>1. c.pc = "repair" /\ InsertTransition(tx, r, done)
  BY DEF RepairDrift
<1>2. c \in Call /\ nextId \in Nat \ {NoRow}
  BY DEF LogInv, ChainInv, LogTypeOK
<1>3. CallLinked(c, Visible(tx))
  BY DEF LogInv, CallsLinked
<1>4. /\ c.subject \in Subjects /\ c.to \in Statuses /\ c.expected # c.to
      /\ c.expected # None /\ c.expected # c.logged
  BY <1>1, <1>3 DEF CallLinked
<1>5. c.expected \in Statuses
  BY <1>2, <1>4 DEF Call
<1>6. r \in Row
  BY <1>2, <1>4, <1>5 DEF Row, Call, TransitionSource
<1>7. LinkedIn(r, Visible(tx))
  BY <1>1, <1>4, CallsRowLinked
<1>8. /\ done.pc = AfterLink(c.snapshot) /\ done.tail = nextId
      /\ done.logged = c.expected /\ done.expected = c.expected
      /\ done.to = c.to /\ done.subject = c.subject /\ done.snapshot = c.snapshot
  BY <1>2 DEF Call
<1>9. done \in Call
  BY <1>2 DEF Call, CallPc, AfterLink
<1>10. CallLinked(done, Visible(tx) \cup {r})
  <2>1. r.id = nextId /\ r.subject = c.subject /\ r.to = c.expected
    OBVIOUS
  <2>2. /\ done.subject \in Subjects /\ done.to \in Statuses
        /\ done.expected # done.to /\ done.expected = done.logged
    BY <1>4, <1>8
  <2>3. done.pc # "repair" /\ (done.pc = "snapshot" => done.snapshot # None)
    BY <1>8 DEF AfterLink
  <2>4. r.id = done.tail /\ r.subject = done.subject /\ r.to = done.logged
    BY <1>8, <2>1
  <2> HIDE DEF r, done
  <2> QED BY <2>2, <2>3, <2>4 DEF CallLinked
<1>11. /\ done.pc \in {"idle", "snapshot", "append"}
       /\ done.pc = "append" => done.snapshot = None
  BY <1>8 DEF AfterLink
<1> HIDE DEF c, done
<1>12. r.id = nextId /\ r.snapshot = None
  OBVIOUS
<1> HIDE DEF r
<1> QED BY <1>1, <1>6, <1>7, <1>9, <1>10, <1>11, <1>12, InsertInv

LEMMA AppendTransitionInv ==
    ASSUME LogInv, NEW tx \in Txs, AppendTransition(tx)
    PROVE  LogInv'
<1> DEFINE c == call[tx]
           r == [id |-> nextId, subject |-> c.subject, prev |-> c.tail,
                 from |-> c.expected, to |-> c.to, source |-> c.source,
                 actor |-> c.actor, snapshot |-> c.snapshot]
<1>1. c.pc = "append" /\ InsertTransition(tx, r, NoCall)
  BY DEF AppendTransition
<1>2. c \in Call /\ nextId \in Nat \ {NoRow}
  BY DEF LogInv, ChainInv, LogTypeOK
<1>3. CallLinked(c, Visible(tx))
  BY DEF LogInv, CallsLinked
<1>4. /\ c.subject \in Subjects /\ c.to \in Statuses /\ c.expected # c.to
      /\ c.expected = c.logged
  BY <1>1, <1>3 DEF CallLinked
<1>5. r \in Row
  BY <1>2, <1>4 DEF Row, Call
<1>6. LinkedIn(r, Visible(tx))
  BY <1>1, <1>4, CallsRowLinked
<1>7. /\ r.id = nextId
      /\ r.snapshot # None =>
           <<r.subject, r.snapshot>> \in SnapshotsSeen(tx)
  BY <1>1 DEF LogInv, CallsHaveSnapshot
<1>8. NoCall \in Call /\ NoCall.pc = "idle"
  BY DEF NoCall, Call, CallPc, TransitionSource, NoRow
<1>9. CallLinked(NoCall, Visible(tx) \cup {r})
  BY <1>8 DEF CallLinked
<1> HIDE DEF c, r
<1> QED BY <1>1, <1>5, <1>6, <1>7, <1>8, <1>9, InsertInv

-----------------------------------------------------------------------------
(***************************************************************************)
(* The other operations.                                                   *)
(***************************************************************************)

LEMMA InitInv == LogInit => LogInv
<1> SUFFICES ASSUME LogInit PROVE LogInv
  OBVIOUS
<1>1. /\ AllRows = {} /\ \A tx \in Txs : pending[tx] = {} /\ call[tx] = NoCall
      /\ transitions = {}
  BY DEF LogInit, AllRows
<1>2. NoCall \in Call /\ NoCall.pc = "idle"
  BY DEF NoCall, Call, CallPc, TransitionSource, NoRow
<1>3. LogTypeOK
  BY <1>2 DEF LogInit, LogTypeOK, NoRow
<1>4. ChainInv
  BY <1>1, <1>3 DEF ChainInv, IdsUnique, RowsLinked, RowsHeaded, KeysUnique,
                    RowsChained, OneWriter
<1>5. CallsLinked /\ OnlyRacesFail /\ CallsHaveSnapshot /\ SnapshotsPresent
  BY <1>1, <1>2 DEF CallsLinked, CallLinked, OnlyRacesFail, CallsHaveSnapshot,
                    SnapshotsPresent
<1> QED BY <1>4, <1>5 DEF LogInv

\* Every choice of the prologue leaves the call linked to the tail it loaded.
LEMMA RecordTransitionInv ==
    ASSUME LogInv, NEW tx \in Txs, NEW s \in Subjects,
           NEW expected \in Statuses \cup {None}, NEW to \in Statuses,
           NEW source \in CallerSources, NEW actor \in Actors \cup {None},
           NEW snapshot \in Payloads \cup {None},
           RecordTransition(tx, s, expected, to, source, actor, snapshot)
    PROVE  LogInv'
<1> DEFINE Begun(tail, pc, from) ==
             [pc |-> pc, subject |-> s, tail |-> tail.id, logged |-> tail.to,
              expected |-> from, to |-> to, source |-> source,
              actor |-> actor, snapshot |-> snapshot]
<1>1. /\ call \in [Txs -> Call] /\ RowsTyped /\ ChainRows
      /\ UNCHANGED <<transitions, snapshots, pending, pendingSnapshots, nextId>>
  BY LogInvRows DEF LogInv, ChainInv, LogTypeOK, RecordTransition
<1>2. RowsTyped' /\ ChainRows'
  BY <1>1, KeepRows
<1>3. PICK tail \in TailChoices(Visible(tx), s) :
        \/ UNCHANGED call
        \/ \E pc \in {"repair", "snapshot", "append"}, from \in Statuses \cup {None} :
             /\ call' = [call EXCEPT ![tx] = Begun(tail, pc, from)]
             /\ from # to
             /\ pc = "repair" => from # None /\ from # tail.to
             /\ pc # "repair" => from = tail.to
             /\ pc = "snapshot" => snapshot # None
             /\ pc = "append" => snapshot = None
  <2> DEFINE Stage(tail) == Prologue(tail.to, expected, to, snapshot)
  <2>1. PICK tail \in TailChoices(Visible(tx), s) :
          call' = IF Stage(tail).pc = "idle" THEN call
                  ELSE [call EXCEPT ![tx] = Begun(tail, Stage(tail).pc, Stage(tail).from)]
    BY DEF RecordTransition
  <2>2. expected # to
    BY DEF RecordTransition
  <2>3. tail.to \in Statuses \cup {None}
    <3>1. \A r \in Tails(Visible(tx), s) : r.to \in Statuses
      BY <1>1, VisibleInAll, AllRowsTyped, RowFields DEF Tails, RowsOf
    <3> QED BY <3>1 DEF TailChoices
  <2>4. /\ AfterLink(snapshot) \in {"snapshot", "append"}
        /\ AfterLink(snapshot) = "snapshot" => snapshot # None
        /\ AfterLink(snapshot) = "append" => snapshot = None
    BY DEF AfterLink
  <2>5. CASE tail.to = expected
    <3>1. Stage(tail).pc = AfterLink(snapshot) /\ Stage(tail).from = expected
      BY <2>5 DEF Prologue
    <3> HIDE DEF Begun, Stage
    <3> QED BY <2>1, <2>2, <2>3, <2>4, <2>5, <3>1
  <2>6. CASE tail.to # expected /\ expected # None
    <3>1. Stage(tail).pc = "repair" /\ Stage(tail).from = expected
      BY <2>6 DEF Prologue
    <3> HIDE DEF Begun, Stage
    <3> QED BY <2>1, <2>2, <2>3, <2>4, <2>6, <3>1
  <2>7. CASE tail.to # expected /\ expected = None /\ tail.to # to
    <3>1. Stage(tail).pc = AfterLink(snapshot) /\ Stage(tail).from = tail.to
      BY <2>7 DEF Prologue
    <3> HIDE DEF Begun, Stage
    <3> QED BY <2>1, <2>2, <2>3, <2>4, <2>7, <3>1
  <2>8. CASE tail.to # expected /\ expected = None /\ tail.to = to
    <3>1. Stage(tail).pc = "idle"
      BY <2>8 DEF Prologue
    <3> QED BY <2>1, <3>1
  <2> QED BY <2>5, <2>6, <2>7, <2>8
<1>4. CASE UNCHANGED call
  <2>1. \A t \in Txs : Visible(t)' = Visible(t)
    BY <1>1 DEF Visible
  <2> QED BY <1>1, <1>2, <1>4, <2>1
          DEF LogInv, ChainInv, ChainRows, RowsTyped, LogTypeOK, CallsLinked,
              CallLinked, OnlyRacesFail, CallsHaveSnapshot, SnapshotsPresent,
              SnapshotsSeen
<1>5. ASSUME NEW pc \in {"repair", "snapshot", "append"},
             NEW from \in Statuses \cup {None},
             call' = [call EXCEPT ![tx] = Begun(tail, pc, from)],
             from # to,
             pc = "repair" => from # None /\ from # tail.to,
             pc # "repair" => from = tail.to,
             pc = "snapshot" => snapshot # None,
             pc = "append" => snapshot = None
      PROVE  LogInv'
  <2>1. \/ tail.id = NoRow /\ tail.to = None
        \/ \E p \in Visible(tx) : p.id = tail.id /\ p.subject = s /\ p.to = tail.to
    BY DEF TailChoices, Tails, RowsOf
  <2>2. tail.id \in Nat /\ tail.to \in Statuses \cup {None}
    BY <1>1, <2>1, VisibleInAll, AllRowsTyped, RowFields DEF NoRow
  <2>3. Begun(tail, pc, from) \in Call
    BY <2>2, SourcesAssumption DEF Call, CallPc
  <2>4. CallLinked(Begun(tail, pc, from), Visible(tx))
    BY <1>5, <2>1 DEF CallLinked
  <2>5. /\ Begun(tail, pc, from).pc \in {"repair", "snapshot", "append"}
        /\ Begun(tail, pc, from).pc = "append" => Begun(tail, pc, from).snapshot = None
    BY <1>5
  <2> HIDE DEF Begun
  <2>6. \A t \in Txs : /\ Visible(t)' = Visible(t)
                       /\ call'[t] = IF t = tx THEN Begun(tail, pc, from) ELSE call[t]
    BY <1>1, <1>5 DEF Visible
  <2>7. LogTypeOK'
    BY <1>1, <1>2, <1>5, <2>3 DEF LogInv, ChainInv, LogTypeOK, RowsTyped
  <2>8. CallsLinked'
    <3> SUFFICES ASSUME NEW t \in Txs PROVE CallLinked(call'[t], Visible(t)')
      BY DEF CallsLinked, CallLinked
    <3> QED BY <2>4, <2>6 DEF LogInv, CallsLinked
  <2>9. OnlyRacesFail' /\ CallsHaveSnapshot' /\ SnapshotsPresent'
    BY <1>1, <2>5, <2>6
    DEF LogInv, OnlyRacesFail, CallsHaveSnapshot, SnapshotsPresent, SnapshotsSeen
  <2> QED BY <1>2, <2>7, <2>8, <2>9 DEF LogInv, ChainInv, ChainRows
<1> QED BY <1>3, <1>4, <1>5

LEMMA UpsertSnapshotInv ==
    ASSUME LogInv, NEW tx \in Txs, UpsertSnapshot(tx)
    PROVE  LogInv'
<1> DEFINE c == call[tx]
           snap == <<c.subject, c.snapshot>>
<1>1. /\ c.pc = "snapshot"
      /\ pendingSnapshots' = [pendingSnapshots EXCEPT ![tx] = @ \cup ({snap} \ snapshots)]
      /\ call' = [call EXCEPT ![tx].pc = "append"]
      /\ UNCHANGED <<transitions, snapshots, pending, nextId>>
  BY DEF UpsertSnapshot, StoreSnapshot
<1>2. /\ call \in [Txs -> Call] /\ pendingSnapshots \in [Txs -> SUBSET Snapshot]
      /\ c \in Call
  BY DEF LogInv, ChainInv, LogTypeOK
<1>3. CallLinked(c, Visible(tx))
  BY DEF LogInv, CallsLinked
<1>4. RowsTyped' /\ ChainRows'
  BY <1>1, LogInvRows, KeepRows
<1>5. snap \in Snapshot
  <2>1. c.subject \in Subjects /\ c.snapshot \in Payloads
    BY <1>1, <1>2, <1>3 DEF CallLinked, Call
  <2> QED BY <2>1 DEF Snapshot
<1>6. \A t \in Txs :
        /\ pendingSnapshots'[t] =
             IF t = tx THEN pendingSnapshots[t] \cup ({snap} \ snapshots)
             ELSE pendingSnapshots[t]
        /\ Visible(t)' = Visible(t)
        /\ t # tx => call'[t] = call[t]
  BY <1>1, <1>2 DEF Visible
<1>7. call'[tx] = [c EXCEPT !.pc = "append"]
  BY <1>1, <1>2
<1>8. /\ call'[tx] \in Call /\ call'[tx].pc = "append"
      /\ CallLinked(call'[tx], Visible(tx))
      /\ <<call'[tx].subject, call'[tx].snapshot>> = snap
  BY <1>1, <1>2, <1>3, <1>7 DEF Call, CallPc, CallLinked
<1> HIDE DEF c, snap
<1>9. LogTypeOK'
  <2>1. call' \in [Txs -> Call]
    BY <1>1, <1>2, <1>6, <1>8
  <2>2. pendingSnapshots' \in [Txs -> SUBSET Snapshot]
    BY <1>1, <1>2, <1>5
  <2> QED BY <1>1, <1>4, <2>1, <2>2 DEF LogInv, ChainInv, LogTypeOK, RowsTyped
<1>10. CallsLinked'
  <2> SUFFICES ASSUME NEW t \in Txs PROVE CallLinked(call'[t], Visible(t)')
    BY DEF CallsLinked, CallLinked
  <2> QED BY <1>6, <1>8 DEF LogInv, CallsLinked
<1>11. OnlyRacesFail' /\ CallsHaveSnapshot' /\ SnapshotsPresent'
  BY <1>1, <1>6, <1>8 DEF LogInv, OnlyRacesFail, CallsHaveSnapshot, SnapshotsPresent,
                                SnapshotsSeen
<1> QED BY <1>4, <1>9, <1>10, <1>11 DEF LogInv, ChainInv, ChainRows

LEMMA SeedSnapshotInv ==
    ASSUME LogInv, NEW tx \in Txs, NEW s \in Subjects, NEW payload \in Payloads,
           SeedSnapshot(tx, s, payload)
    PROVE  LogInv'
<1>1. /\ pendingSnapshots' =
           [pendingSnapshots EXCEPT ![tx] = @ \cup ({<<s, payload>>} \ snapshots)]
      /\ UNCHANGED <<transitions, snapshots, pending, nextId, call>>
  BY DEF SeedSnapshot, StoreSnapshot
<1>2. pendingSnapshots \in [Txs -> SUBSET Snapshot] /\ <<s, payload>> \in Snapshot
  BY DEF LogInv, ChainInv, LogTypeOK, Snapshot
<1>3. pendingSnapshots' \in [Txs -> SUBSET Snapshot]
  BY <1>1, <1>2
<1>4. \A t \in Txs : SnapshotsSeen(t) \subseteq SnapshotsSeen(t)'
  BY <1>1, <1>2 DEF SnapshotsSeen
<1>5. RowsTyped' /\ ChainRows'
  BY <1>1, LogInvRows, KeepRows
<1>6. \A t \in Txs : Visible(t)' = Visible(t)
  BY <1>1 DEF Visible
<1>7. LogTypeOK' /\ CallsLinked' /\ OnlyRacesFail'
  BY <1>1, <1>3, <1>5, <1>6 DEF LogInv, ChainInv, LogTypeOK, RowsTyped, CallsLinked,
                                CallLinked, OnlyRacesFail
<1>8. CallsHaveSnapshot' /\ SnapshotsPresent'
  BY <1>1, <1>4 DEF LogInv, CallsHaveSnapshot, SnapshotsPresent
<1> QED BY <1>5, <1>7, <1>8 DEF LogInv, ChainInv, ChainRows

LEMMA SeedHeadInv ==
    ASSUME LogInv, NEW tx \in Txs, NEW s \in Subjects, NEW to \in Statuses,
           NEW actor \in Actors \cup {None}, NEW payload \in Payloads \cup {None},
           SeedHead(tx, s, to, actor, payload)
    PROVE  LogInv'
<1> DEFINE r == [id |-> nextId, subject |-> s, prev |-> NoRow, from |-> None,
                 to |-> to, source |-> "backfill", actor |-> actor,
                 snapshot |-> payload]
<1>1. /\ ~InsertWaits(tx, r)
      /\ payload # None => <<s, payload>> \in SnapshotsSeen(tx)
      /\ pending' = [pending EXCEPT
                       ![tx] = IF Heads(Visible(tx), s) = {} THEN @ \cup {r} ELSE @]
      /\ nextId' = nextId + 1
      /\ UNCHANGED <<transitions, snapshots, pendingSnapshots, call>>
  BY DEF SeedHead
<1>2. pending \in [Txs -> SUBSET Row] /\ nextId \in Nat \ {NoRow}
  BY DEF LogInv, ChainInv, LogTypeOK
<1>3. r \in Row
  BY <1>2 DEF Row, TransitionSource, NoRow
<1>4. /\ r.id = nextId /\ r.prev = NoRow /\ r.subject = s
      /\ r.from = None /\ r.to = to /\ r.snapshot = payload
  OBVIOUS
<1> HIDE DEF r
<1>5. \A t \in Txs : /\ pending[t] \subseteq pending'[t]
                     /\ \A q \in pending'[t] : q \in pending[t] \/ (t = tx /\ q = r)
  BY <1>1, <1>2
<1>6. \A t \in Txs : SnapshotsSeen(t)' = SnapshotsSeen(t)
  BY <1>1 DEF SnapshotsSeen
<1>7. RowsTyped' /\ ChainRows'
  <2>1. CASE Heads(Visible(tx), s) = {}
    <3>1. \A q \in Visible(tx) : ~SameKey(r, q)
      BY <1>4, <2>1 DEF SameKey, Heads, RowsOf
    <3>2. LinkedIn(r, Visible(tx))
      BY <1>3, <1>4, RowFields DEF LinkedIn
    <3>3. AddsRow(tx, r)
      BY <1>1, <1>3, <1>4, <2>1, <3>1, <3>2 DEF AddsRow
    <3> QED BY <3>3, LogInvRows, AddRow
  <2>2. CASE Heads(Visible(tx), s) # {}
    <3>1. pending' = pending
      BY <1>1, <1>2, <2>2
    <3> QED BY <1>1, <3>1, LogInvRows, KeepRows
  <2> QED BY <2>1, <2>2
<1>8. LogTypeOK'
  BY <1>1, <1>7 DEF LogInv, ChainInv, LogTypeOK, RowsTyped
<1>9. CallsLinked'
  <2> SUFFICES ASSUME NEW t \in Txs PROVE CallLinked(call'[t], Visible(t)')
    BY DEF CallsLinked, CallLinked
  <2>1. Visible(t) \subseteq Visible(t)' /\ call'[t] = call[t]
    BY <1>1, <1>5 DEF Visible
  <2>2. CallLinked(call[t], Visible(t))
    BY DEF LogInv, CallsLinked
  <2> QED BY <2>1, <2>2, CallGrows
<1>10. OnlyRacesFail' /\ CallsHaveSnapshot'
  BY <1>1, <1>6 DEF LogInv, OnlyRacesFail, CallsHaveSnapshot
<1>11. SnapshotsPresent'
  BY <1>1, <1>4, <1>5, <1>6 DEF LogInv, SnapshotsPresent
<1> QED BY <1>7, <1>8, <1>9, <1>10, <1>11 DEF LogInv, ChainInv, ChainRows

LEMMA CommitLogInv ==
    ASSUME LogInv, NEW tx \in Txs, CommitLog(tx)
    PROVE  LogInv'
<1>1. /\ transitions' = transitions \cup pending[tx]
      /\ snapshots' = snapshots \cup pendingSnapshots[tx]
      /\ pending' = [pending EXCEPT ![tx] = {}]
      /\ pendingSnapshots' = [pendingSnapshots EXCEPT ![tx] = {}]
      /\ nextId' = nextId /\ call' = call
      /\ call[tx].pc = "idle"
  BY DEF CommitLog
<1>2. LogTypeOK
  BY DEF LogInv, ChainInv
<1>3. RowsTyped' /\ ChainRows' /\ \A t \in Txs : Visible(t) \subseteq Visible(t)'
  BY <1>1, LogInvRows, CommitRows
<1>4. \A t \in Txs :
        /\ pending'[t] = IF t = tx THEN {} ELSE pending[t]
        /\ pendingSnapshots'[t] = IF t = tx THEN {} ELSE pendingSnapshots[t]
  BY <1>1, <1>2 DEF LogTypeOK
<1>5. LogTypeOK'
  BY <1>1, <1>2, <1>3 DEF LogTypeOK, RowsTyped
<1>6. CallsLinked'
  <2> SUFFICES ASSUME NEW t \in Txs PROVE CallLinked(call'[t], Visible(t)')
    BY DEF CallsLinked, CallLinked
  <2>1. CallLinked(call[t], Visible(t))
    BY DEF LogInv, CallsLinked
  <2> QED BY <1>1, <1>3, <2>1, CallGrows
<1>7. OnlyRacesFail' /\ CallsHaveSnapshot'
  BY <1>1, <1>4 DEF LogInv, OnlyRacesFail, CallsHaveSnapshot, SnapshotsSeen
<1>8. SnapshotsPresent'
  BY <1>1, <1>4 DEF LogInv, SnapshotsPresent, SnapshotsSeen
<1> QED BY <1>3, <1>5, <1>6, <1>7, <1>8 DEF LogInv, ChainInv, ChainRows

LEMMA RollbackLogInv ==
    ASSUME LogInv, NEW tx \in Txs, RollbackLog(tx)
    PROVE  LogInv'
<1>1. /\ pending' = [pending EXCEPT ![tx] = {}]
      /\ pendingSnapshots' = [pendingSnapshots EXCEPT ![tx] = {}]
      /\ call' = [call EXCEPT ![tx] = NoCall]
      /\ transitions' = transitions /\ snapshots' = snapshots /\ nextId' = nextId
  BY DEF RollbackLog
<1>2. LogTypeOK
  BY DEF LogInv, ChainInv
<1>3. RowsTyped' /\ ChainRows' /\ \A t \in Txs : t # tx => Visible(t)' = Visible(t)
  BY <1>1, LogInvRows, RollbackRows
<1>4. \A t \in Txs :
        /\ pending'[t] = IF t = tx THEN {} ELSE pending[t]
        /\ pendingSnapshots'[t] = IF t = tx THEN {} ELSE pendingSnapshots[t]
        /\ call'[t] = IF t = tx THEN NoCall ELSE call[t]
  BY <1>1, <1>2 DEF LogTypeOK
<1>5. NoCall \in Call /\ NoCall.pc = "idle"
  BY DEF NoCall, Call, CallPc, TransitionSource, NoRow
<1>6. LogTypeOK'
  BY <1>1, <1>2, <1>3, <1>5 DEF LogTypeOK, RowsTyped
<1>7. CallsLinked'
  <2> SUFFICES ASSUME NEW t \in Txs PROVE CallLinked(call'[t], Visible(t)')
    BY DEF CallsLinked, CallLinked
  <2>1. CASE t = tx
    BY <1>4, <1>5, <2>1 DEF CallLinked
  <2>2. CASE t # tx
    BY <1>3, <1>4, <2>2 DEF LogInv, CallsLinked
  <2> QED BY <2>1, <2>2
<1>8. OnlyRacesFail' /\ CallsHaveSnapshot' /\ SnapshotsPresent'
  BY <1>1, <1>4, <1>5 DEF LogInv, OnlyRacesFail, CallsHaveSnapshot, SnapshotsPresent, SnapshotsSeen
<1> QED BY <1>3, <1>6, <1>7, <1>8 DEF LogInv, ChainInv, ChainRows

LEMMA ContinueRecordInv ==
    ASSUME LogInv, NEW tx \in Txs, ContinueRecord(tx)
    PROVE  LogInv'
  BY RepairDriftInv, UpsertSnapshotInv, AppendTransitionInv DEF ContinueRecord

LEMMA StutterInv ==
    ASSUME LogInv, UNCHANGED logVars
    PROVE  LogInv'
<1>1. /\ AllRows' = AllRows
      /\ \A t \in Txs : Visible(t)' = Visible(t)
      /\ UNCHANGED <<transitions, snapshots, pending, pendingSnapshots, nextId, call>>
  BY DEF logVars, AllRows, Visible
<1>2. RowsTyped' /\ ChainRows'
  BY <1>1, LogInvRows, KeepRows
<1> QED BY <1>1, <1>2
        DEF LogInv, ChainInv, ChainRows, LogTypeOK, CallsLinked, OnlyRacesFail,
            CallsHaveSnapshot, SnapshotsPresent, SnapshotsSeen

LEMMA NextInv == LogInv /\ [LogNext]_logVars => LogInv'
<1> SUFFICES ASSUME LogInv, [LogNext]_logVars PROVE LogInv'
  OBVIOUS
<1>1. ASSUME NEW tx \in Txs, AnyRecord(tx) PROVE LogInv'
  BY <1>1, RecordTransitionInv DEF AnyRecord
<1>2. ASSUME NEW tx \in Txs, ContinueRecord(tx) PROVE LogInv'
  BY <1>2, ContinueRecordInv
<1>3. ASSUME NEW tx \in Txs, AnySeed(tx) PROVE LogInv'
  BY <1>3, SeedSnapshotInv, SeedHeadInv DEF AnySeed
<1>4. ASSUME NEW tx \in Txs, CommitLog(tx) PROVE LogInv'
  BY <1>4, CommitLogInv
<1>5. ASSUME NEW tx \in Txs, RollbackLog(tx) PROVE LogInv'
  BY <1>5, RollbackLogInv
<1>6. CASE UNCHANGED logVars
  BY <1>6, StutterInv
<1> QED BY <1>1, <1>2, <1>3, <1>4, <1>5, <1>6 DEF LogNext

LEMMA IdOrder == LogInv => IdOrderIsChainOrder
<1> SUFFICES ASSUME LogInv, NEW r \in transitions, NEW q \in transitions,
                    r.subject = q.subject, r.id < q.id
             PROVE  \E n \in transitions :
                      n.subject = r.subject /\ n.prev = r.id /\ n.id <= q.id
  BY DEF IdOrderIsChainOrder
<1>1. r \in AllRows /\ q \in AllRows
  BY AllRowsSplit
<1>2. PICK n \in AllRows : n.subject = r.subject /\ n.prev = r.id /\ n.id <= q.id
  BY <1>1 DEF LogInv, ChainInv, RowsChained
<1>3. n.id \in Nat /\ q.id \in Nat
  BY <1>1, LogInvRows, AllRowsTyped, RowFields
<1>4. ASSUME NEW tx \in Txs, n \in pending[tx] PROVE FALSE
  BY <1>2, <1>3, <1>4 DEF LogInv, ChainInv, OneWriter
<1> QED BY <1>2, <1>4, AllRowsSplit

LEMMA TailUnique == LogInv => OneTail
<1>1. ASSUME LogInv, NEW s \in Subjects, NEW rows, NEW r \in rows, NEW q \in rows,
             rows = transitions \/ \E tx \in Txs : rows = Visible(tx),
             r \in Tails(rows, s), q \in Tails(rows, s), r.id < q.id
      PROVE  FALSE
  <2>1. r \in AllRows /\ q \in AllRows /\ r.subject = s /\ q.subject = s
    BY <1>1, AllRowsSplit, VisibleInAll DEF Tails, RowsOf
  <2>2. PICK n \in AllRows : n.subject = s /\ n.prev = r.id /\ n.id <= q.id
    BY <1>1, <2>1 DEF LogInv, ChainInv, RowsChained
  <2>3. n \notin rows
    BY <1>1, <2>2 DEF Tails
  <2>4. n.id \in Nat /\ q.id \in Nat
    BY <1>1, <2>1, LogInvRows, AllRowsTyped, RowFields
  <2>5. PICK o \in Txs : n \in pending[o] /\ n \notin transitions
    BY <1>1, <2>3, AllRowsSplit DEF Visible
  <2>6. q \notin transitions
    BY <1>1, <2>1, <2>2, <2>4, <2>5 DEF LogInv, ChainInv, OneWriter
  <2>7. PICK tx \in Txs : rows = Visible(tx) /\ q \in pending[tx]
    BY <1>1, <2>6 DEF Visible
  <2>8. tx # o
    BY <2>3, <2>5, <2>7 DEF Visible
  <2> QED BY <1>1, <2>1, <2>2, <2>5, <2>7, <2>8 DEF LogInv, ChainInv, OneWriter
<1>2. ASSUME LogInv, NEW s \in Subjects, NEW rows,
             rows = transitions \/ \E tx \in Txs : rows = Visible(tx),
             NEW r \in Tails(rows, s), NEW q \in Tails(rows, s)
      PROVE  r = q
  <2>1. r \in rows /\ q \in rows
    BY DEF Tails, RowsOf
  <2>2. r \in AllRows /\ q \in AllRows
    BY <1>2, <2>1, AllRowsSplit, VisibleInAll
  <2>3. ~(r.id < q.id) /\ ~(q.id < r.id)
    BY <1>1, <1>2, <2>1
  <2>4. r.id = q.id
    BY <1>2, <2>2, <2>3, LogInvRows, AllRowsTyped, RowFields
  <2> QED BY <1>2, <2>2, <2>4 DEF LogInv, ChainInv, IdsUnique
<1> QED BY <1>2 DEF OneTail

-----------------------------------------------------------------------------
(***************************************************************************)
(* The theorems.                                                           *)
(***************************************************************************)

\* The rows of all transactions form one chain per subject, with a single
\* writer each: the inductive invariant of the log and of its service.
THEOREM LogInvariant == LogSpec => []LogInv
  BY InitInv, NextInv, PTL DEF LogSpec

\* No operation of ProcessLogService builds a row, a snapshot or a call of the
\* wrong type; a repair in particular never writes a NULL to_status.
THEOREM LogTypeCorrect == LogSpec => []LogTypeOK
<1>1. LogInv => LogTypeOK
  BY DEF LogInv, ChainInv
<1> QED BY <1>1, LogInvariant, PTL

\* Concurrent writers without any lock never fork a chain or give a subject a
\* second head.
THEOREM ChainsNeverFork == LogSpec => []NoFork
<1>1. LogInv => NoFork
  BY DEF LogInv, ChainInv, KeysUnique, NoFork, AllRows, SameKey
<1> QED BY <1>1, LogInvariant, PTL

\* Every committed row follows an earlier row of its subject that ends where
\* it begins.
THEOREM CommittedRowsLinked == LogSpec => []ChainLinked
<1>1. LogInv => ChainLinked
  BY DEF LogInv, ChainInv, RowsLinked, LinkedIn, ChainLinked
<1> QED BY <1>1, LogInvariant, PTL

\* Ordering by id, as get_chain and the analytics do, is following the chain,
\* although ids are handed out before the order of the commits is known.
THEOREM IdOrderFollowsChain == LogSpec => []IdOrderIsChainOrder
  BY IdOrder, LogInvariant, PTL

\* get_tail's scalar() never meets two rows, whoever asks.
THEOREM TailsAreUnique == LogSpec => []OneTail
  BY TailUnique, LogInvariant, PTL

\* The FK and CHECK constraints are never violated by the rows the service
\* builds: a lost race is its only failure.
THEOREM FailuresAreRaces == LogSpec => []OnlyRacesFail
<1>1. LogInv => OnlyRacesFail
  BY DEF LogInv
<1> QED BY <1>1, LogInvariant, PTL

\* A row never points to a snapshot its reader cannot see.
THEOREM SnapshotsVisible == LogSpec => []SnapshotsPresent
<1>1. LogInv => SnapshotsPresent
  BY DEF LogInv
<1> QED BY <1>1, LogInvariant, PTL

=============================================================================
