--------------------------- MODULE DealStatusProofs ---------------------------
(***************************************************************************)
(* Proofs about DealStatus, for every set of deals, statuses, listings and *)
(* transactions and every batch size.                                      *)
(*                                                                         *)
(* Every step of a writer is a step of ProcessLog or leaves its tables     *)
(* alone, so what ProcessLogProofs proves of the log holds here.  On top   *)
(* of it DealInv says what the row lock is for: the deal a move loaded is  *)
(* still the committed one when it commits, and nobody but the backfill    *)
(* can have written to the log of that deal in between.                    *)
(***************************************************************************)
EXTENDS DealStatus, ProcessLogProofs

-----------------------------------------------------------------------------
(***************************************************************************)
(* Types.                                                                  *)
(***************************************************************************)

LEMMA NoOpTyped ==
    NoOp \in Op /\ NoOp.pc = "idle" /\ NoOp.batch = {} /\ NoOp.fields = {}
  BY DealAssumption DEF NoOp, Op, OpPc, BlankDeal, Deal

LEMMA MovedTyped ==
    ASSUME NEW row \in Deal, NEW user \in Actors, NEW target \in Statuses
    PROVE  /\ Moved(row, user, target) \in Deal
           /\ Moved(row, user, target).status = target
  BY DEF Moved, Deal

LEMMA OpTyped ==
    ASSUME TypeOK, NEW tx \in Txs
    PROVE  /\ op[tx] \in Op
           /\ op[tx].pc \in OpPc
           /\ op[tx].deal \in Subjects \cup {None}
           /\ op[tx].user \in Actors \cup {None}
           /\ op[tx].target \in Statuses \cup {None}
           /\ op[tx].previous \in Statuses \cup {None}
           /\ op[tx].row \in Deal
           /\ op[tx].row.status \in Statuses \cup {None}
           /\ op[tx].fields \subseteq DealFields
           /\ op[tx].removal \in BOOLEAN \cup {None}
           /\ op[tx].source \in CallerSources
           /\ op[tx].batch \subseteq Seeding
           /\ op[tx].last \in Nat
  BY DEF TypeOK, Op, Deal

LEMMA DealTyped ==
    ASSUME TypeOK, NEW d \in Subjects
    PROVE  deals[d] \in Deal /\ deals[d].status \in Statuses \cup {None}
  BY DEF TypeOK, Deal

\* What a transaction makes of its own record is seen by nobody else.
OwnOp(tx, o) ==
    /\ o \in Op
    /\ op' \in [Txs -> Op]
    /\ op'[tx] = o
    /\ \A t \in Txs : t # tx => op'[t] = op[t]

LEMMA OwnOpFull ==
    ASSUME TypeOK, NEW tx \in Txs, NEW o \in Op, op' = [op EXCEPT ![tx] = o]
    PROVE  OwnOp(tx, o)
  BY DEF TypeOK, OwnOp

-----------------------------------------------------------------------------
(***************************************************************************)
(* Operations that leave the log alone.                                    *)
(***************************************************************************)

\* The parts of the invariant that speak of the log.
LogSide ==
    /\ RowsOwned
    /\ CallsOwned
    /\ TailsCurrent
    /\ OnlyTheBackfillRaces
    /\ MovesRecorded

\* The parts that speak of the deals.
DealSide ==
    /\ OpsPlaced
    /\ SavesApart
    /\ LocksHeld
    /\ RowsCurrent

LEMMA NothingPending ==
    ASSUME LogSide, NEW tx \in Txs, op[tx].pc \notin Recording \cup {"seeding"}
    PROVE  pending[tx] = {} /\ call[tx].pc = "idle"
  BY DEF LogSide, RowsOwned, RowOwned, CallsOwned, CallOwned

LEMMA QuietLogSide ==
    ASSUME LogSide, NEW tx \in Txs, NEW o, OwnOp(tx, o), UNCHANGED logVars,
           created \subseteq created',
           op[tx].pc \notin Recording \cup {"seeding"},
           o.pc \notin Recording
    PROVE  LogSide'
<1>1. pending[tx] = {} /\ call[tx].pc = "idle"
  BY NothingPending
<1>2. /\ \A t \in Txs : Visible(t)' = Visible(t)
      /\ UNCHANGED <<transitions, pending, call>>
  BY DEF logVars, Visible
<1>3. RowsOwned'
  BY <1>1, <1>2 DEF LogSide, RowsOwned, RowOwned, OwnOp
<1>4. CallsOwned'
  BY <1>1, <1>2 DEF LogSide, CallsOwned, CallOwned, OwnOp
<1>5. TailsCurrent' /\ OnlyTheBackfillRaces'
  BY <1>2 DEF LogSide, TailsCurrent, TailCurrent, SeededHead, Heads, RowsOf, OnlyTheBackfillRaces
<1>6. MovesRecorded'
  BY <1>2 DEF LogSide, MovesRecorded, MoveRecorded, Tails, RowsOf, OwnOp, Recording
<1> QED BY <1>3, <1>4, <1>5, <1>6 DEF LogSide

\* A transaction that keeps its hands off the deals others hold.
LEMMA OwnDealSide ==
    ASSUME TypeOK, DealSide, NEW tx \in Txs, NEW o, OwnOp(tx, o),
           created \subseteq created',
           \A t \in Txs : t # tx /\ op[t].pc \in Inserting => op[t].deal \notin created',
           \A d \in Subjects :
             \/ lock'[d] = lock[d]
             \/ lock[d] \in {None, tx} /\ lock'[d] \in {None, tx},
           \A t \in Txs : t # tx /\ op[t].pc \in Holding =>
             deals'[op[t].deal] = deals[op[t].deal],
           OpPlaced(o, created'),
           o.pc \in Inserting =>
             \A t \in Txs : t # tx /\ op[t].pc \in Inserting => op[t].deal # o.deal,
           \A d \in Subjects : lock'[d] = tx <=> o.pc \in Holding /\ o.deal = d,
           RowCurrent(o, deals'[o.deal])
    PROVE  DealSide'
<1>1. OpsPlaced'
  <2> SUFFICES ASSUME NEW t \in Txs, t # tx PROVE OpPlaced(op'[t], created')
    BY DEF OpsPlaced, OwnOp
  <2>1. OpPlaced(op[t], created) /\ op'[t] = op[t]
    BY DEF DealSide, OpsPlaced, OwnOp
  <2> QED BY <2>1 DEF OpPlaced
<1>2. SavesApart'
  BY DEF DealSide, SavesApart, OwnOp
<1>3. LocksHeld'
  <2> SUFFICES ASSUME NEW t \in Txs, NEW d \in Subjects, t # tx
               PROVE  lock'[d] = t <=> op'[t].pc \in Holding /\ op'[t].deal = d
    BY DEF LocksHeld, OwnOp
  <2>1. t # None
    BY NoneAssumption
  <2> QED BY <2>1 DEF DealSide, LocksHeld, OwnOp
<1>4. RowsCurrent'
  <2> SUFFICES ASSUME NEW t \in Txs, t # tx
               PROVE  RowCurrent(op'[t], deals'[op'[t].deal])
    BY DEF RowsCurrent, OwnOp, RowCurrent
  <2>1. RowCurrent(op[t], deals[op[t].deal]) /\ op'[t] = op[t]
    BY DEF DealSide, RowsCurrent, OwnOp
  <2>2. CASE op[t].pc \in Holding
    BY <2>1, <2>2
  <2> QED BY <2>1, <2>2 DEF RowCurrent
<1> QED BY <1>1, <1>2, <1>3, <1>4 DEF DealSide

LEMMA DealInvParts ==
    DealInv <=> TypeOK /\ LogInv /\ DealSide /\ LogSide
  BY DEF DealInv, DealSide, LogSide

\* An operation that leaves the log alone has only the deals to account for.
LEMMA QuietInv ==
    ASSUME DealInv, NEW tx \in Txs, NEW o, OwnOp(tx, o), UNCHANGED logVars,
           created \subseteq created',
           op[tx].pc \notin Recording \cup {"seeding"},
           o.pc \notin Recording,
           TypeOK', DealSide'
    PROVE  DealInv'
<1>1. LogInv'
  BY StutterInv DEF DealInv
<1>2. LogSide'
  BY DealInvParts, QuietLogSide
<1> QED BY <1>1, <1>2 DEF DealInv, DealSide, LogSide

LEMMA BeginInv ==
    ASSUME DealInv, NEW tx \in Txs, NEW o \in Op, Begin(tx, o), OpPlaced(o, created),
           o.pc \in {"waiting", "inserted", "form", "reading"},
           o.pc = "inserted" =>
             \A t \in Txs : op[t].pc \in Inserting => op[t].deal # o.deal
    PROVE  DealInv'
<1>1. /\ op[tx].pc = "idle"
      /\ op' = [op EXCEPT ![tx] = o]
      /\ requests' = requests + 1
      /\ UNCHANGED <<logVars, created, deals, lock, removed, webhooks, seeded>>
  BY DEF Begin
<1>2. TypeOK /\ DealSide
  BY DealInvParts
<1>3. OwnOp(tx, o)
  BY <1>1, <1>2, OwnOpFull
<1>4. TypeOK'
  BY <1>1, <1>2, <1>3 DEF TypeOK, OwnOp, LogTypeOK, logVars
<1>5. \A d \in Subjects : lock'[d] # tx
  BY <1>1, <1>2 DEF DealSide, LocksHeld, Holding
<1>6. DealSide'
  <2>1. OpPlaced(o, created')
    BY <1>1 DEF OpPlaced
  <2>2. o.pc \notin Holding /\ (o.pc \in Inserting <=> o.pc = "inserted")
    BY DEF Holding, Inserting
  <2>3. \A t \in Txs : op[t].pc \in Inserting => op[t].deal \notin created'
    BY <1>1, <1>2 DEF DealSide, OpsPlaced, OpPlaced
  <2>4. RowCurrent(o, deals'[o.deal])
    BY <2>2 DEF RowCurrent
  <2> QED BY <1>1, <1>2, <1>3, <1>5, <2>1, <2>2, <2>3, <2>4, OwnDealSide
<1> QED BY <1>1, <1>3, <1>4, <1>6, QuietInv DEF Recording

LEMMA RequestMoveInv ==
    ASSUME DealInv, NEW tx \in Txs, NEW d \in Subjects, NEW user \in Actors,
           NEW target \in Statuses, RequestMove(tx, d, user, target)
    PROVE  DealInv'
<1> DEFINE o == [NoOp EXCEPT !.pc = "waiting", !.deal = d, !.user = user,
                             !.target = target]
<1>1. Begin(tx, o) /\ d \in created
  BY DEF RequestMove
<1>2. o \in Op
  BY NoOpTyped DEF Op, OpPc
<1>3. /\ o.pc = "waiting" /\ o.deal = d /\ o.user = user /\ o.target = target
      /\ o.batch = {}
  BY NoOpTyped DEF Op
<1>4. OpPlaced(o, created)
  BY <1>1, <1>3 DEF OpPlaced, Holding, Inserting
<1> HIDE DEF o
<1> QED BY <1>1, <1>2, <1>3, <1>4, BeginInv

LEMMA InsertDealInv ==
    ASSUME DealInv, NEW tx \in Txs, NEW d \in Subjects, NEW source \in CallerSources,
           NEW actor \in Actors \cup {None}, NEW row \in Deal,
           InsertDeal(tx, d, source, actor, row)
    PROVE  DealInv'
<1> DEFINE o == [NoOp EXCEPT !.pc = "inserted", !.deal = d, !.source = source,
                             !.user = actor, !.row = row]
<1>1. /\ Begin(tx, o) /\ d \notin created
      /\ \A t \in Txs : op[t].pc \in Inserting => op[t].deal # d
  BY DEF InsertDeal, Inserting
<1>2. o \in Op
  BY NoOpTyped DEF Op, OpPc
<1>3. o.pc = "inserted" /\ o.deal = d /\ o.batch = {}
  BY NoOpTyped DEF Op
<1>4. OpPlaced(o, created)
  BY <1>1, <1>3 DEF OpPlaced, Holding
<1> HIDE DEF o
<1> QED BY <1>1, <1>2, <1>3, <1>4, BeginInv

LEMMA SaveDealInv ==
    ASSUME DealInv, NEW tx \in Txs, NEW d \in Subjects,
           SaveDeal(tx, d) \/ DuplicateDeal(tx, d)
    PROVE  DealInv'
<1>1. CASE SaveDeal(tx, d)
  BY <1>1, InsertDealInv, DealAssumption DEF SaveDeal
<1>2. CASE DuplicateDeal(tx, d)
  <2>1. PICK user \in Actors :
          InsertDeal(tx, d, "api", user,
                     [status |-> TemplateGenerated, analyst |-> user, approver |-> None])
    BY <1>2 DEF DuplicateDeal
  <2>2. [status |-> TemplateGenerated, analyst |-> user, approver |-> None] \in Deal
    BY <1>2 DEF DuplicateDeal, Deal
  <2>3. "api" \in CallerSources
    BY DealAssumption
  <2> QED BY <2>1, <2>2, <2>3, InsertDealInv
<1> QED BY <1>1, <1>2

LEMMA OpenEditInv ==
    ASSUME DealInv, NEW tx \in Txs, NEW d \in Subjects, OpenEdit(tx, d)
    PROVE  DealInv'
<1>1. PICK fields \in SUBSET EditorFields, row \in Deal :
        Begin(tx, [NoOp EXCEPT !.pc = "form", !.deal = d, !.fields = fields,
                               !.row = row])
  BY DEF OpenEdit
<1> DEFINE o == [NoOp EXCEPT !.pc = "form", !.deal = d, !.fields = fields,
                             !.row = row]
<1>2. o \in Op
  BY NoOpTyped, DealAssumption DEF Op, OpPc
<1>3. o.pc = "form" /\ o.deal = d /\ o.batch = {} /\ d \in created
  BY NoOpTyped DEF Op, OpenEdit
<1>4. OpPlaced(o, created)
  BY <1>3 DEF OpPlaced, Holding, Inserting
<1>5. Begin(tx, o)
  BY <1>1
<1> HIDE DEF o
<1> QED BY <1>2, <1>3, <1>4, <1>5, BeginInv

LEMMA StartSeedInv ==
    ASSUME DealInv, NEW tx \in Txs, StartSeed(tx)
    PROVE  DealInv'
<1> DEFINE o == [NoOp EXCEPT !.pc = "reading"]
<1>1. o \in Op /\ o.pc = "reading" /\ o.batch = {}
  BY NoOpTyped DEF Op, OpPc
<1>2. OpPlaced(o, created)
  BY <1>1 DEF OpPlaced, Holding, Inserting
<1>3. Begin(tx, o)
  BY DEF StartSeed
<1> HIDE DEF o
<1> QED BY <1>1, <1>2, <1>3, BeginInv

LEMMA LockDealInv ==
    ASSUME DealInv, NEW tx \in Txs, LockDeal(tx)
    PROVE  DealInv'
<1> DEFINE d == op[tx].deal
           o == [op[tx] EXCEPT !.pc = "locked", !.previous = deals[d].status,
                               !.row = deals[d]]
<1>1. /\ op[tx].pc = "waiting" /\ lock[d] = None
      /\ lock' = [lock EXCEPT ![d] = tx]
      /\ UNCHANGED <<logVars, created, deals, removed, webhooks, requests>>
      /\ seeded' = seeded
  BY DEF LockDeal
<1>2. TypeOK /\ DealSide /\ op[tx] \in Op
  BY DealInvParts, OpTyped
<1>3. d \in created /\ d \in Subjects /\ OpPlaced(op[tx], created)
  BY <1>1, <1>2 DEF DealSide, OpsPlaced, OpPlaced, TypeOK
<1>4. deals[d] \in Deal /\ deals[d].status \in Statuses \cup {None}
  BY <1>2, <1>3, DealTyped
<1>5. o \in Op
  BY <1>2, <1>4 DEF Op, OpPc
<1>6. /\ o.pc = "locked" /\ o.deal = d /\ o.previous = deals[d].status
      /\ o.row = deals[d] /\ o.target = op[tx].target /\ o.user = op[tx].user
      /\ o.batch = op[tx].batch
  BY <1>2 DEF Op
<1>7. op' = [op EXCEPT ![tx] = o]
  BY <1>2 DEF LockDeal, TypeOK, Op
<1> HIDE DEF o
<1>8. OwnOp(tx, o)
  BY <1>2, <1>5, <1>7, OwnOpFull
<1>9. TypeOK'
  BY <1>1, <1>2, <1>8 DEF TypeOK, OwnOp, LogTypeOK, logVars
<1>10. OpPlaced(o, created')
  BY <1>1, <1>3, <1>6 DEF OpPlaced, Holding, Inserting
<1>11. DealSide'
  <2>1. \A e \in Subjects : lock'[e] = IF e = d THEN tx ELSE lock[e]
    BY <1>1, <1>2, <1>3 DEF TypeOK
  <2>2. \A e \in Subjects : e # d => lock[e] # tx
    BY <1>1, <1>2 DEF DealSide, LocksHeld, Holding
  <2>3. \A e \in Subjects : lock'[e] = tx <=> o.pc \in Holding /\ o.deal = e
    BY <1>6, <2>1, <2>2 DEF Holding
  <2>4. \A t \in Txs : op[t].pc \in Inserting => op[t].deal \notin created'
    BY <1>1, <1>2 DEF DealSide, OpsPlaced, OpPlaced
  <2>5. \A e \in Subjects : \/ lock'[e] = lock[e]
                            \/ lock[e] \in {None, tx} /\ lock'[e] \in {None, tx}
    BY <1>1, <2>1
  <2>6. RowCurrent(o, deals'[o.deal])
    BY <1>1, <1>6 DEF RowCurrent
  <2>7. o.pc \notin Inserting
    BY <1>6 DEF Inserting
  <2> QED BY <1>1, <1>2, <1>8, <1>10, <2>3, <2>4, <2>5, <2>6, <2>7, OwnDealSide
<1> QED BY <1>1, <1>6, <1>8, <1>9, <1>11, QuietInv DEF Recording

LEMMA FlushMoveInv ==
    ASSUME DealInv, NEW tx \in Txs, FlushMove(tx)
    PROVE  DealInv'
<1> DEFINE removal == RemovalFor(op[tx].deal, op[tx].previous, op[tx].target)
           row == Moved(op[tx].row, op[tx].user, op[tx].target)
           o == [op[tx] EXCEPT !.pc = "flushed", !.row = row, !.removal = removal]
<1>1. /\ op[tx].pc = "locked"
      /\ UNCHANGED <<logVars, created, deals, lock, removed, webhooks, requests>>
      /\ seeded' = seeded
  BY DEF FlushMove
<1>2. TypeOK /\ DealSide /\ op[tx] \in Op /\ op[tx].row \in Deal
  BY DealInvParts, OpTyped
<1>3. /\ OpPlaced(op[tx], created)
      /\ op[tx].deal \in created /\ op[tx].target \in Statuses /\ op[tx].user \in Actors
  BY <1>1, <1>2 DEF DealSide, OpsPlaced, OpPlaced, Holding
<1>4. row \in Deal /\ removal \in BOOLEAN \cup {None}
  BY <1>2, <1>3, MovedTyped DEF RemovalFor
<1>5. o \in Op
  BY <1>2, <1>4 DEF Op, OpPc
<1>6. /\ o.pc = "flushed" /\ o.deal = op[tx].deal /\ o.previous = op[tx].previous
      /\ o.row = row /\ o.target = op[tx].target /\ o.user = op[tx].user
      /\ o.batch = op[tx].batch
  BY <1>2 DEF Op
<1>7. op' = [op EXCEPT ![tx] = o]
  BY <1>2 DEF FlushMove, TypeOK, Op
<1> HIDE DEF o
<1>8. OwnOp(tx, o)
  BY <1>2, <1>5, <1>7, OwnOpFull
<1>9. TypeOK'
  BY <1>1, <1>2, <1>8 DEF TypeOK, OwnOp, LogTypeOK, logVars
<1>10. DealSide'
  <2>1. OpPlaced(o, created')
    BY <1>1, <1>3, <1>6 DEF OpPlaced, Holding, Inserting
  <2>2. \A e \in Subjects : lock'[e] = tx <=> o.pc \in Holding /\ o.deal = e
    BY <1>1, <1>2, <1>6 DEF DealSide, LocksHeld, Holding
  <2>3. \A t \in Txs : op[t].pc \in Inserting => op[t].deal \notin created'
    BY <1>1, <1>2 DEF DealSide, OpsPlaced, OpPlaced
  <2>4. RowCurrent(o, deals'[o.deal])
    BY <1>1, <1>2, <1>6 DEF DealSide, RowsCurrent, RowCurrent, Holding
  <2>5. o.pc \notin Inserting
    BY <1>6 DEF Inserting
  <2> QED BY <1>1, <1>2, <1>8, <2>1, <2>2, <2>3, <2>4, <2>5, OwnDealSide
<1> QED BY <1>1, <1>6, <1>8, <1>9, <1>10, QuietInv DEF Recording

\* A transaction that is done, or lets go of all it holds.
LEMMA ReleaseDealSide ==
    ASSUME TypeOK, DealSide, NEW tx \in Txs, NEW o, OwnOp(tx, o),
           o.pc \notin Holding \cup Inserting, OpPlaced(o, created'),
           created \subseteq created',
           \A t \in Txs : t # tx /\ op[t].pc \in Inserting => op[t].deal \notin created',
           \A d \in Subjects : lock'[d] = IF lock[d] = tx THEN None ELSE lock[d],
           \A t \in Txs : t # tx /\ op[t].pc \in Holding =>
             deals'[op[t].deal] = deals[op[t].deal]
    PROVE  DealSide'
<1>1. \A d \in Subjects : lock'[d] = tx <=> o.pc \in Holding /\ o.deal = d
  BY NoneAssumption
<1>2. RowCurrent(o, deals'[o.deal])
  BY DEF RowCurrent
<1> QED BY <1>1, <1>2, OwnDealSide

LEMMA NotHolding ==
    ASSUME DealSide, NEW tx \in Txs, op[tx].pc \notin Holding
    PROVE  \A d \in Subjects : lock[d] = IF lock[d] = tx THEN None ELSE lock[d]
  BY DEF DealSide, LocksHeld

LEMMA NoOpPlaced == OpPlaced(NoOp, created')
  BY NoOpTyped DEF OpPlaced, Holding, Inserting

LEMMA AnnounceInv ==
    ASSUME DealInv, NEW tx \in Txs, Announce(tx)
    PROVE  DealInv'
<1>1. /\ op[tx].pc = "announcing"
      /\ webhooks' = [webhooks EXCEPT ![op[tx].deal][op[tx].target] = @ + 1]
      /\ op' = [op EXCEPT ![tx] = NoOp]
      /\ UNCHANGED <<logVars, created, deals, lock, removed, requests, seeded>>
  BY DEF Announce
<1>2. TypeOK /\ DealSide
  BY DealInvParts
<1>3. op[tx].deal \in Subjects /\ op[tx].target \in Announced
  BY <1>1, <1>2 DEF DealSide, OpsPlaced, OpPlaced
<1>4. OwnOp(tx, NoOp)
  BY <1>1, <1>2, NoOpTyped, OwnOpFull
<1>5. webhooks' \in [Subjects -> [Announced -> Nat]]
  BY <1>1, <1>2, <1>3 DEF TypeOK
<1>6. TypeOK'
  BY <1>1, <1>2, <1>4, <1>5 DEF TypeOK, OwnOp, LogTypeOK, logVars
<1>7. DealSide'
  <2>1. NoOp.pc \notin Holding \cup Inserting /\ OpPlaced(NoOp, created')
    BY NoOpTyped, NoOpPlaced DEF Holding, Inserting
  <2>2. \A t \in Txs : op[t].pc \in Inserting => op[t].deal \notin created'
    BY <1>1, <1>2 DEF DealSide, OpsPlaced, OpPlaced
  <2>3. op[tx].pc \notin Holding
    BY <1>1 DEF Holding
  <2> QED BY <1>1, <1>2, <1>4, <2>1, <2>2, <2>3, NotHolding, ReleaseDealSide
<1> QED BY <1>1, <1>4, <1>6, <1>7, NoOpTyped, QuietInv DEF Recording

LEMMA LoadEditInv ==
    ASSUME DealInv, NEW tx \in Txs, LoadEdit(tx)
    PROVE  DealInv'
<1> DEFINE dirty == {f \in op[tx].fields : op[tx].row[f] # deals[op[tx].deal][f]}
           o == [op[tx] EXCEPT !.pc = "loaded", !.fields = dirty]
<1>1. /\ op[tx].pc = "form"
      /\ UNCHANGED <<logVars, created, deals, lock, removed, webhooks, requests>>
      /\ seeded' = seeded
  BY DEF LoadEdit
<1>2. TypeOK /\ DealSide /\ op[tx] \in Op /\ OpPlaced(op[tx], created)
  BY DealInvParts, OpTyped DEF DealSide, OpsPlaced
<1>3. dirty \subseteq op[tx].fields
  OBVIOUS
<1>4. op' = [op EXCEPT ![tx] = o]
  BY <1>2 DEF LoadEdit, TypeOK, Op
<1> HIDE DEF dirty
<1>5. o \in Op
  BY <1>2, <1>3 DEF Op, OpPc
<1>6. o.pc = "loaded" /\ o.deal = op[tx].deal /\ o.batch = op[tx].batch
  BY <1>2 DEF Op
<1> HIDE DEF o
<1>7. OwnOp(tx, o)
  BY <1>2, <1>4, <1>5, OwnOpFull
<1>8. TypeOK'
  BY <1>1, <1>2, <1>7 DEF TypeOK, OwnOp, LogTypeOK, logVars
<1>9. DealSide'
  <2>1. OpPlaced(o, created')
    BY <1>1, <1>2, <1>6 DEF OpPlaced, Holding, Inserting
  <2>2. \A t \in Txs : op[t].pc \in Inserting => op[t].deal \notin created'
    BY <1>1, <1>2 DEF DealSide, OpsPlaced, OpPlaced
  <2>3. op[tx].pc \notin Holding /\ o.pc \notin Holding \cup Inserting
    BY <1>1, <1>6 DEF Holding, Inserting
  <2> QED BY <1>1, <1>2, <1>7, <2>1, <2>2, <2>3, NotHolding, ReleaseDealSide
<1> QED BY <1>1, <1>6, <1>7, <1>8, <1>9, QuietInv DEF Recording

LEMMA SaveEditInv ==
    ASSUME DealInv, NEW tx \in Txs, SaveEdit(tx)
    PROVE  DealInv'
<1> DEFINE d == op[tx].deal
           row == [f \in DealFields |-> IF f \in op[tx].fields THEN op[tx].row[f]
                                        ELSE deals[d][f]]
<1>1. /\ op[tx].pc = "loaded"
      /\ op[tx].fields # {} => lock[d] = None
      /\ op' = [op EXCEPT ![tx] = NoOp]
      /\ UNCHANGED <<logVars, created, lock, removed, webhooks, requests, seeded>>
  BY DEF SaveEdit
<1>2. TypeOK /\ DealSide /\ op[tx] \in Op /\ OpPlaced(op[tx], created) /\ op[tx].row \in Deal
  BY DealInvParts, OpTyped DEF DealSide, OpsPlaced
<1>3. d \in created /\ d \in Subjects /\ deals[d] \in Deal
  BY <1>1, <1>2, DealTyped DEF OpPlaced, TypeOK
<1>4. deals' = [deals EXCEPT ![d] = row]
  BY <1>2, <1>3 DEF SaveEdit, TypeOK
<1>5. row \in Deal
  BY <1>2, <1>3 DEF Deal, DealFields
<1>6. op[tx].fields = {} => row = deals[d]
  BY <1>2, <1>3 DEF Deal, DealFields
<1> HIDE DEF row
<1>7. OwnOp(tx, NoOp)
  BY <1>1, <1>2, NoOpTyped, OwnOpFull
<1>8. TypeOK'
  BY <1>1, <1>2, <1>4, <1>5, <1>7 DEF TypeOK, OwnOp, LogTypeOK, logVars
<1>9. DealSide'
  <2>1. NoOp.pc \notin Holding \cup Inserting /\ OpPlaced(NoOp, created')
    BY NoOpTyped, NoOpPlaced DEF Holding, Inserting
  <2>2. \A t \in Txs : op[t].pc \in Inserting => op[t].deal \notin created'
    BY <1>1, <1>2 DEF DealSide, OpsPlaced, OpPlaced
  <2>3. op[tx].pc \notin Holding
    BY <1>1 DEF Holding
  <2>4. ASSUME NEW t \in Txs, op[t].pc \in Holding
        PROVE  deals'[op[t].deal] = deals[op[t].deal]
    <3>1. op[t].deal \in Subjects /\ lock[op[t].deal] = t /\ t # None
      BY <1>2, <2>4, NoneAssumption DEF DealSide, OpsPlaced, OpPlaced, TypeOK, LocksHeld
    <3>2. CASE op[t].deal = d
      BY <1>1, <1>2, <1>3, <1>4, <1>6, <3>1, <3>2 DEF TypeOK
    <3>3. CASE op[t].deal # d
      BY <1>2, <1>4, <3>1, <3>3 DEF TypeOK
    <3> QED BY <3>2, <3>3
  <2> QED BY <1>1, <1>2, <1>7, <2>1, <2>2, <2>3, <2>4, NotHolding, ReleaseDealSide
<1> QED BY <1>1, <1>7, <1>8, <1>9, NoOpTyped, QuietInv DEF Recording

LEMMA ReadBatchInv ==
    ASSUME DealInv, NEW tx \in Txs, ReadBatch(tx)
    PROVE  DealInv'
<1> DEFINE found == Unseeded(op[tx].last)
           batch == {d \in found : Cardinality({e \in found : e < d}) < BatchSize}
           seeds == {SeedFor(d) : d \in batch}
<1>1. /\ op[tx].pc = "reading"
      /\ UNCHANGED <<logVars, created, deals, lock, removed, webhooks, requests>>
  BY DEF ReadBatch
<1>2. TypeOK /\ DealSide /\ op[tx] \in Op /\ OpPlaced(op[tx], created)
  BY DealInvParts, OpTyped DEF DealSide, OpsPlaced
<1>3. \A d \in batch : d \in created /\ d \in Subjects /\ d \in Nat
                       /\ deals[d].status # None
  BY <1>2, DealAssumption DEF Unseeded, TypeOK
<1>4. \A d \in batch : SeedFor(d) \in Seeding /\ SeedFor(d).deal = d
  <2> SUFFICES ASSUME NEW d \in batch
               PROVE  SeedFor(d) \in Seeding /\ SeedFor(d).deal = d
    OBVIOUS
  <2>1. d \in Subjects /\ deals[d] \in Deal /\ deals[d].status \in Statuses
    BY <1>2, <1>3, DealTyped
  <2> QED BY <2>1 DEF SeedFor, Seeding, Deal
<1>5. seeds \subseteq Seeding /\ \A seed \in seeds : seed.deal \in created
  BY <1>3, <1>4
<1>6. \E o \in Op : /\ op' = [op EXCEPT ![tx] = o]
                    /\ o.pc \in {"idle", "seeding"}
                    /\ \A seed \in o.batch : seed.deal \in created
                    /\ seeded' \in BOOLEAN
  <2>1. CASE op' = [op EXCEPT ![tx] = NoOp] /\ seeded' = TRUE
    BY <2>1, NoOpTyped
  <2>2. ASSUME NEW last \in batch, UNCHANGED seeded,
               op' = [op EXCEPT ![tx].pc = "seeding", ![tx].batch = seeds,
                                ![tx].last = last]
        PROVE  \E o \in Op : /\ op' = [op EXCEPT ![tx] = o]
                             /\ o.pc \in {"idle", "seeding"}
                             /\ \A seed \in o.batch : seed.deal \in created
                             /\ seeded' \in BOOLEAN
    <3> DEFINE o == [op[tx] EXCEPT !.pc = "seeding", !.batch = seeds, !.last = last]
    <3>1. last \in Nat
      BY <1>3
    <3> HIDE DEF batch, seeds
    <3>2. o \in Op /\ o.pc = "seeding" /\ o.batch = seeds
      BY <1>2, <1>5, <3>1 DEF Op, OpPc
    <3>3. op' = [op EXCEPT ![tx] = o]
      BY <1>2, <2>2 DEF TypeOK, Op
    <3> QED BY <1>2, <1>5, <2>2, <3>2, <3>3 DEF TypeOK
  <2> QED BY <2>1, <2>2 DEF ReadBatch
<1>7. PICK o \in Op : /\ op' = [op EXCEPT ![tx] = o]
                      /\ o.pc \in {"idle", "seeding"}
                      /\ \A seed \in o.batch : seed.deal \in created
                      /\ seeded' \in BOOLEAN
  BY <1>6
<1>8. OwnOp(tx, o)
  BY <1>2, <1>7, OwnOpFull
<1>9. TypeOK'
  BY <1>1, <1>2, <1>7, <1>8 DEF TypeOK, OwnOp, LogTypeOK, logVars
<1>10. DealSide'
  <2>1. OpPlaced(o, created')
    BY <1>1, <1>7 DEF OpPlaced, Holding, Inserting
  <2>2. \A t \in Txs : op[t].pc \in Inserting => op[t].deal \notin created'
    BY <1>1, <1>2 DEF DealSide, OpsPlaced, OpPlaced
  <2>3. op[tx].pc \notin Holding /\ o.pc \notin Holding \cup Inserting
    BY <1>1, <1>7 DEF Holding, Inserting
  <2> QED BY <1>1, <1>2, <1>8, <2>1, <2>2, <2>3, NotHolding, ReleaseDealSide
<1> QED BY <1>1, <1>7, <1>8, <1>9, <1>10, QuietInv DEF Recording

-----------------------------------------------------------------------------
(***************************************************************************)
(* Operations on the log.                                                  *)
(***************************************************************************)

\* A step that adds nothing to the committed log is nobody else's business.
LEMMA OwnLogSide ==
    ASSUME LogSide, NEW tx \in Txs, NEW o, OwnOp(tx, o),
           created \subseteq created', transitions' = transitions,
           \A t \in Txs : t # tx => pending'[t] = pending[t] /\ call'[t] = call[t],
           \A r \in pending'[tx] : RowOwned(o, r, created'),
           CallOwned(o, call'[tx]),
           TailCurrent(call'[tx], Visible(tx)', transitions),
           call'[tx].pc = "conflict" => SeededHead(transitions, call'[tx].subject),
           MoveRecorded(o, call'[tx], Visible(tx)')
    PROVE  LogSide'
<1>1. \A t \in Txs : t # tx => Visible(t)' = Visible(t)
  BY DEF Visible
<1>2. RowsOwned'
  BY DEF LogSide, RowsOwned, RowOwned, OwnOp
<1>3. CallsOwned'
  BY DEF LogSide, CallsOwned, OwnOp
<1>4. TailsCurrent'
  BY <1>1 DEF LogSide, TailsCurrent
<1>5. OnlyTheBackfillRaces'
  BY DEF LogSide, OnlyTheBackfillRaces
<1>6. MovesRecorded'
  BY <1>1 DEF LogSide, MovesRecorded, OwnOp
<1> QED BY <1>2, <1>3, <1>4, <1>5, <1>6 DEF LogSide

\* Nobody else has rows of the deal a request is recording, but the backfill may
\* have a head for it, as long as the request sees no row of it.
LEMMA Intruder ==
    ASSUME DealInv, NEW tx \in Txs, NEW t \in Txs, t # tx, op[t].pc \in Recording,
           NEW r \in pending[tx], r.subject = op[t].deal
    PROVE  /\ r.prev = NoRow /\ r.source = "backfill"
           /\ \A q \in Visible(t) : q.subject # op[t].deal
<1>1. TypeOK /\ DealSide /\ LogSide /\ RowsTyped /\ ChainRows
  BY DealInvParts, LogInvRows
<1>2. RowOwned(op[tx], r, created)
  BY <1>1 DEF LogSide, RowsOwned
<1>3. op[t].deal \in Subjects
  BY <1>1 DEF DealSide, OpsPlaced, OpPlaced, Recording, Holding, Inserting, TypeOK
<1>4. op[tx].pc \notin Recording
  <2> SUFFICES ASSUME op[tx].pc \in Recording PROVE FALSE
    OBVIOUS
  <2>1. op[tx].deal = op[t].deal
    BY <1>2 DEF RowOwned, Recording
  <2>2. CASE op[tx].pc = "logging" /\ op[t].pc = "logging"
    <3>1. lock[op[t].deal] = t /\ lock[op[t].deal] = tx
      BY <1>1, <1>3, <2>1, <2>2 DEF DealSide, LocksHeld, Holding
    <3> QED BY <3>1
  <2>3. CASE op[tx].pc = "heading" /\ op[t].pc = "heading"
    BY <1>1, <2>1, <2>3 DEF DealSide, SavesApart, Inserting
  <2>4. CASE op[tx].pc # op[t].pc
    BY <1>1, <2>1, <2>4 DEF DealSide, OpsPlaced, OpPlaced, Recording, Holding, Inserting
  <2> QED BY <2>2, <2>3, <2>4 DEF Recording
<1>5. r.prev = NoRow /\ r.source = "backfill"
  BY <1>2, <1>4 DEF RowOwned
<1>6. ASSUME NEW q \in Visible(t), q.subject = op[t].deal
      PROVE  FALSE
  <2>1. PICK h \in Heads(Visible(t), q.subject) : TRUE
    BY <1>1, <1>6 DEF ChainRows, RowsHeaded, Heads, RowsOf, Visible
  <2>2. h \in AllRows /\ r \in AllRows /\ SameKey(r, h)
    BY <1>5, <1>6, <2>1, VisibleInAll, AllRowsSplit DEF Heads, RowsOf, SameKey
  <2>3. h = r
    BY <1>1, <2>2 DEF ChainRows, KeysUnique
  <2>4. CASE h \in transitions
    <3>1. h.id < r.id
      BY <1>1, <2>3, <2>4 DEF ChainRows, OneWriter
    <3> QED BY <1>1, <2>2, <2>3, <3>1, AllRowsTyped, RowFields
  <2>5. CASE h \in pending[t]
    BY <1>1, <2>3, <2>5 DEF ChainRows, OneWriter
  <2> QED BY <2>1, <2>4, <2>5 DEF Heads, RowsOf, Visible
<1> QED BY <1>5, <1>6

\* The rows of a transaction that commits do not follow rows others look at.
LEMMA NoFollower ==
    ASSUME DealInv, NEW tx \in Txs, NEW t \in Txs, t # tx, op[t].pc \in Recording,
           NEW q \in pending[tx],
           NEW p \in Visible(t), p.subject = op[t].deal
    PROVE  q.prev # p.id
<1> SUFFICES ASSUME q.prev = p.id PROVE FALSE
  OBVIOUS
<1>1. RowsTyped /\ ChainRows
  BY LogInvRows DEF DealInv
<1>2. p \in AllRows /\ p.id # NoRow
  BY <1>1, VisibleInAll, AllRowsTyped, RowFields
<1>3. PICK n \in Visible(tx) : n.id = q.prev /\ n.subject = q.subject
  BY <1>1, <1>2 DEF ChainRows, RowsLinked, LinkedIn
<1>4. n = p
  BY <1>1, <1>2, <1>3, VisibleInAll DEF ChainRows, IdsUnique
<1> QED BY <1>3, <1>4, Intruder

\* A commit shows its rows to all; what calls in progress rely on stays true.
LEMMA CommitLogSide ==
    ASSUME DealInv, NEW tx \in Txs, CommitLog(tx), NEW o, OwnOp(tx, o),
           created \subseteq created', o.pc \notin Recording
    PROVE  LogSide'
<1>1. /\ call[tx].pc = "idle" /\ call' = call
      /\ transitions' = transitions \cup pending[tx]
      /\ pending' = [pending EXCEPT ![tx] = {}]
  BY DEF CommitLog
<1>2. TypeOK /\ LogInv /\ DealSide /\ LogSide /\ RowsTyped
  BY DealInvParts, LogInvRows
<1>3. \A t \in Txs : pending'[t] = IF t = tx THEN {} ELSE pending[t]
  BY <1>1, <1>2 DEF RowsTyped
<1>4. \A t \in Txs : t # tx => Visible(t)' = Visible(t) \cup pending[tx]
  BY <1>1, <1>3 DEF Visible
<1>5. \A t \in Txs : t # tx => op'[t] = op[t]
  BY DEF OwnOp
<1>6. \A d : SeededHead(transitions, d) => SeededHead(transitions', d)
  BY <1>1 DEF SeededHead, Heads, RowsOf
<1>7. RowsOwned'
  BY <1>2, <1>3 DEF LogSide, RowsOwned, RowOwned, OwnOp
<1>8. CallsOwned'
  BY <1>1, <1>2 DEF LogSide, CallsOwned, CallOwned, OwnOp
<1>9. OnlyTheBackfillRaces'
  BY <1>1, <1>2, <1>6 DEF LogSide, OnlyTheBackfillRaces
<1>10. TailsCurrent'
  <2> SUFFICES ASSUME NEW t \in Txs, call[t].pc \in {"repair", "snapshot", "append"}
               PROVE  TailCurrent(call[t], Visible(t)', transitions')
    BY <1>1 DEF TailsCurrent, TailCurrent
  <2>1. t # tx /\ op[t].pc \in Recording /\ call[t].subject = op[t].deal
    BY <1>1, <1>2 DEF LogSide, CallsOwned, CallOwned
  <2>2. TailCurrent(call[t], Visible(t), transitions)
    BY <1>2 DEF LogSide, TailsCurrent
  <2>3. CASE /\ call[t].tail # NoRow
             /\ \A q \in Visible(t) : q.prev # call[t].tail
    <3>1. PICK p \in Visible(t) : p.id = call[t].tail /\ p.subject = call[t].subject
      BY <1>2, <2>3 DEF LogInv, CallsLinked, CallLinked
    <3>2. \A q \in pending[tx] : q.prev # call[t].tail
      BY <2>1, <3>1, NoFollower
    <3> QED BY <1>4, <2>1, <2>3, <3>2 DEF TailCurrent
  <2>4. CASE /\ call[t].tail = NoRow
             /\ SeededHead(transitions, call[t].subject)
    BY <1>6, <2>4 DEF TailCurrent
  <2>5. CASE /\ call[t].tail = NoRow
             /\ Heads(Visible(t), call[t].subject) = {}
    <3>1. CASE \A r \in pending[tx] : r.subject # call[t].subject
      <4>1. Heads(Visible(t)', call[t].subject) = {}
        BY <1>4, <2>1, <2>5, <3>1 DEF Heads, RowsOf
      <4> QED BY <2>5, <4>1 DEF TailCurrent
    <3>2. ASSUME NEW r \in pending[tx], r.subject = call[t].subject
          PROVE  SeededHead(transitions', call[t].subject)
      <4>1. r.prev = NoRow /\ r.source = "backfill"
        BY <2>1, <3>2, Intruder
      <4> QED BY <1>1, <3>2, <4>1 DEF SeededHead, Heads, RowsOf
    <3> QED BY <2>5, <3>1, <3>2 DEF TailCurrent
  <2> QED BY <2>2, <2>3, <2>4, <2>5 DEF TailCurrent
<1>11. MovesRecorded'
  <2> SUFFICES ASSUME NEW t \in Txs, op'[t].pc = "logging",
                      op'[t].previous # op'[t].target, call'[t].pc = "idle"
               PROVE  \E r \in Tails(Visible(t)', op'[t].deal) : r.to = op'[t].target
    BY DEF MovesRecorded, MoveRecorded
  <2>1. t # tx /\ op'[t] = op[t] /\ op[t].pc \in Recording
    BY <1>5 DEF OwnOp, Recording
  <2>2. PICK r \in Tails(Visible(t), op[t].deal) : r.to = op[t].target
    BY <1>1, <1>2, <2>1 DEF LogSide, MovesRecorded, MoveRecorded
  <2>3. r \in Visible(t) /\ r.subject = op[t].deal /\ \A q \in Visible(t) : q.prev # r.id
    BY <2>2 DEF Tails, RowsOf
  <2>4. \A q \in pending[tx] : q.prev # r.id
    BY <2>1, <2>3, NoFollower
  <2>5. r \in Tails(Visible(t)', op[t].deal)
    BY <1>4, <2>1, <2>3, <2>4 DEF Tails, RowsOf
  <2> QED BY <2>1, <2>2, <2>5
<1> QED BY <1>7, <1>8, <1>9, <1>10, <1>11 DEF LogSide

LEMMA RollbackInv ==
    ASSUME DealInv, NEW tx \in Txs, Abort(tx)
    PROVE  DealInv'
<1>1. /\ RollbackLog(tx)
      /\ lock' = [d \in Subjects |-> IF lock[d] = tx THEN None ELSE lock[d]]
      /\ op' = [op EXCEPT ![tx] = NoOp]
      /\ UNCHANGED <<created, deals, removed, webhooks, requests, seeded>>
  BY DEF Abort
<1>2. TypeOK /\ DealSide /\ LogSide /\ LogInv /\ RowsTyped
  BY DealInvParts, LogInvRows
<1>3. OwnOp(tx, NoOp)
  BY <1>1, <1>2, NoOpTyped, OwnOpFull
<1>4. LogInv'
  BY <1>1, <1>2, RollbackLogInv
<1>5. TypeOK'
  BY <1>1, <1>2, <1>3, <1>4 DEF TypeOK, OwnOp, LogInv, ChainInv
<1>6. DealSide'
  <2>1. NoOp.pc \notin Holding \cup Inserting /\ OpPlaced(NoOp, created')
    BY NoOpTyped, NoOpPlaced DEF Holding, Inserting
  <2>2. \A t \in Txs : op[t].pc \in Inserting => op[t].deal \notin created'
    BY <1>1, <1>2 DEF DealSide, OpsPlaced, OpPlaced
  <2> QED BY <1>1, <1>2, <1>3, <2>1, <2>2, ReleaseDealSide
<1>7. LogSide'
  <2>1. /\ transitions' = transitions
        /\ \A t \in Txs : /\ t # tx => pending'[t] = pending[t] /\ call'[t] = call[t]
                          /\ t = tx => pending'[t] = {} /\ call'[t] = NoCall
    BY <1>1, <1>2 DEF RollbackLog, TypeOK, LogTypeOK
  <2>2. NoCall.pc = "idle" /\ NoOp.pc = "idle"
    BY NoOpTyped DEF NoCall
  <2> QED BY <1>1, <1>2, <1>3, <2>1, <2>2, OwnLogSide
          DEF CallOwned, TailCurrent, MoveRecorded
<1> QED BY <1>2, <1>4, <1>5, <1>6, <1>7, DealInvParts DEF DealInv, DealSide, LogSide

LEMMA CommitMoveInv ==
    ASSUME DealInv, NEW tx \in Txs, CommitMove(tx)
    PROVE  DealInv'
<1> DEFINE d == op[tx].deal
           o == IF op[tx].previous # op[tx].target /\ op[tx].target \in Announced
                THEN [NoOp EXCEPT !.pc = "announcing", !.deal = d,
                                  !.target = op[tx].target]
                ELSE NoOp
<1>1. /\ op[tx].pc = "logging"
      /\ CommitLog(tx)
      /\ deals' = [deals EXCEPT ![d] = op[tx].row]
      /\ removed' = IF op[tx].removal = None THEN removed
                    ELSE [removed EXCEPT ![ListingOf[d]] = op[tx].removal]
      /\ lock' = [lock EXCEPT ![d] = None]
      /\ op' = [op EXCEPT ![tx] = o]
      /\ UNCHANGED <<created, webhooks, requests, seeded>>
  BY DEF CommitMove
<1>2. TypeOK /\ DealSide /\ LogSide /\ LogInv
  BY DealInvParts
<1>3. /\ op[tx].row \in Deal /\ op[tx].removal \in BOOLEAN \cup {None}
      /\ op[tx].target \in Statuses \cup {None}
  BY <1>2, OpTyped
<1>4. d \in created /\ d \in Subjects
  BY <1>1, <1>2 DEF DealSide, OpsPlaced, OpPlaced, Holding, TypeOK
<1>5. /\ o \in Op /\ o.pc \in {"idle", "announcing"} /\ o.batch = {}
      /\ o.pc = "announcing" => o.deal = d /\ o.target \in Announced
  BY <1>3, <1>4, NoOpTyped DEF Op, OpPc
<1> HIDE DEF o
<1>6. OwnOp(tx, o)
  BY <1>1, <1>2, <1>5, OwnOpFull
<1>7. LogInv'
  BY <1>1, <1>2, CommitLogInv
<1>8. TypeOK'
  <2>1. deals' \in [Subjects -> Deal] /\ lock' \in [Subjects -> Txs \cup {None}]
    BY <1>1, <1>2, <1>3 DEF TypeOK
  <2>2. removed' \in [Listings -> BOOLEAN]
    BY <1>1, <1>2, <1>3 DEF TypeOK
  <2> QED BY <1>1, <1>2, <1>6, <1>7, <2>1, <2>2 DEF TypeOK, OwnOp, LogInv, ChainInv
<1>9. DealSide'
  <2>1. o.pc \notin Holding \cup Inserting /\ OpPlaced(o, created')
    BY <1>1, <1>4, <1>5 DEF OpPlaced, Holding, Inserting
  <2>2. \A t \in Txs : op[t].pc \in Inserting => op[t].deal \notin created'
    BY <1>1, <1>2 DEF DealSide, OpsPlaced, OpPlaced
  <2>3. \A e \in Subjects : lock[e] = tx <=> e = d
    BY <1>1, <1>2, <1>4 DEF DealSide, LocksHeld, Holding
  <2>4. \A e \in Subjects : lock'[e] = IF lock[e] = tx THEN None ELSE lock[e]
    BY <1>1, <1>2, <1>4, <2>3 DEF TypeOK
  <2>5. ASSUME NEW t \in Txs, t # tx, op[t].pc \in Holding
        PROVE  deals'[op[t].deal] = deals[op[t].deal]
    <3>1. op[t].deal \in Subjects /\ lock[op[t].deal] = t
      BY <1>2, <2>5 DEF DealSide, OpsPlaced, OpPlaced, TypeOK, LocksHeld
    <3>2. op[t].deal # d
      BY <2>3, <2>5, <3>1
    <3> QED BY <1>1, <1>2, <3>1, <3>2 DEF TypeOK
  <2> QED BY <1>1, <1>2, <1>6, <2>1, <2>2, <2>4, <2>5, ReleaseDealSide
<1>10. LogSide'
  BY <1>1, <1>5, <1>6, CommitLogSide DEF Recording
<1> QED BY <1>7, <1>8, <1>9, <1>10 DEF DealInv, DealSide, LogSide

LEMMA CommitCreateInv ==
    ASSUME DealInv, NEW tx \in Txs, CommitCreate(tx)
    PROVE  DealInv'
<1> DEFINE d == op[tx].deal
<1>1. /\ op[tx].pc = "heading"
      /\ CommitLog(tx)
      /\ created' = created \cup {d}
      /\ deals' = [deals EXCEPT ![d] = op[tx].row]
      /\ op' = [op EXCEPT ![tx] = NoOp]
      /\ UNCHANGED <<lock, removed, webhooks, requests, seeded>>
  BY DEF CommitCreate
<1>2. TypeOK /\ DealSide /\ LogSide /\ LogInv /\ op[tx].row \in Deal
  BY DealInvParts, OpTyped
<1>3. d \notin created /\ d \in Subjects
  BY <1>1, <1>2 DEF DealSide, OpsPlaced, OpPlaced, Inserting
<1>4. OwnOp(tx, NoOp)
  BY <1>1, <1>2, NoOpTyped, OwnOpFull
<1>5. LogInv'
  BY <1>1, <1>2, CommitLogInv
<1>6. TypeOK'
  BY <1>1, <1>2, <1>3, <1>4, <1>5 DEF TypeOK, OwnOp, LogInv, ChainInv
<1>7. DealSide'
  <2>1. NoOp.pc \notin Holding \cup Inserting /\ OpPlaced(NoOp, created')
    BY NoOpTyped, NoOpPlaced DEF Holding, Inserting
  <2>2. ASSUME NEW t \in Txs, t # tx, op[t].pc \in Inserting
        PROVE  op[t].deal \notin created'
    BY <1>1, <1>2, <2>2 DEF DealSide, OpsPlaced, OpPlaced, SavesApart, Inserting
  <2>3. ASSUME NEW t \in Txs, op[t].pc \in Holding
        PROVE  deals'[op[t].deal] = deals[op[t].deal]
    <3>1. op[t].deal \in created
      BY <1>2, <2>3 DEF DealSide, OpsPlaced, OpPlaced
    <3> QED BY <1>1, <1>2, <1>3, <3>1 DEF TypeOK
  <2>4. op[tx].pc \notin Holding
    BY <1>1 DEF Holding
  <2> QED BY <1>1, <1>2, <1>4, <2>1, <2>2, <2>3, <2>4, NotHolding, ReleaseDealSide
<1>8. LogSide'
  BY <1>1, <1>4, NoOpTyped, CommitLogSide DEF Recording
<1> QED BY <1>5, <1>6, <1>7, <1>8 DEF DealInv, DealSide, LogSide

LEMMA CommitBatchInv ==
    ASSUME DealInv, NEW tx \in Txs, CommitBatch(tx)
    PROVE  DealInv'
<1> DEFINE o == [op[tx] EXCEPT !.pc = "reading"]
<1>1. /\ op[tx].pc = "seeding" /\ op[tx].batch = {}
      /\ CommitLog(tx)
      /\ UNCHANGED <<created, deals, lock, removed, webhooks, requests, seeded>>
  BY DEF CommitBatch
<1>2. TypeOK /\ DealSide /\ LogSide /\ LogInv /\ op[tx] \in Op
  BY DealInvParts, OpTyped
<1>3. o \in Op /\ o.pc = "reading" /\ o.batch = {}
  BY <1>1, <1>2 DEF Op, OpPc
<1>4. op' = [op EXCEPT ![tx] = o]
  BY <1>2 DEF CommitBatch, TypeOK, Op
<1> HIDE DEF o
<1>5. OwnOp(tx, o)
  BY <1>2, <1>3, <1>4, OwnOpFull
<1>6. LogInv'
  BY <1>1, <1>2, CommitLogInv
<1>7. TypeOK'
  BY <1>1, <1>2, <1>5, <1>6 DEF TypeOK, OwnOp, LogInv, ChainInv
<1>8. DealSide'
  <2>1. o.pc \notin Holding \cup Inserting /\ OpPlaced(o, created')
    BY <1>3 DEF OpPlaced, Holding, Inserting
  <2>2. \A t \in Txs : op[t].pc \in Inserting => op[t].deal \notin created'
    BY <1>1, <1>2 DEF DealSide, OpsPlaced, OpPlaced
  <2>3. op[tx].pc \notin Holding
    BY <1>1 DEF Holding
  <2> QED BY <1>1, <1>2, <1>5, <2>1, <2>2, <2>3, NotHolding, ReleaseDealSide
<1>9. LogSide'
  BY <1>1, <1>3, <1>5, CommitLogSide DEF Recording
<1> QED BY <1>6, <1>7, <1>8, <1>9 DEF DealInv, DealSide, LogSide

\* What record_transition knows of the log when it has loaded the tail: the row
\* it is to follow is the last one, or there is none at all.
LEMMA RecordTails ==
    ASSUME LogInv, NEW tx \in Txs, NEW s \in Subjects,
           NEW expected \in Statuses \cup {None}, NEW to \in Statuses,
           NEW source, NEW actor, NEW snapshot,
           RecordTransition(tx, s, expected, to, source, actor, snapshot)
    PROVE  \/ /\ call' = call
              /\ \E r \in Tails(Visible(tx), s) : r.to = to
           \/ \E c : /\ call' = [call EXCEPT ![tx] = c]
                     /\ c.pc \in {"repair", "snapshot", "append"}
                     /\ c.subject = s /\ c.to = to
                     /\ TailCurrent(c, Visible(tx), transitions)
<1>1. RowsTyped /\ ChainRows
  BY LogInvRows
<1>2. PICK tail \in TailChoices(Visible(tx), s) :
        LET stage == Prologue(tail.to, expected, to, snapshot)
        IN call' = IF stage.pc = "idle" THEN call
                   ELSE [call EXCEPT ![tx] =
                           [pc |-> stage.pc, subject |-> s, tail |-> tail.id,
                            logged |-> tail.to, expected |-> stage.from, to |-> to,
                            source |-> source, actor |-> actor,
                            snapshot |-> snapshot]]
  BY DEF RecordTransition
<1> DEFINE stage == Prologue(tail.to, expected, to, snapshot)
           c == [pc |-> stage.pc, subject |-> s, tail |-> tail.id,
                 logged |-> tail.to, expected |-> stage.from, to |-> to,
                 source |-> source, actor |-> actor, snapshot |-> snapshot]
<1>3. stage.pc \in {"idle", "repair", "snapshot", "append"}
      /\ (stage.pc = "idle" => tail.to = to)
  BY DEF Prologue, AfterLink
<1>4. CASE Tails(Visible(tx), s) = {}
  <2>1. tail = [id |-> NoRow, to |-> None]
    BY <1>2, <1>4 DEF TailChoices
  <2>2. RowsOf(Visible(tx), s) = {}
    BY <1>1, <1>4, VisibleLinked, TailExists
  <2>3. Heads(Visible(tx), s) = {}
    BY <2>2 DEF Heads
  <2>4. c.tail = NoRow /\ c.subject = s /\ c.pc = stage.pc /\ c.to = to
    BY <2>1
  <2>5. stage.pc # "idle"
    BY <1>3, <2>1, NoneAssumption
  <2>6. call' = [call EXCEPT ![tx] = c]
    BY <1>2, <2>5
  <2> HIDE DEF c, stage
  <2>7. TailCurrent(c, Visible(tx), transitions)
    BY <2>3, <2>4 DEF TailCurrent
  <2> QED BY <1>3, <2>4, <2>5, <2>6, <2>7
<1>5. CASE Tails(Visible(tx), s) # {}
  <2>1. PICK r \in Tails(Visible(tx), s) : tail = [id |-> r.id, to |-> r.to]
    BY <1>2, <1>5 DEF TailChoices
  <2>2. /\ r \in Visible(tx) /\ r.id # NoRow
        /\ \A q \in Visible(tx) : q.prev # r.id
    BY <1>1, <2>1, VisibleInAll, AllRowsTyped, RowFields DEF Tails, RowsOf
  <2>3. CASE stage.pc = "idle"
    BY <1>2, <1>3, <2>1, <2>3
  <2>4. CASE stage.pc # "idle"
    <3>1. c.tail = r.id /\ c.subject = s /\ c.pc = stage.pc /\ c.to = to
      BY <2>1
    <3>2. call' = [call EXCEPT ![tx] = c]
      BY <1>2, <2>4
    <3> HIDE DEF c, stage
    <3>3. TailCurrent(c, Visible(tx), transitions)
      BY <2>2, <3>1 DEF TailCurrent
    <3> QED BY <1>3, <2>4, <3>1, <3>2, <3>3
  <2> QED BY <2>3, <2>4
<1> QED BY <1>4, <1>5

\* A caller enters record_transition, or has nothing to record.
LEMMA RecordLogSide ==
    ASSUME DealInv, NEW tx \in Txs, NEW o, OwnOp(tx, o),
           op[tx].pc \notin Recording \cup {"seeding"},
           o.pc \in Recording, created' = created,
           \/ UNCHANGED logVars /\ (o.pc = "logging" => o.previous = o.target)
           \/ \E expected \in Statuses \cup {None} : \E source, actor, snapshot :
                /\ RecordTransition(tx, o.deal, expected, o.row.status, source,
                                    actor, snapshot)
                /\ o.deal \in Subjects /\ o.row.status \in Statuses
                /\ o.pc = "logging" => o.row.status = o.target
    PROVE  LogSide'
<1>1. TypeOK /\ LogInv /\ LogSide
  BY DealInvParts
<1>2. pending[tx] = {} /\ call[tx].pc = "idle" /\ call \in [Txs -> Call]
  BY <1>1, NothingPending DEF TypeOK, LogTypeOK
<1>3. CASE UNCHANGED logVars /\ (o.pc = "logging" => o.previous = o.target)
  <2>1. UNCHANGED <<transitions, pending, call>>
    BY <1>3 DEF logVars
  <2> QED BY <1>1, <1>2, <1>3, <2>1, OwnLogSide
          DEF CallOwned, TailCurrent, MoveRecorded
<1>4. ASSUME NEW expected \in Statuses \cup {None}, NEW source, NEW actor, NEW snapshot,
             RecordTransition(tx, o.deal, expected, o.row.status, source, actor, snapshot),
             o.deal \in Subjects, o.row.status \in Statuses,
             o.pc = "logging" => o.row.status = o.target
      PROVE  LogSide'
  <2>1. UNCHANGED <<transitions, pending>> /\ Visible(tx)' = Visible(tx)
    BY <1>4 DEF RecordTransition, Visible
  <2>2. CASE /\ call' = call
             /\ \E r \in Tails(Visible(tx), o.deal) : r.to = o.row.status
    <3>1. MoveRecorded(o, call[tx], Visible(tx))
      BY <1>4, <2>2 DEF MoveRecorded
    <3> QED BY <1>1, <1>2, <2>1, <2>2, <3>1, OwnLogSide
            DEF CallOwned, TailCurrent
  <2>3. ASSUME NEW c, call' = [call EXCEPT ![tx] = c],
               c.pc \in {"repair", "snapshot", "append"},
               c.subject = o.deal, c.to = o.row.status,
               TailCurrent(c, Visible(tx), transitions)
        PROVE  LogSide'
    <3>1. \A t \in Txs : call'[t] = IF t = tx THEN c ELSE call[t]
      BY <1>2, <2>3
    <3>2. CallOwned(o, call'[tx]) /\ MoveRecorded(o, call'[tx], Visible(tx)')
      BY <2>3, <3>1 DEF CallOwned, MoveRecorded
    <3>3. /\ TailCurrent(call'[tx], Visible(tx)', transitions)
          /\ call'[tx].pc # "conflict"
      BY <2>1, <2>3, <3>1
    <3>4. /\ \A r \in pending'[tx] : RowOwned(o, r, created')
          /\ \A t \in Txs : t # tx => pending'[t] = pending[t] /\ call'[t] = call[t]
      BY <1>2, <2>1, <3>1
    <3>5. LogSide /\ transitions' = transitions /\ created \subseteq created'
      BY <1>1, <2>1
    <3>6. call'[tx].pc = "conflict" => SeededHead(transitions, call'[tx].subject)
      BY <3>3
    <3> QED BY <3>2, <3>3, <3>4, <3>5, <3>6, OwnLogSide
  <2>4. \/ /\ call' = call
           /\ \E r \in Tails(Visible(tx), o.deal) : r.to = o.row.status
        \/ \E c : /\ call' = [call EXCEPT ![tx] = c]
                  /\ c.pc \in {"repair", "snapshot", "append"}
                  /\ c.subject = o.deal /\ c.to = o.row.status
                  /\ TailCurrent(c, Visible(tx), transitions)
    <3>1. \A s \in Subjects, to \in Statuses :
            RecordTransition(tx, s, expected, to, source, actor, snapshot) =>
              \/ /\ call' = call
                 /\ \E r \in Tails(Visible(tx), s) : r.to = to
              \/ \E c : /\ call' = [call EXCEPT ![tx] = c]
                        /\ c.pc \in {"repair", "snapshot", "append"}
                        /\ c.subject = s /\ c.to = to
                        /\ TailCurrent(c, Visible(tx), transitions)
      BY <1>1, RecordTails
    <3> QED BY <1>4, <3>1
  <2> HIDE <1>4
  <2> QED BY <2>2, <2>3, <2>4
<1> QED BY <1>3, <1>4

LEMMA RecordMoveInv ==
    ASSUME DealInv, NEW tx \in Txs, RecordMove(tx)
    PROVE  DealInv'
<1> DEFINE d == op[tx].deal
           o == [op[tx] EXCEPT !.pc = "logging"]
<1>1. /\ op[tx].pc = "flushed"
      /\ IF op[tx].previous # op[tx].target
         THEN RecordTransition(tx, d, op[tx].previous, op[tx].target, "api",
                               op[tx].user, op[tx].row.status)
         ELSE UNCHANGED logVars
      /\ UNCHANGED <<created, deals, lock, removed, webhooks, requests, seeded>>
  BY DEF RecordMove
<1>2. TypeOK /\ DealSide /\ LogInv /\ op[tx] \in Op /\ op[tx].row \in Deal
  BY DealInvParts, OpTyped
<1>3. /\ OpPlaced(op[tx], created) /\ RowCurrent(op[tx], deals[d])
      /\ d \in created /\ d \in Subjects
      /\ op[tx].target \in Statuses /\ op[tx].user \in Actors
      /\ op[tx].previous \in Statuses \cup {None}
  BY <1>1, <1>2, OpTyped DEF DealSide, OpsPlaced, OpPlaced, RowsCurrent, Holding, TypeOK
<1>4. op[tx].row.status = op[tx].target
  BY <1>1, <1>2, <1>3, DealTyped, MovedTyped DEF RowCurrent, Holding
<1>5. /\ o \in Op /\ o.pc = "logging" /\ o.deal = d /\ o.batch = op[tx].batch
      /\ o.previous = op[tx].previous /\ o.target = op[tx].target
      /\ o.row = op[tx].row /\ o.user = op[tx].user
  BY <1>2 DEF Op, OpPc
<1>6. op' = [op EXCEPT ![tx] = o]
  BY <1>2 DEF RecordMove, TypeOK, Op
<1> HIDE DEF o
<1>7. OwnOp(tx, o)
  BY <1>2, <1>5, <1>6, OwnOpFull
<1>8. LogInv'
  <2>1. CASE UNCHANGED logVars
    BY <1>2, <2>1, StutterInv
  <2>2. CASE RecordTransition(tx, d, op[tx].previous, op[tx].target, "api",
                              op[tx].user, op[tx].row.status)
    <3>1. "api" \in CallerSources /\ op[tx].row.status \in Payloads
      BY <1>3, <1>4, DealAssumption
    <3> QED BY <1>2, <1>3, <2>2, <3>1, RecordTransitionInv
  <2> QED BY <1>1, <2>1, <2>2
<1>9. TypeOK'
  BY <1>1, <1>2, <1>7, <1>8 DEF TypeOK, OwnOp, LogInv, ChainInv
<1>10. DealSide'
  <2>1. OpPlaced(o, created')
    BY <1>1, <1>3, <1>5 DEF OpPlaced, Holding, Inserting
  <2>2. \A e \in Subjects : lock'[e] = tx <=> o.pc \in Holding /\ o.deal = e
    BY <1>1, <1>2, <1>5 DEF DealSide, LocksHeld, Holding
  <2>3. \A t \in Txs : op[t].pc \in Inserting => op[t].deal \notin created'
    BY <1>1, <1>2 DEF DealSide, OpsPlaced, OpPlaced
  <2>4. RowCurrent(o, deals'[o.deal])
    BY <1>1, <1>3, <1>5 DEF RowCurrent, Holding
  <2>5. o.pc \notin Inserting
    BY <1>5 DEF Inserting
  <2> QED BY <1>1, <1>2, <1>7, <2>1, <2>2, <2>3, <2>4, <2>5, OwnDealSide
<1>11. LogSide'
  <2>1. op[tx].pc \notin Recording \cup {"seeding"} /\ o.pc \in Recording
    BY <1>1, <1>5 DEF Recording
  <2>2. CASE op[tx].previous = op[tx].target
    BY <1>1, <1>5, <1>7, <2>1, <2>2, RecordLogSide
  <2>3. CASE op[tx].previous # op[tx].target
    <3>1. /\ RecordTransition(tx, o.deal, op[tx].previous, o.row.status, "api",
                              op[tx].user, op[tx].row.status)
          /\ o.deal \in Subjects /\ o.row.status \in Statuses
          /\ o.row.status = o.target
      BY <1>1, <1>3, <1>4, <1>5, <2>3
    <3> QED BY <1>1, <1>3, <1>7, <2>1, <3>1, RecordLogSide
  <2> QED BY <2>2, <2>3
<1> QED BY <1>8, <1>9, <1>10, <1>11 DEF DealInv, DealSide, LogSide

LEMMA RecordCreatedInv ==
    ASSUME DealInv, NEW tx \in Txs, RecordCreated(tx)
    PROVE  DealInv'
<1> DEFINE d == op[tx].deal
           status == op[tx].row.status
           o == [op[tx] EXCEPT !.pc = "heading"]
<1>1. /\ op[tx].pc = "inserted"
      /\ IF status # None
         THEN RecordTransition(tx, d, None, status, op[tx].source, op[tx].user, status)
         ELSE UNCHANGED logVars
      /\ UNCHANGED <<created, deals, lock, removed, webhooks, requests, seeded>>
  BY DEF RecordCreated
<1>2. TypeOK /\ DealSide /\ LogInv /\ op[tx] \in Op
  BY DealInvParts, OpTyped
<1>3. /\ OpPlaced(op[tx], created) /\ d \in Subjects
      /\ status \in Statuses \cup {None} /\ op[tx].source \in CallerSources
      /\ op[tx].user \in Actors \cup {None}
  BY <1>1, <1>2, OpTyped DEF DealSide, OpsPlaced, OpPlaced, Inserting
<1>4. /\ o \in Op /\ o.pc = "heading" /\ o.deal = d /\ o.batch = op[tx].batch
      /\ o.row = op[tx].row
  BY <1>2 DEF Op, OpPc
<1>5. op' = [op EXCEPT ![tx] = o]
  BY <1>2 DEF RecordCreated, TypeOK, Op
<1> HIDE DEF o
<1>6. OwnOp(tx, o)
  BY <1>2, <1>4, <1>5, OwnOpFull
<1>7. LogInv'
  <2>1. CASE UNCHANGED logVars
    BY <1>2, <2>1, StutterInv
  <2>2. CASE status # None
    <3>1. status \in Statuses /\ status \in Payloads
      BY <1>3, <2>2, DealAssumption
    <3> QED BY <1>1, <1>2, <1>3, <2>2, <3>1, RecordTransitionInv
  <2> QED BY <1>1, <2>1, <2>2
<1>8. TypeOK'
  BY <1>1, <1>2, <1>6, <1>7 DEF TypeOK, OwnOp, LogInv, ChainInv
<1>9. DealSide'
  <2>1. OpPlaced(o, created')
    BY <1>1, <1>3, <1>4 DEF OpPlaced, Holding, Inserting
  <2>2. \A e \in Subjects : lock'[e] = tx <=> o.pc \in Holding /\ o.deal = e
    BY <1>1, <1>2, <1>4 DEF DealSide, LocksHeld, Holding
  <2>3. \A t \in Txs : op[t].pc \in Inserting => op[t].deal \notin created'
    BY <1>1, <1>2 DEF DealSide, OpsPlaced, OpPlaced
  <2>4. RowCurrent(o, deals'[o.deal])
    BY <1>4 DEF RowCurrent, Holding
  <2>5. \A t \in Txs : t # tx /\ op[t].pc \in Inserting => op[t].deal # o.deal
    BY <1>1, <1>2, <1>4 DEF DealSide, SavesApart, Inserting
  <2> QED BY <1>1, <1>2, <1>6, <2>1, <2>2, <2>3, <2>4, <2>5, OwnDealSide
<1>10. LogSide'
  <2>1. op[tx].pc \notin Recording \cup {"seeding"} /\ o.pc \in Recording
        /\ o.pc # "logging"
    BY <1>1, <1>4 DEF Recording
  <2>2. CASE status = None
    BY <1>1, <1>4, <1>6, <2>1, <2>2, RecordLogSide
  <2>3. CASE status # None
    <3>1. /\ RecordTransition(tx, o.deal, None, o.row.status, op[tx].source,
                              op[tx].user, status)
          /\ o.deal \in Subjects /\ o.row.status \in Statuses
      BY <1>1, <1>3, <1>4, <2>3
    <3> QED BY <1>1, <1>6, <2>1, <3>1, RecordLogSide
  <2> QED BY <2>2, <2>3
<1> QED BY <1>7, <1>8, <1>9, <1>10 DEF DealInv, DealSide, LogSide

LEMMA SameDeals ==
    ASSUME TypeOK, DealSide, UNCHANGED dealVars, LogTypeOK'
    PROVE  TypeOK' /\ DealSide' /\ \A tx \in Txs : OwnOp(tx, op[tx])
<1>1. UNCHANGED <<created, deals, lock, removed, op, webhooks, requests, seeded>>
  BY DEF dealVars
<1>2. TypeOK'
  BY <1>1 DEF TypeOK
<1>3. DealSide'
  BY <1>1 DEF DealSide, OpsPlaced, SavesApart, LocksHeld, RowsCurrent
<1>4. \A tx \in Txs : OwnOp(tx, op[tx])
  BY <1>1 DEF TypeOK, OwnOp
<1> QED BY <1>2, <1>3, <1>4

LEMMA SnapshotDealInv ==
    ASSUME DealInv, NEW tx \in Txs, SnapshotDeal(tx)
    PROVE  DealInv'
<1>1. PICK seed \in op[tx].batch : SeedSnapshot(tx, seed.deal, seed.status)
  BY DEF SnapshotDeal
<1>2. TypeOK /\ LogInv /\ DealSide /\ LogSide /\ op[tx].batch \subseteq Seeding
  BY DealInvParts, OpTyped
<1>3. seed.deal \in Subjects /\ seed.status \in Payloads
  BY <1>2, DealAssumption DEF Seeding
<1>4. LogInv'
  BY <1>1, <1>2, <1>3, SeedSnapshotInv
<1>5. TypeOK' /\ DealSide'
  BY <1>2, <1>4, SameDeals DEF SnapshotDeal, LogInv, ChainInv
<1>6. LogSide'
  <2>1. UNCHANGED <<transitions, pending, call, created, op>>
    BY <1>1 DEF SnapshotDeal, SeedSnapshot, dealVars
  <2> QED BY <1>2, <2>1 DEF LogSide, RowsOwned, CallsOwned, TailsCurrent, Visible,
                            OnlyTheBackfillRaces, MovesRecorded
<1> QED BY <1>4, <1>5, <1>6 DEF DealInv, DealSide, LogSide

LEMMA SeedDealInv ==
    ASSUME DealInv, NEW tx \in Txs, SeedDeal(tx)
    PROVE  DealInv'
<1>1. PICK seed \in op[tx].batch :
        /\ SeedHead(tx, seed.deal, seed.status, seed.actor, seed.status)
        /\ op' = [op EXCEPT ![tx].batch = @ \ {seed}]
  BY DEF SeedDeal
<1>2. TypeOK /\ LogInv /\ DealSide /\ LogSide /\ op[tx] \in Op
      /\ op[tx].batch \subseteq Seeding
  BY DealInvParts, OpTyped
<1>3. /\ op[tx].pc = "seeding"
      /\ UNCHANGED <<created, deals, lock, removed, webhooks, requests, seeded>>
  BY DEF SeedDeal
<1>4. seed.deal \in Subjects /\ seed.status \in Statuses /\ seed.status \in Payloads
      /\ seed.actor \in Actors \cup {None}
  BY <1>2, DealAssumption DEF Seeding
<1>5. OpPlaced(op[tx], created) /\ seed.deal \in created
  BY <1>2 DEF DealSide, OpsPlaced, OpPlaced
<1> DEFINE o == [op[tx] EXCEPT !.batch = @ \ {seed}]
<1>6. /\ o \in Op /\ o.pc = "seeding" /\ o.batch = op[tx].batch \ {seed}
  BY <1>2, <1>3 DEF Op
<1>7. op' = [op EXCEPT ![tx] = o]
  BY <1>1, <1>2 DEF TypeOK, Op
<1> HIDE DEF o
<1>8. OwnOp(tx, o)
  BY <1>2, <1>6, <1>7, OwnOpFull
<1>9. LogInv'
  BY <1>1, <1>2, <1>4, SeedHeadInv
<1>10. TypeOK'
  BY <1>2, <1>3, <1>8, <1>9 DEF TypeOK, OwnOp, LogInv, ChainInv
<1>11. DealSide'
  <2>1. o.pc \notin Holding \cup Inserting /\ OpPlaced(o, created')
    BY <1>3, <1>5, <1>6 DEF OpPlaced, Holding, Inserting
  <2>2. \A t \in Txs : op[t].pc \in Inserting => op[t].deal \notin created'
    BY <1>2, <1>3 DEF DealSide, OpsPlaced, OpPlaced
  <2>3. op[tx].pc \notin Holding
    BY <1>3 DEF Holding
  <2> QED BY <1>2, <1>3, <1>8, <2>1, <2>2, <2>3, NotHolding, ReleaseDealSide
<1>12. LogSide'
  <2> DEFINE r == [id |-> nextId, subject |-> seed.deal, prev |-> NoRow, from |-> None,
                   to |-> seed.status, source |-> "backfill", actor |-> seed.actor,
                   snapshot |-> seed.status]
  <2>1. /\ pending' = [pending EXCEPT
                         ![tx] = IF Heads(Visible(tx), seed.deal) = {} THEN @ \cup {r} ELSE @]
        /\ UNCHANGED <<transitions, call>> /\ call[tx].pc = "idle"
    BY <1>1 DEF SeedHead
  <2>2. r.subject = seed.deal /\ r.prev = NoRow /\ r.source = "backfill"
    OBVIOUS
  <2> HIDE DEF r
  <2>3. \A t \in Txs : t # tx => pending'[t] = pending[t]
    BY <1>2, <2>1 DEF TypeOK, LogTypeOK
  <2>4. \A q \in pending'[tx] : q \in pending[tx] \/ q = r
    BY <1>2, <2>1 DEF TypeOK, LogTypeOK
  <2>5. \A q \in pending'[tx] : RowOwned(o, q, created')
    BY <1>2, <1>3, <1>5, <1>6, <2>2, <2>4 DEF LogSide, RowsOwned, RowOwned, Recording
  <2> QED BY <1>2, <1>3, <1>6, <1>8, <2>1, <2>3, <2>5, OwnLogSide
          DEF CallOwned, TailCurrent, MoveRecorded
<1> QED BY <1>9, <1>10, <1>11, <1>12 DEF DealInv, DealSide, LogSide

\* An insert of record_transition: the row becomes the last one, or the backfill
\* has written the head in between.
LEMMA InsertLogSide ==
    ASSUME DealInv, LogInv', NEW tx \in Txs, UNCHANGED dealVars,
           call[tx].pc \in {"repair", "append"},
           NEW r, r.id = nextId, r.subject = call[tx].subject, r.prev = call[tx].tail,
           NEW done, InsertTransition(tx, r, done),
           \/ done.pc = "idle" /\ r.to = call[tx].to
           \/ /\ done.pc \in {"snapshot", "append"} /\ done.tail = nextId
              /\ done.subject = call[tx].subject /\ done.to = call[tx].to
    PROVE  LogSide'
<1> DEFINE c == call[tx]
           o == op[tx]
<1>1. TypeOK /\ LogInv /\ LogSide /\ DealSide /\ RowsTyped
  BY DealInvParts, LogInvRows
<1>2. /\ UNCHANGED <<created, op>> /\ transitions' = transitions
      /\ OwnOp(tx, o)
  BY <1>1, SameDeals DEF dealVars, InsertTransition, LogInv, ChainInv
<1>3. /\ o.pc \in Recording /\ c.subject = o.deal /\ c.to = o.row.status
      /\ TailCurrent(c, Visible(tx), transitions)
  BY <1>1 DEF LogSide, CallsOwned, CallOwned, TailsCurrent
<1>4. call \in [Txs -> Call] /\ pending \in [Txs -> SUBSET Row]
  BY <1>1 DEF TypeOK, LogTypeOK
<1>5. \A q \in pending[tx] : RowOwned(o, q, created)
  BY <1>1 DEF LogSide, RowsOwned
<1>6. CASE /\ \E q \in Visible(tx) : SameKey(r, q)
           /\ call' = [call EXCEPT ![tx].pc = "conflict"]
           /\ UNCHANGED pending
  <2>1. /\ call'[tx].pc = "conflict" /\ call'[tx].subject = c.subject
        /\ call'[tx].to = c.to
        /\ \A t \in Txs : t # tx => call'[t] = call[t]
    BY <1>4, <1>6 DEF Call
  <2>2. SeededHead(transitions, c.subject)
    <3>1. PICK q \in Visible(tx) : SameKey(r, q)
      BY <1>6
    <3>2. CASE c.tail # NoRow
      BY <1>3, <3>1, <3>2 DEF TailCurrent, SameKey
    <3>3. CASE c.tail = NoRow
      <4>1. q \in Heads(Visible(tx), c.subject)
        BY <3>1, <3>3 DEF SameKey, Heads, RowsOf
      <4> QED BY <1>3, <3>3, <4>1 DEF TailCurrent
    <3> QED BY <3>2, <3>3
  <2>3. CallOwned(o, call'[tx]) /\ MoveRecorded(o, call'[tx], Visible(tx)')
    BY <1>3, <2>1 DEF CallOwned, MoveRecorded
  <2>4. TailCurrent(call'[tx], Visible(tx)', transitions)
    BY <2>1 DEF TailCurrent
  <2> QED BY <1>1, <1>2, <1>5, <1>6, <2>1, <2>2, <2>3, <2>4, OwnLogSide
<1>7. CASE call' = [call EXCEPT ![tx].pc = "rejected"]
  <2>1. call'[tx].pc = "rejected"
    BY <1>4, <1>7 DEF Call
  <2> QED BY <2>1 DEF LogInv, OnlyRacesFail
<1>8. CASE /\ pending' = [pending EXCEPT ![tx] = @ \cup {r}]
           /\ call' = [call EXCEPT ![tx] = done]
           /\ nextId' = nextId + 1
  <2>1. /\ call'[tx] = done /\ pending'[tx] = pending[tx] \cup {r}
        /\ \A t \in Txs : t # tx => call'[t] = call[t] /\ pending'[t] = pending[t]
    BY <1>4, <1>8
  <2>2. Visible(tx)' = Visible(tx) \cup {r}
    BY <1>2, <2>1 DEF Visible
  <2>3. ASSUME NEW q \in Visible(tx)', q.prev = nextId
        PROVE  FALSE
    <3>1. RowsTyped' /\ ChainRows'
      BY DEF LogInv, ChainInv, ChainRows, LogTypeOK, RowsTyped
    <3>2. q \in AllRows'
      BY <2>3, <1>2 DEF Visible, AllRows
    <3>3. q \in Row /\ q.id < nextId + 1
      BY <1>8, <3>1, <3>2 DEF ChainRows, IdsUnique, RowsTyped, AllRows
    <3>4. \E p \in Visible(tx)' : p.id = q.prev /\ p.id < q.id
      BY <1>1, <2>3, <3>1 DEF ChainRows, RowsLinked, LinkedIn, Visible, RowsTyped
    <3> QED BY <1>1, <2>3, <3>3, <3>4, RowFields DEF RowsTyped
  <2>4. \A q \in pending'[tx] : RowOwned(o, q, created')
    BY <1>2, <1>3, <1>5, <2>1 DEF RowOwned
  <2>5. CallOwned(o, call'[tx]) /\ call'[tx].pc # "conflict"
    BY <1>3, <2>1 DEF CallOwned
  <2>6. TailCurrent(call'[tx], Visible(tx)', transitions)
    BY <1>1, <2>1, <2>3 DEF TailCurrent, RowsTyped
  <2>7. MoveRecorded(o, call'[tx], Visible(tx)')
    <3> SUFFICES ASSUME o.pc = "logging", done.pc = "idle"
                 PROVE  \E q \in Tails(Visible(tx)', o.deal) : q.to = o.target
      BY <2>1 DEF MoveRecorded
    <3>1. o.row.status = o.target
      <4>1. /\ RowCurrent(o, deals[o.deal]) /\ o.deal \in Subjects
            /\ o.user \in Actors /\ o.target \in Statuses
        BY <1>1 DEF DealSide, OpsPlaced, OpPlaced, RowsCurrent, Holding, TypeOK
      <4> QED BY <1>1, <4>1, DealTyped, MovedTyped DEF RowCurrent, Holding
    <3>2. r \in Tails(Visible(tx)', o.deal)
      BY <1>3, <2>2, <2>3 DEF Tails, RowsOf
    <3> QED BY <1>3, <3>1, <3>2
  <2> QED BY <1>1, <1>2, <2>1, <2>4, <2>5, <2>6, <2>7, OwnLogSide
<1> QED BY <1>6, <1>7, <1>8 DEF InsertTransition

LEMMA StepLogInv ==
    ASSUME DealInv, NEW tx \in Txs, StepLog(tx)
    PROVE  DealInv'
<1> DEFINE c == call[tx]
<1>1. ContinueRecord(tx) /\ UNCHANGED dealVars
  BY DEF StepLog
<1>2. TypeOK /\ LogInv /\ LogSide /\ DealSide /\ c \in Call
  BY DealInvParts DEF TypeOK, LogTypeOK
<1>3. LogInv'
  BY <1>1, <1>2, ContinueRecordInv
<1>4. TypeOK' /\ DealSide'
  BY <1>1, <1>2, <1>3, SameDeals DEF LogInv, ChainInv
<1>5. CASE RepairDrift(tx)
  <2> DEFINE r == [id |-> nextId, subject |-> c.subject, prev |-> c.tail,
                   from |-> c.logged, to |-> c.expected, source |-> "system",
                   actor |-> None, snapshot |-> None]
             done == [c EXCEPT !.pc = AfterLink(c.snapshot), !.tail = nextId,
                               !.logged = c.expected]
  <2>1. c.pc = "repair" /\ InsertTransition(tx, r, done)
    BY <1>5 DEF RepairDrift
  <2>2. r.id = nextId /\ r.subject = c.subject /\ r.prev = c.tail
    OBVIOUS
  <2>3. /\ done.pc \in {"snapshot", "append"} /\ done.tail = nextId
        /\ done.subject = c.subject /\ done.to = c.to
    BY <1>2 DEF Call, AfterLink
  <2> HIDE DEF r, done
  <2>4. LogSide'
    BY <1>1, <1>3, <2>1, <2>2, <2>3, InsertLogSide
  <2> QED BY <1>3, <1>4, <2>4 DEF DealInv, DealSide, LogSide
<1>6. CASE AppendTransition(tx)
  <2> DEFINE r == [id |-> nextId, subject |-> c.subject, prev |-> c.tail,
                   from |-> c.expected, to |-> c.to, source |-> c.source,
                   actor |-> c.actor, snapshot |-> c.snapshot]
  <2>1. c.pc = "append" /\ InsertTransition(tx, r, NoCall)
    BY <1>6 DEF AppendTransition
  <2>2. r.id = nextId /\ r.subject = c.subject /\ r.prev = c.tail /\ r.to = c.to
    OBVIOUS
  <2>3. NoCall.pc = "idle"
    BY DEF NoCall
  <2> HIDE DEF r
  <2>4. LogSide'
    BY <1>1, <1>3, <2>1, <2>2, <2>3, InsertLogSide
  <2> QED BY <1>3, <1>4, <2>4 DEF DealInv, DealSide, LogSide
<1>7. CASE UpsertSnapshot(tx)
  <2>1. /\ c.pc = "snapshot" /\ call' = [call EXCEPT ![tx].pc = "append"]
        /\ UNCHANGED <<transitions, pending>>
    BY <1>7 DEF UpsertSnapshot
  <2>2. /\ call'[tx].pc = "append" /\ call'[tx].tail = c.tail
        /\ call'[tx].subject = c.subject /\ call'[tx].to = c.to
        /\ \A t \in Txs : t # tx => call'[t] = call[t]
    BY <1>2, <2>1 DEF TypeOK, LogTypeOK, Call
  <2>3. created' = created /\ OwnOp(tx, op[tx]) /\ Visible(tx)' = Visible(tx)
    BY <1>1, <1>2, <1>3, <2>1, SameDeals DEF dealVars, Visible, LogInv, ChainInv
  <2>4. CallOwned(op[tx], call'[tx]) /\ TailCurrent(call'[tx], Visible(tx), transitions)
    BY <1>2, <2>1, <2>2 DEF LogSide, CallsOwned, CallOwned, TailsCurrent, TailCurrent
  <2>5. MoveRecorded(op[tx], call'[tx], Visible(tx))
    BY <2>2 DEF MoveRecorded
  <2>6. \A r \in pending'[tx] : RowOwned(op[tx], r, created')
    BY <1>2, <2>1, <2>3 DEF LogSide, RowsOwned
  <2>7. LogSide'
    BY <1>2, <2>1, <2>2, <2>3, <2>4, <2>5, <2>6, OwnLogSide
  <2> QED BY <1>3, <1>4, <2>7 DEF DealInv, DealSide, LogSide
<1> QED BY <1>1, <1>5, <1>6, <1>7 DEF ContinueRecord

-----------------------------------------------------------------------------
(***************************************************************************)
(* The invariant, and the log of the deals as an instance of the log.      *)
(***************************************************************************)

LEMMA DealInitInv == Init => DealInv
<1> SUFFICES ASSUME Init PROVE DealInv
  OBVIOUS
<1>1. LogInv
  BY InitInv DEF Init
<1>2. /\ created = Legacy
      /\ lock = [d \in Subjects |-> None]
      /\ op = [tx \in Txs |-> NoOp]
      /\ webhooks = [d \in Subjects |-> [s \in Announced |-> 0]]
      /\ removed = [l \in Listings |->
           \E d \in Legacy : ListingOf[d] = l /\ deals[d].status = DeleteZillow]
      /\ requests = 0 /\ seeded = FALSE
      /\ deals \in [Subjects -> InitialDeals \cup {BlankDeal}]
  BY DEF Init
<1>3. \A tx \in Txs : op[tx] = NoOp /\ pending[tx] = {} /\ call[tx].pc = "idle"
  BY <1>2 DEF Init, LogInit, NoCall
<1>4. BlankDeal \in Deal /\ InitialDeals \cup {BlankDeal} \subseteq Deal
  BY DealAssumption DEF BlankDeal, Deal
<1>5. deals \in [Subjects -> Deal]
  BY <1>2, <1>4
<1>6. removed \in [Listings -> BOOLEAN]
  BY <1>2
<1>7. TypeOK
  BY <1>1, <1>2, <1>5, <1>6, NoOpTyped, DealAssumption DEF TypeOK, LogInv, ChainInv
<1>8. DealSide
  <2>1. \A d \in Subjects : lock[d] = None
    BY <1>2
  <2>2. OpsPlaced
    BY <1>3, NoOpTyped DEF OpsPlaced, OpPlaced, Holding, Inserting
  <2>3. SavesApart /\ LocksHeld /\ RowsCurrent
    BY <1>3, <2>1, NoOpTyped, NoneAssumption
       DEF SavesApart, LocksHeld, RowsCurrent, RowCurrent, Holding, Inserting
  <2> QED BY <2>2, <2>3 DEF DealSide
<1>9. LogSide
  BY <1>3, NoOpTyped
     DEF LogSide, RowsOwned, CallsOwned, CallOwned, TailsCurrent, TailCurrent,
         OnlyTheBackfillRaces, MovesRecorded, MoveRecorded
<1> QED BY <1>1, <1>7, <1>8, <1>9, DealInvParts

LEMMA DealStutterInv ==
    ASSUME DealInv, UNCHANGED vars
    PROVE  DealInv'
<1>1. UNCHANGED logVars /\ UNCHANGED dealVars
  BY DEF vars
<1>2. TypeOK /\ LogInv /\ LogSide /\ DealSide
  BY DealInvParts
<1>3. LogInv'
  BY <1>1, <1>2, StutterInv
<1>4. TypeOK' /\ DealSide'
  BY <1>1, <1>2, <1>3, SameDeals DEF LogInv, ChainInv
<1>5. UNCHANGED <<transitions, pending, call, created, op>>
  BY <1>1 DEF logVars, dealVars
<1>6. LogSide'
  BY <1>2, <1>5 DEF LogSide, RowsOwned, CallsOwned, TailsCurrent, Visible,
                    OnlyTheBackfillRaces, MovesRecorded
<1> QED BY <1>3, <1>4, <1>6 DEF DealInv, DealSide, LogSide

LEMMA DealNextInv == DealInv /\ [Next]_vars => DealInv'
<1> SUFFICES ASSUME DealInv, [Next]_vars PROVE DealInv'
  OBVIOUS
<1>1. ASSUME NEW tx \in Txs, Move(tx) PROVE DealInv'
  BY <1>1, RequestMoveInv, LockDealInv, FlushMoveInv, RecordMoveInv, CommitMoveInv,
     AnnounceInv DEF Move
<1>2. ASSUME NEW tx \in Txs, Create(tx) PROVE DealInv'
  BY <1>2, SaveDealInv, RecordCreatedInv, CommitCreateInv DEF Create
<1>3. ASSUME NEW tx \in Txs, Edit(tx) PROVE DealInv'
  BY <1>3, OpenEditInv, LoadEditInv, SaveEditInv DEF Edit
<1>4. ASSUME NEW tx \in Txs, Seed(tx) PROVE DealInv'
  BY <1>4, StartSeedInv, ReadBatchInv, SnapshotDealInv, SeedDealInv, CommitBatchInv
     DEF Seed
<1>5. ASSUME NEW tx \in Txs, StepLog(tx) \/ Abort(tx) PROVE DealInv'
  BY <1>5, StepLogInv, RollbackInv
<1>6. CASE UNCHANGED vars
  BY <1>6, DealStutterInv
<1> QED BY <1>1, <1>2, <1>3, <1>4, <1>5, <1>6 DEF Next

\* What an open request knows of its deal and of the deal's log stays true until
\* it commits, whatever the other requests, the editor and the backfill do: the
\* inductive invariant of the deal-status write path.
THEOREM DealInvariant == Spec => []DealInv
  BY DealInitInv, DealNextInv, PTL DEF Spec

\* No writer stores a deal, a flag, a lock or a log row of the wrong type.
THEOREM DealTypeCorrect == Spec => []TypeOK
<1>1. DealInv => TypeOK
  BY DEF DealInv
<1> QED BY <1>1, DealInvariant, PTL

\* A ConcurrentTransitionError is always the backfill's doing: two requests never
\* race each other for a chain key, because of the row lock.
THEOREM ConflictsAreBackfills == Spec => []OnlyTheBackfillRaces
<1>1. DealInv => OnlyTheBackfillRaces
  BY DEF DealInv
<1> QED BY <1>1, DealInvariant, PTL

\* A move that commits leaves the log at its target, also when the editor has
\* changed or cleared the status behind the log's back before.
THEOREM CommittedMovesAreLogged == Spec => MovesAreLogged
<1>1. ASSUME DealInv, NEW tx \in Txs, CommitMove(tx), op[tx].previous # op[tx].target
      PROVE  \E r \in Tails(transitions', op[tx].deal) : r.to = op[tx].target
  <2>1. call[tx].pc = "idle" /\ op[tx].pc = "logging" /\ transitions' = Visible(tx)
    BY <1>1 DEF CommitMove, CommitLog, Visible
  <2> QED BY <1>1, <2>1 DEF DealInv, MovesRecorded, MoveRecorded
<1>2. DealInv =>
        [\A tx \in Txs :
           CommitMove(tx) /\ op[tx].previous # op[tx].target =>
             \E r \in Tails(transitions', op[tx].deal) : r.to = op[tx].target]_vars
  BY <1>1
<1> QED BY <1>2, DealInvariant, PTL DEF MovesAreLogged

\* No move overwrites an analyst who is there when it commits, although the move
\* decided on the analyst when it loaded the row.
THEOREM AnalystsAreKept == Spec => AnalystKept
<1>1. ASSUME DealInv, NEW tx \in Txs, CommitMove(tx),
             deals[op[tx].deal].analyst # None
      PROVE  deals'[op[tx].deal].analyst = deals[op[tx].deal].analyst
  <2> DEFINE d == op[tx].deal
  <2>1. op[tx].pc = "logging" /\ deals' = [deals EXCEPT ![d] = op[tx].row]
    BY <1>1 DEF CommitMove
  <2>2. /\ op[tx].row = Moved(deals[d], op[tx].user, op[tx].target)
        /\ d \in Subjects
    BY <1>1, <2>1 DEF DealInv, RowsCurrent, RowCurrent, OpsPlaced, OpPlaced, Holding,
                      TypeOK
  <2>3. deals'[d] = Moved(deals[d], op[tx].user, op[tx].target)
    BY <1>1, <2>1, <2>2 DEF DealInv, TypeOK
  <2> QED BY <1>1, <2>3 DEF Moved
<1>2. DealInv =>
        [\A tx \in Txs :
           LET analyst == deals[op[tx].deal].analyst
           IN CommitMove(tx) /\ analyst # None =>
                deals'[op[tx].deal].analyst = analyst]_vars
  BY <1>1
<1> QED BY <1>2, DealInvariant, PTL DEF AnalystKept

-----------------------------------------------------------------------------
(***************************************************************************)
(* The writers use the log as ProcessLog allows.                           *)
(***************************************************************************)

LEMMA LogStep ==
    ASSUME DealInv, [Next]_vars
    PROVE  [LogNext]_logVars
<1>1. TypeOK /\ op \in [Txs -> Op] /\ OpsPlaced /\ RowsCurrent
  BY DEF DealInv, TypeOK
<1>2. ASSUME NEW tx \in Txs, Move(tx) PROVE [LogNext]_logVars
  <2>1. CASE RecordMove(tx) /\ op[tx].previous # op[tx].target
    <3>1. /\ op[tx].pc = "flushed"
          /\ RecordTransition(tx, op[tx].deal, op[tx].previous, op[tx].target, "api",
                              op[tx].user, op[tx].row.status)
      BY <2>1 DEF RecordMove
    <3>2. /\ op[tx].deal \in Subjects /\ op[tx].target \in Statuses
          /\ op[tx].user \in Actors /\ op[tx].previous \in Statuses \cup {None}
          /\ op[tx].row.status \in Statuses \cup {None}
      BY <1>1, <3>1 DEF TypeOK, OpsPlaced, OpPlaced, Holding, Op, Deal
    <3>3. op[tx].row.status \in Payloads \cup {None} /\ "api" \in CallerSources
      BY <3>2, DealAssumption
    <3>4. AnyRecord(tx)
      BY <3>1, <3>2, <3>3 DEF AnyRecord
    <3> QED BY <3>4 DEF LogNext
  <2>2. CASE CommitMove(tx)
    BY <2>2 DEF CommitMove, LogNext
  <2> QED BY <1>2, <2>1, <2>2 DEF Move, RequestMove, Begin, LockDeal, FlushMove,
                                  RecordMove, Announce, logVars
<1>3. ASSUME NEW tx \in Txs, Create(tx) PROVE [LogNext]_logVars
  <2>1. CASE RecordCreated(tx) /\ op[tx].row.status # None
    <3>1. /\ op[tx].pc = "inserted"
          /\ RecordTransition(tx, op[tx].deal, None, op[tx].row.status, op[tx].source,
                              op[tx].user, op[tx].row.status)
      BY <2>1 DEF RecordCreated
    <3>2. /\ op[tx].deal \in Subjects /\ op[tx].row.status \in Statuses
          /\ op[tx].source \in CallerSources /\ op[tx].user \in Actors \cup {None}
      BY <1>1, <2>1, <3>1 DEF OpsPlaced, OpPlaced, Inserting, Op, Deal
    <3>3. op[tx].row.status \in Payloads
      BY <3>2, DealAssumption
    <3>4. AnyRecord(tx)
      BY <3>1, <3>2, <3>3 DEF AnyRecord
    <3> QED BY <3>4 DEF LogNext
  <2>2. CASE CommitCreate(tx)
    BY <2>2 DEF CommitCreate, LogNext
  <2> QED BY <1>3, <2>1, <2>2 DEF Create, SaveDeal, DuplicateDeal, InsertDeal, Begin,
                                  RecordCreated, logVars
<1>4. ASSUME NEW tx \in Txs, Edit(tx) PROVE [LogNext]_logVars
  BY <1>4 DEF Edit, OpenEdit, Begin, LoadEdit, SaveEdit
<1>5. ASSUME NEW tx \in Txs, Seed(tx) PROVE [LogNext]_logVars
  <2>1. ASSUME NEW seed \in op[tx].batch
        PROVE  /\ seed.deal \in Subjects /\ seed.status \in Statuses
               /\ seed.actor \in Actors \cup {None} /\ seed.status \in Payloads
    BY <1>1, <2>1, DealAssumption DEF Op, Seeding
  <2>2. CASE SnapshotDeal(tx)
    <3>1. PICK seed \in op[tx].batch : SeedSnapshot(tx, seed.deal, seed.status)
      BY <2>2 DEF SnapshotDeal
    <3>2. AnySeed(tx)
      BY <2>1, <3>1 DEF AnySeed
    <3> QED BY <3>2 DEF LogNext
  <2>3. CASE SeedDeal(tx)
    <3>1. PICK seed \in op[tx].batch :
            SeedHead(tx, seed.deal, seed.status, seed.actor, seed.status)
      BY <2>3 DEF SeedDeal
    <3>2. AnySeed(tx)
      BY <2>1, <3>1 DEF AnySeed
    <3> QED BY <3>2 DEF LogNext
  <2>4. CASE CommitBatch(tx)
    BY <2>4 DEF CommitBatch, LogNext
  <2>5. CASE StartSeed(tx) \/ ReadBatch(tx)
    BY <2>5 DEF StartSeed, Begin, ReadBatch
  <2> QED BY <1>5, <2>2, <2>3, <2>4, <2>5 DEF Seed
<1>6. ASSUME NEW tx \in Txs, StepLog(tx) \/ Abort(tx) PROVE [LogNext]_logVars
  BY <1>6 DEF StepLog, Abort, LogNext
<1>7. CASE UNCHANGED vars
  BY <1>7 DEF vars
<1> QED BY <1>2, <1>3, <1>4, <1>5, <1>6, <1>7 DEF Next

\* The deal-status writers implement ProcessLog: moves, saves, duplicates, the
\* backfill and whatever interrupts them are callers it allows, so all that holds
\* of the log for arbitrary callers holds for the log of the deals.
THEOREM DealsUseTheLog == Spec => LogSpec
<1>1. Init => LogInit
  BY DEF Init
<1> QED BY <1>1, LogStep, DealInvariant, PTL DEF Spec, LogSpec

\* The rows the writers build never violate the FK or a CHECK, and every row
\* finds the snapshot it points to.
THEOREM DealLogIsSound == Spec => [](OnlyRacesFail /\ SnapshotsPresent)
<1>1. DealInv => OnlyRacesFail /\ SnapshotsPresent
  BY DEF DealInv, LogInv
<1> QED BY <1>1, DealInvariant, PTL

\* No deal's log forks or has two last rows, and its ids follow the chain.
THEOREM DealChainsNeverFork == Spec => [](NoFork /\ OneTail /\ IdOrderIsChainOrder)
  BY DealsUseTheLog, ChainsNeverFork, TailsAreUnique, IdOrderFollowsChain, PTL

===============================================================================
