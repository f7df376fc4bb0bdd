---------------------------- MODULE DealDriftProofs ----------------------------
(***************************************************************************)
(* Proofs about DealStatus where no generic PATCH carries a status.  Then  *)
(* the status of a deal changes in update_deal_status only, in the commit  *)
(* that adds the row to its log, and DriftInv is an invariant: the log     *)
(* says what the deals say.  The drift check of the backfill, the flag of  *)
(* the listings and the webhooks are right because of it, and the write    *)
(* path implements DealLedger.                                             *)
(***************************************************************************)
EXTENDS DealHistory, DealStatusProofs, LogHistoryProofs

-----------------------------------------------------------------------------
(***************************************************************************)
(* What a step of one transaction leaves true of the others.               *)
(***************************************************************************)

LEMMA DriftParts ==
    ASSUME DriftInv
    PROVE  /\ DealInv /\ TypeOK /\ LogInv /\ DealSide /\ LogSide
           /\ RowsTyped /\ ChainRows
           /\ op \in [Txs -> Op] /\ deals \in [Subjects -> Deal]
           /\ pending \in [Txs -> SUBSET Row] /\ call \in [Txs -> Call]
           /\ created \subseteq Subjects
  BY DealInvParts, LogInvRows DEF DriftInv, TypeOK, LogTypeOK

LEMMA OwnKnown ==
    ASSUME DriftInv, NEW tx \in Txs,
           \A t \in Txs : t # tx =>
             op'[t] = op[t] /\ call'[t] = call[t] /\ pending'[t] = pending[t],
           transitions \subseteq transitions',
           \A d \in created :
             \/ deals'[d].status = deals[d].status
             \/ /\ Heads(transitions', d) # {}
                /\ \A t \in Txs : t # tx => \A r \in pending[t] : r.subject # d,
           CallKnown(op'[tx], call'[tx]),
           \A r \in pending'[tx] : RowKnown(op'[tx], r, deals'),
           OutcomeKnown(op'[tx], call'[tx], pending'[tx]),
           \A seed \in op'[tx].batch : SeedKnown(seed, deals', transitions'),
           OpKnown(op'[tx])
    PROVE  CallsKnown' /\ RowsKnown' /\ OutcomesKnown' /\ SeedsKnown' /\ OpsKnown'
<1>1. CallsKnown' /\ OutcomesKnown' /\ OpsKnown'
  BY DEF DriftInv, CallsKnown, OutcomesKnown, OpsKnown
<1>2. RowsKnown'
  <2> SUFFICES ASSUME NEW t \in Txs, t # tx, NEW r \in pending[t]
               PROVE  RowKnown(op[t], r, deals')
    BY DEF RowsKnown
  <2>1. RowKnown(op[t], r, deals) /\ RowOwned(op[t], r, created)
    BY DriftParts DEF DriftInv, RowsKnown, LogSide, RowsOwned
  <2>2. CASE op[t].pc = "seeding"
    <3>1. r.subject \in created
      BY <2>1, <2>2 DEF RowOwned, Recording
    <3>2. deals'[r.subject].status = deals[r.subject].status
      BY <3>1
    <3> QED BY <2>1, <2>2, <3>2 DEF RowKnown
  <2> QED BY <2>1, <2>2 DEF RowKnown
<1>3. SeedsKnown'
  <2> SUFFICES ASSUME NEW t \in Txs, t # tx, NEW seed \in op[t].batch
               PROVE  SeedKnown(seed, deals', transitions')
    BY DEF SeedsKnown
  <2>1. SeedKnown(seed, deals, transitions) /\ seed.deal \in created
    BY DriftParts DEF DriftInv, SeedsKnown, DealSide, OpsPlaced, OpPlaced
  <2>2. Heads(transitions, seed.deal) \subseteq Heads(transitions', seed.deal)
    BY DEF Heads, RowsOf
  <2> QED BY <2>1, <2>2 DEF SeedKnown
<1> QED BY <1>1, <1>2, <1>3

\* An operation that leaves the log and the statuses alone.
LEMMA QuietKnown ==
    ASSUME DriftInv, DealInv', NEW tx \in Txs,
           \A t \in Txs : t # tx => op'[t] = op[t],
           UNCHANGED <<logVars, created>>,
           \A d \in created : deals'[d].status = deals[d].status,
           op[tx].pc \notin Recording \cup {"seeding"},
           op'[tx].pc \notin Recording,
           \A seed \in op'[tx].batch : SeedKnown(seed, deals', transitions),
           OpKnown(op'[tx])
    PROVE  DriftInv'
<1>1. UNCHANGED <<transitions, pending, call, created>>
  BY DEF logVars
<1>2. pending[tx] = {} /\ call[tx].pc = "idle"
  BY DriftParts, NothingPending
<1>3. /\ CallKnown(op'[tx], call'[tx])
      /\ OutcomeKnown(op'[tx], call'[tx], pending'[tx])
  BY <1>1, <1>2 DEF CallKnown, OutcomeKnown, Recording
<1>4. CallsKnown' /\ RowsKnown' /\ OutcomesKnown' /\ SeedsKnown' /\ OpsKnown'
  BY <1>1, <1>2, <1>3, OwnKnown
<1>5. LogOfCreated' /\ NoDrift'
  BY <1>1 DEF DriftInv, LogOfCreated, NoDrift
<1> QED BY <1>4, <1>5 DEF DriftInv

\* The record of a transaction after a step that rewrites some fields of it.
LEMMA NoOpKnown == OpKnown(NoOp)
  BY NoOpTyped DEF OpKnown, Inserting

-----------------------------------------------------------------------------
(***************************************************************************)
(* Requests up to their first log operation.                               *)
(***************************************************************************)

LEMMA BeginKnown ==
    ASSUME DriftInv, DealInv', NEW tx \in Txs, NEW o \in Op, Begin(tx, o),
           o.pc \in {"waiting", "inserted", "form", "reading"}, o.batch = {},
           o.fields \subseteq EditorFields,
           o.pc = "inserted" => o.user = None \/ o.row.status = TemplateGenerated
    PROVE  DriftInv'
<1>1. /\ op[tx].pc = "idle" /\ op' = [op EXCEPT ![tx] = o]
      /\ UNCHANGED <<logVars, created, deals>>
  BY DEF Begin
<1>2. op'[tx] = o /\ \A t \in Txs : t # tx => op'[t] = op[t]
  BY <1>1, DriftParts
<1>3. OpKnown(o)
  BY DEF OpKnown, Inserting
<1> QED BY <1>1, <1>2, <1>3, QuietKnown DEF Recording

LEMMA RequestMoveKnown ==
    ASSUME DriftInv, DealInv', NEW tx \in Txs, NEW d \in Subjects, NEW user \in Actors,
           NEW target \in Statuses, RequestMove(tx, d, user, target)
    PROVE  DriftInv'
<1> DEFINE o == [NoOp EXCEPT !.pc = "waiting", !.deal = d, !.user = user,
                             !.target = target]
<1>1. Begin(tx, o)
  BY DEF RequestMove
<1>2. o \in Op /\ o.pc = "waiting" /\ o.batch = {} /\ o.fields \subseteq EditorFields
  BY NoOpTyped DEF Op, OpPc
<1> HIDE DEF o
<1> QED BY <1>1, <1>2, BeginKnown

LEMMA InsertDealKnown ==
    ASSUME DriftInv, DealInv', NEW tx \in Txs, NEW d \in Subjects,
           NEW source \in CallerSources, NEW actor \in Actors \cup {None}, NEW row \in Deal,
           actor = None \/ row.status = TemplateGenerated,
           InsertDeal(tx, d, source, actor, row)
    PROVE  DriftInv'
<1> DEFINE o == [NoOp EXCEPT !.pc = "inserted", !.deal = d, !.source = source,
                             !.user = actor, !.row = row]
<1>1. Begin(tx, o)
  BY DEF InsertDeal
<1>2. o \in Op /\ o.pc = "inserted" /\ o.batch = {} /\ o.fields = {}
      /\ o.user = actor /\ o.row = row
  BY NoOpTyped DEF Op, OpPc
<1> HIDE DEF o
<1> QED BY <1>1, <1>2, BeginKnown

LEMMA SaveDealKnown ==
    ASSUME DriftInv, DealInv', NEW tx \in Txs, NEW d \in Subjects,
           SaveDeal(tx, d) \/ DuplicateDeal(tx, d)
    PROVE  DriftInv'
<1>1. CASE SaveDeal(tx, d)
  BY <1>1, InsertDealKnown, DealAssumption DEF SaveDeal
<1>2. CASE DuplicateDeal(tx, d)
  <2> DEFINE row(user) == [status |-> TemplateGenerated, analyst |-> user, approver |-> None]
  <2>1. PICK user \in Actors : InsertDeal(tx, d, "api", user, row(user))
    BY <1>2 DEF DuplicateDeal
  <2>2. row(user) \in Deal /\ row(user).status = TemplateGenerated
    BY <1>2 DEF DuplicateDeal, Deal
  <2>3. "api" \in CallerSources
    BY DealAssumption
  <2> HIDE DEF row
  <2> QED BY <2>1, <2>2, <2>3, InsertDealKnown
<1> QED BY <1>1, <1>2

LEMMA OpenEditKnown ==
    ASSUME DriftInv, DealInv', NEW tx \in Txs, NEW d \in Subjects, OpenEdit(tx, d)
    PROVE  DriftInv'
<1>1. PICK fields \in SUBSET EditorFields, row \in Deal :
        Begin(tx, [NoOp EXCEPT !.pc = "form", !.deal = d, !.fields = fields,
                               !.row = row])
  BY DEF OpenEdit
<1> DEFINE o == [NoOp EXCEPT !.pc = "form", !.deal = d, !.fields = fields,
                             !.row = row]
<1>2. o \in Op /\ o.pc = "form" /\ o.batch = {} /\ o.fields \subseteq EditorFields
  BY NoOpTyped, DealAssumption DEF Op, OpPc
<1>3. Begin(tx, o)
  BY <1>1
<1> HIDE DEF o
<1> QED BY <1>2, <1>3, BeginKnown

LEMMA StartSeedKnown ==
    ASSUME DriftInv, DealInv', NEW tx \in Txs, StartSeed(tx)
    PROVE  DriftInv'
<1> DEFINE o == [NoOp EXCEPT !.pc = "reading"]
<1>1. o \in Op /\ o.pc = "reading" /\ o.batch = {} /\ o.fields \subseteq EditorFields
  BY NoOpTyped DEF Op, OpPc
<1>2. Begin(tx, o)
  BY DEF StartSeed
<1> HIDE DEF o
<1> QED BY <1>1, <1>2, BeginKnown

LEMMA LockDealKnown ==
    ASSUME DriftInv, DealInv', NEW tx \in Txs, LockDeal(tx)
    PROVE  DriftInv'
<1>1. /\ op[tx].pc = "waiting" /\ op[tx] \in Op
      /\ UNCHANGED <<logVars, created, deals>>
      /\ op' = [op EXCEPT ![tx].pc = "locked",
                          ![tx].previous = deals[op[tx].deal].status,
                          ![tx].row = deals[op[tx].deal]]
  BY DriftParts DEF LockDeal
<1>2. \A t \in Txs : t # tx => op'[t] = op[t]
  BY <1>1, DriftParts
<1>3. op'[tx].pc = "locked" /\ op'[tx].batch = op[tx].batch /\ op'[tx].fields = op[tx].fields
  BY <1>1, DriftParts DEF Op
<1>4. OpKnown(op'[tx])
  BY <1>3 DEF DriftInv, OpsKnown, OpKnown, Inserting
<1>5. \A seed \in op'[tx].batch : SeedKnown(seed, deals', transitions)
  BY <1>1, <1>3 DEF DriftInv, SeedsKnown
<1> QED BY <1>1, <1>2, <1>3, <1>4, <1>5, QuietKnown DEF Recording

LEMMA FlushMoveKnown ==
    ASSUME DriftInv, DealInv', NEW tx \in Txs, FlushMove(tx)
    PROVE  DriftInv'
<1> DEFINE removal == RemovalFor(op[tx].deal, op[tx].previous, op[tx].target)
           row == Moved(op[tx].row, op[tx].user, op[tx].target)
<1>1. /\ op[tx].pc = "locked" /\ op[tx] \in Op
      /\ UNCHANGED <<logVars, created, deals>>
      /\ op' = [op EXCEPT ![tx].pc = "flushed", ![tx].row = row, ![tx].removal = removal]
  BY DriftParts DEF FlushMove
<1> HIDE DEF row
<1>2. \A t \in Txs : t # tx => op'[t] = op[t]
  BY <1>1, DriftParts
<1>3. /\ op'[tx].pc = "flushed" /\ op'[tx].batch = op[tx].batch
      /\ op'[tx].fields = op[tx].fields /\ op'[tx].removal = removal
      /\ op'[tx].deal = op[tx].deal /\ op'[tx].previous = op[tx].previous
      /\ op'[tx].target = op[tx].target
  BY <1>1, DriftParts DEF Op
<1>4. OpKnown(op'[tx])
  BY <1>3 DEF DriftInv, OpsKnown, OpKnown, Inserting
<1>5. \A seed \in op'[tx].batch : SeedKnown(seed, deals', transitions)
  BY <1>1, <1>3 DEF DriftInv, SeedsKnown
<1> QED BY <1>1, <1>2, <1>3, <1>4, <1>5, QuietKnown DEF Recording

LEMMA AnnounceKnown ==
    ASSUME DriftInv, DealInv', NEW tx \in Txs, Announce(tx)
    PROVE  DriftInv'
<1>1. /\ op[tx].pc = "announcing" /\ op' = [op EXCEPT ![tx] = NoOp]
      /\ UNCHANGED <<logVars, created, deals>>
  BY DEF Announce
<1>2. op'[tx] = NoOp /\ \A t \in Txs : t # tx => op'[t] = op[t]
  BY <1>1, DriftParts
<1> QED BY <1>1, <1>2, NoOpTyped, NoOpKnown, QuietKnown DEF Recording

LEMMA LoadEditKnown ==
    ASSUME DriftInv, DealInv', NEW tx \in Txs, LoadEdit(tx)
    PROVE  DriftInv'
<1>1. /\ op[tx].pc = "form" /\ op[tx] \in Op
      /\ UNCHANGED <<logVars, created, deals>>
  BY DriftParts DEF LoadEdit
<1>2. \A t \in Txs : t # tx => op'[t] = op[t]
  BY DriftParts DEF LoadEdit
<1>3. /\ op'[tx].pc = "loaded" /\ op'[tx].batch = op[tx].batch
      /\ op'[tx].fields \subseteq op[tx].fields
  BY <1>1, DriftParts DEF LoadEdit, Op
<1>4. OpKnown(op'[tx])
  BY <1>3 DEF DriftInv, OpsKnown, OpKnown, Inserting
<1>5. \A seed \in op'[tx].batch : SeedKnown(seed, deals', transitions)
  BY <1>1, <1>3 DEF DriftInv, SeedsKnown
<1> QED BY <1>1, <1>2, <1>3, <1>4, <1>5, QuietKnown DEF Recording

\* This is where the statuses would drift.
LEMMA SaveEditKnown ==
    ASSUME DriftInv, DealInv', NEW tx \in Txs, SaveEdit(tx), "status" \notin EditorFields
    PROVE  DriftInv'
<1>1. /\ op[tx].pc = "loaded" /\ op' = [op EXCEPT ![tx] = NoOp]
      /\ UNCHANGED <<logVars, created>>
      /\ deals' = [deals EXCEPT ![op[tx].deal] =
                     [f \in DealFields |-> IF f \in op[tx].fields THEN op[tx].row[f]
                                           ELSE @[f]]]
  BY DEF SaveEdit
<1>2. op'[tx] = NoOp /\ \A t \in Txs : t # tx => op'[t] = op[t]
  BY <1>1, DriftParts
<1>3. "status" \notin op[tx].fields
  BY DEF DriftInv, OpsKnown, OpKnown
<1>4. \A d \in created : deals'[d].status = deals[d].status
  BY <1>1, <1>3, DriftParts DEF Deal, DealFields
<1> QED BY <1>1, <1>2, <1>4, NoOpTyped, NoOpKnown, QuietKnown DEF Recording

\* A deal the backfill reads has no head; its status is the committed one.
LEMMA ReadBatchKnown ==
    ASSUME DriftInv, DealInv', NEW tx \in Txs, ReadBatch(tx)
    PROVE  DriftInv'
<1>1. op[tx].pc = "reading" /\ op[tx] \in Op /\ UNCHANGED <<logVars, created, deals>>
  BY DriftParts DEF ReadBatch
<1>2. \A d : SeedFor(d).deal = d /\ SeedFor(d).status = deals[d].status
             /\ (SeedFor(d).status = DeleteZillow => SeedFor(d).actor = None)
  BY DEF SeedFor, Approved, DeleteZillow, PresentToClients
<1>3. \A d : SeedKnown(SeedFor(d), deals, transitions)
  BY <1>2 DEF SeedKnown
<1>4. /\ \A t \in Txs : t # tx => op'[t] = op[t]
      /\ op'[tx].pc \in {"idle", "seeding"} /\ op'[tx].fields \subseteq op[tx].fields
      /\ \A seed \in op'[tx].batch : \E d : seed = SeedFor(d)
  <2>1. CASE op' = [op EXCEPT ![tx] = NoOp]
    BY <2>1, DriftParts, NoOpTyped DEF NoOp
  <2>2. ASSUME NEW last, NEW batch,
               op' = [op EXCEPT ![tx].pc = "seeding",
                                ![tx].batch = {SeedFor(d) : d \in batch},
                                ![tx].last = last]
        PROVE  /\ \A t \in Txs : t # tx => op'[t] = op[t]
               /\ op'[tx].pc = "seeding" /\ op'[tx].fields = op[tx].fields
               /\ \A seed \in op'[tx].batch : \E d : seed = SeedFor(d)
    BY <1>1, <2>2, DriftParts DEF Op
  <2> QED BY <2>1, <2>2 DEF ReadBatch
<1>5. OpKnown(op'[tx])
  BY <1>4 DEF DriftInv, OpsKnown, OpKnown, Inserting
<1>6. \A seed \in op'[tx].batch : SeedKnown(seed, deals', transitions)
  BY <1>1, <1>3, <1>4
<1> QED BY <1>1, <1>4, <1>5, <1>6, QuietKnown DEF Recording

-----------------------------------------------------------------------------
(***************************************************************************)
(* Operations on the log.                                                  *)
(***************************************************************************)

\* As long as the log says what the deal says, record_transition has work to do
\* and never adopts a status.
LEMMA RecordCall ==
    ASSUME DriftInv, NEW tx \in Txs, NEW s, NEW expected, NEW to, NEW source, NEW actor,
           NEW snapshot,
           RecordTransition(tx, s, expected, to, source, actor, snapshot),
           \A r \in Tails(Visible(tx), s) : r.to = expected
    PROVE  \E c : /\ call' = [call EXCEPT ![tx] = c]
                  /\ c.pc \in {"repair", "snapshot", "append"}
                  /\ c.source = source /\ c.actor = actor /\ c.expected = expected
                  /\ Tails(Visible(tx), s) = {} \/ c.pc = "repair" => c.logged = None
<1>1. PICK tail \in TailChoices(Visible(tx), s) :
        LET stage == Prologue(tail.to, expected, to, snapshot)
        IN call' = IF stage.pc = "idle" THEN call
                   ELSE [call EXCEPT ![tx] =
                           [pc |-> stage.pc, subject |-> s, tail |-> tail.id,
                            logged |-> tail.to, expected |-> stage.from, to |-> to,
                            source |-> source, actor |-> actor,
                            snapshot |-> snapshot]]
  BY DEF RecordTransition
<1> DEFINE stage == Prologue(tail.to, expected, to, snapshot)
           c == [pc |-> stage.pc, subject |-> s, tail |-> tail.id,
                 logged |-> tail.to, expected |-> stage.from, to |-> to,
                 source |-> source, actor |-> actor, snapshot |-> snapshot]
<1>2. tail.to = expected \/ (tail.to = None /\ expected # None)
  <2>1. CASE Tails(Visible(tx), s) = {}
    <3>1. tail = [id |-> NoRow, to |-> None]
      BY <2>1 DEF TailChoices
    <3> QED BY <3>1
  <2>2. CASE Tails(Visible(tx), s) # {}
    <3>1. PICK r \in Tails(Visible(tx), s) : tail = [id |-> r.id, to |-> r.to]
      BY <2>2 DEF TailChoices
    <3> QED BY <3>1
  <2> QED BY <2>1, <2>2
<1>3. Tails(Visible(tx), s) = {} => tail.to = None
  BY DEF TailChoices
<1>4. /\ stage.pc \in {"repair", "snapshot", "append"} /\ stage.from = expected
      /\ stage.pc = "repair" => tail.to = None
  <2>1. CASE tail.to = expected
    BY <2>1 DEF Prologue, AfterLink
  <2>2. CASE tail.to # expected /\ expected # None
    BY <1>2, <2>2 DEF Prologue
  <2> QED BY <1>2, <2>1, <2>2
<1>5. call' = [call EXCEPT ![tx] = c]
  BY <1>1, <1>4
<1>6. /\ c.pc = stage.pc /\ c.source = source /\ c.actor = actor
      /\ c.expected = stage.from /\ c.logged = tail.to
  OBVIOUS
<1> HIDE DEF c, stage
<1> QED BY <1>3, <1>4, <1>5, <1>6

\* The call a request opens, whatever the request is.
LEMMA EnterKnown ==
    ASSUME DriftInv, DealInv', NEW tx \in Txs,
           \A t \in Txs : t # tx => op'[t] = op[t] /\ call'[t] = call[t],
           UNCHANGED <<transitions, pending, created, deals>>,
           op[tx].pc \notin Recording \cup {"seeding"},
           op'[tx].batch = op[tx].batch,
           OpKnown(op'[tx]), CallKnown(op'[tx], call'[tx]),
           call'[tx].pc = "idle" =>
             /\ op'[tx].pc = "logging" => op'[tx].previous = op'[tx].target
             /\ op'[tx].pc = "heading" => op'[tx].row.status = None
    PROVE  DriftInv'
<1>1. pending[tx] = {}
  BY DriftParts, NothingPending
<1>2. OutcomeKnown(op'[tx], call'[tx], pending'[tx])
  BY DEF OutcomeKnown
<1>3. \A seed \in op'[tx].batch : SeedKnown(seed, deals', transitions')
  BY DEF DriftInv, SeedsKnown
<1>4. CallsKnown' /\ RowsKnown' /\ OutcomesKnown' /\ SeedsKnown' /\ OpsKnown'
  BY <1>1, <1>2, <1>3, OwnKnown
<1>5. LogOfCreated' /\ NoDrift'
  BY DEF DriftInv, LogOfCreated, NoDrift
<1> QED BY <1>4, <1>5 DEF DriftInv

LEMMA RecordMoveKnown ==
    ASSUME DriftInv, DealInv', NEW tx \in Txs, RecordMove(tx)
    PROVE  DriftInv'
<1> DEFINE d == op[tx].deal
<1>1. /\ op[tx].pc = "flushed" /\ op[tx] \in Op
      /\ op' = [op EXCEPT ![tx].pc = "logging"]
      /\ UNCHANGED <<created, deals>>
  BY DriftParts DEF RecordMove
<1>2. /\ op'[tx].pc = "logging" /\ op'[tx].batch = op[tx].batch
      /\ op'[tx].fields = op[tx].fields /\ op'[tx].removal = op[tx].removal
      /\ op'[tx].deal = d /\ op'[tx].previous = op[tx].previous
      /\ op'[tx].target = op[tx].target
      /\ \A t \in Txs : t # tx => op'[t] = op[t]
  BY <1>1, DriftParts DEF Op
<1>3. OpKnown(op'[tx])
  BY <1>1, <1>2 DEF DriftInv, OpsKnown, OpKnown, Inserting
<1>4. op[tx].pc \notin Recording \cup {"seeding"}
  BY <1>1 DEF Recording
<1>5. pending[tx] = {} /\ call[tx].pc = "idle"
  BY <1>4, DriftParts, NothingPending
<1>6. CASE op[tx].previous = op[tx].target
  <2>1. UNCHANGED <<transitions, pending, call>>
    BY <1>6 DEF RecordMove, logVars
  <2>2. CallKnown(op'[tx], call'[tx])
    BY <1>5, <2>1 DEF CallKnown
  <2> QED BY <1>1, <1>2, <1>3, <1>4, <1>5, <1>6, <2>1, <2>2, EnterKnown
<1>7. CASE op[tx].previous # op[tx].target
  <2>1. RecordTransition(tx, d, op[tx].previous, op[tx].target, "api",
                         op[tx].user, op[tx].row.status)
    BY <1>7 DEF RecordMove
  <2>2. UNCHANGED <<transitions, pending>>
    BY <2>1 DEF RecordTransition
  <2>3. d \in created /\ op[tx].previous = deals[d].status
    BY <1>1, DriftParts DEF DealSide, OpsPlaced, OpPlaced, RowsCurrent, RowCurrent, Holding
  <2>4. Visible(tx) = transitions
    BY <1>5 DEF Visible
  <2>5. \A r \in Tails(Visible(tx), d) : r.to = op[tx].previous
    BY <2>3, <2>4 DEF DriftInv, NoDrift
  <2>6. PICK c : /\ call' = [call EXCEPT ![tx] = c]
                 /\ c.pc \in {"repair", "snapshot", "append"} /\ c.source = "api"
    BY <2>1, <2>5, RecordCall
  <2>7. call'[tx] = c /\ \A t \in Txs : t # tx => call'[t] = call[t]
    BY <2>6, DriftParts
  <2>8. CallKnown(op'[tx], call'[tx])
    BY <1>2, <1>7, <2>6, <2>7 DEF CallKnown
  <2> QED BY <1>1, <1>2, <1>3, <1>4, <2>2, <2>6, <2>7, <2>8, EnterKnown
<1> QED BY <1>6, <1>7

LEMMA RecordCreatedKnown ==
    ASSUME DriftInv, DealInv', NEW tx \in Txs, RecordCreated(tx)
    PROVE  DriftInv'
<1> DEFINE d == op[tx].deal
           status == op[tx].row.status
<1>1. /\ op[tx].pc = "inserted" /\ op[tx] \in Op
      /\ op' = [op EXCEPT ![tx].pc = "heading"]
      /\ UNCHANGED <<created, deals>>
  BY DriftParts DEF RecordCreated
<1>2. /\ op'[tx].pc = "heading" /\ op'[tx].batch = op[tx].batch
      /\ op'[tx].fields = op[tx].fields /\ op'[tx].user = op[tx].user
      /\ op'[tx].row = op[tx].row
      /\ \A t \in Txs : t # tx => op'[t] = op[t]
  BY <1>1, DriftParts DEF Op
<1>3. OpKnown(op'[tx])
  BY <1>1, <1>2 DEF DriftInv, OpsKnown, OpKnown, Inserting
<1>4. op[tx].pc \notin Recording \cup {"seeding"}
  BY <1>1 DEF Recording
<1>5. pending[tx] = {} /\ call[tx].pc = "idle"
  BY <1>4, DriftParts, NothingPending
<1>6. CASE status = None
  <2>1. UNCHANGED <<transitions, pending, call>>
    BY <1>6 DEF RecordCreated, logVars
  <2>2. CallKnown(op'[tx], call'[tx])
    BY <1>5, <2>1 DEF CallKnown
  <2> QED BY <1>1, <1>2, <1>3, <1>4, <1>5, <1>6, <2>1, <2>2, EnterKnown
<1>7. CASE status # None
  <2>1. RecordTransition(tx, d, None, status, op[tx].source, op[tx].user, status)
    BY <1>7 DEF RecordCreated
  <2>2. UNCHANGED <<transitions, pending>>
    BY <2>1 DEF RecordTransition
  <2>3. d \notin created
    BY <1>1, DriftParts DEF DealSide, OpsPlaced, OpPlaced, Inserting
  <2>4. Tails(Visible(tx), d) = {}
    BY <1>5, <2>3 DEF Visible, Tails, RowsOf, DriftInv, LogOfCreated
  <2>5. PICK c : /\ call' = [call EXCEPT ![tx] = c]
                 /\ c.pc \in {"repair", "snapshot", "append"}
                 /\ c.actor = op[tx].user /\ c.expected = None /\ c.logged = None
    BY <2>1, <2>4, RecordCall
  <2>6. call'[tx] = c /\ \A t \in Txs : t # tx => call'[t] = call[t]
    BY <2>5, DriftParts
  <2>7. CallKnown(op'[tx], call'[tx])
    BY <1>2, <2>5, <2>6 DEF CallKnown
  <2> QED BY <1>1, <1>2, <1>3, <1>4, <2>2, <2>5, <2>6, <2>7, EnterKnown
<1> QED BY <1>6, <1>7

LEMMA InsertKnown ==
    ASSUME DriftInv, DealInv', NEW tx \in Txs, UNCHANGED dealVars, NEW r, NEW done,
           InsertTransition(tx, r, done), call[tx].pc # "idle",
           RowKnown(op[tx], r, deals),
           CallKnown(op[tx], done),
           OutcomeKnown(op[tx], done, pending[tx] \cup {r})
    PROVE  DriftInv'
<1>1. UNCHANGED <<transitions, created, deals, op>>
  BY DEF InsertTransition, dealVars
<1>2. CallKnown(op[tx], call[tx]) /\ call[tx] \in Call
  BY DriftParts DEF DriftInv, CallsKnown
<1>3. /\ \A t \in Txs : t # tx => call'[t] = call[t] /\ pending'[t] = pending[t]
      /\ CallKnown(op[tx], call'[tx])
      /\ \A q \in pending'[tx] : q \in pending[tx] \/ q = r
      /\ OutcomeKnown(op[tx], call'[tx], pending'[tx])
  <2>1. CASE /\ call' = [call EXCEPT ![tx].pc = "conflict"]
             /\ UNCHANGED pending
    BY <1>2, <2>1, DriftParts DEF CallKnown, OutcomeKnown, Call
  <2>2. CASE /\ call' = [call EXCEPT ![tx].pc = "rejected"]
             /\ UNCHANGED pending
    BY <1>2, <2>2, DriftParts DEF CallKnown, OutcomeKnown, Call
  <2>3. CASE /\ pending' = [pending EXCEPT ![tx] = @ \cup {r}]
             /\ call' = [call EXCEPT ![tx] = done]
    BY <2>3, DriftParts
  <2> QED BY <2>1, <2>2, <2>3 DEF InsertTransition
<1>4. \A q \in pending'[tx] : RowKnown(op'[tx], q, deals')
  BY <1>1, <1>3 DEF DriftInv, RowsKnown
<1>5. \A seed \in op'[tx].batch : SeedKnown(seed, deals', transitions')
  BY <1>1 DEF DriftInv, SeedsKnown
<1>6. OpKnown(op'[tx])
  BY <1>1 DEF DriftInv, OpsKnown
<1>7. CallsKnown' /\ RowsKnown' /\ OutcomesKnown' /\ SeedsKnown' /\ OpsKnown'
  BY <1>1, <1>3, <1>4, <1>5, <1>6, OwnKnown
<1>8. LogOfCreated' /\ NoDrift'
  BY <1>1 DEF DriftInv, LogOfCreated, NoDrift
<1> QED BY <1>7, <1>8 DEF DriftInv

LEMMA StepLogKnown ==
    ASSUME DriftInv, DealInv', NEW tx \in Txs, StepLog(tx)
    PROVE  DriftInv'
<1> DEFINE c == call[tx]
<1>1. ContinueRecord(tx) /\ UNCHANGED dealVars
  BY DEF StepLog
<1>2. /\ CallKnown(op[tx], c) /\ CallOwned(op[tx], c) /\ c \in Call
      /\ CallLinked(c, Visible(tx))
  BY DriftParts DEF DriftInv, CallsKnown, LogSide, CallsOwned, LogInv, CallsLinked
<1>3. CASE RepairDrift(tx)
  <2> DEFINE r == [id |-> nextId, subject |-> c.subject, prev |-> c.tail,
                   from |-> c.logged, to |-> c.expected, source |-> "system",
                   actor |-> None, snapshot |-> None]
             done == [c EXCEPT !.pc = AfterLink(c.snapshot), !.tail = nextId,
                               !.logged = c.expected]
  <2>1. c.pc = "repair" /\ InsertTransition(tx, r, done)
    BY <1>3 DEF RepairDrift
  <2>2. op[tx].pc = "logging" /\ op[tx].previous # op[tx].target /\ c.source = "api"
    BY <1>2, <2>1 DEF CallKnown, CallOwned, CallLinked, Recording
  <2>3. done.pc # "idle" /\ done.source = c.source
    BY <1>2 DEF Call, AfterLink
  <2> HIDE DEF r, done
  <2>4. RowKnown(op[tx], r, deals) /\ CallKnown(op[tx], done)
    BY <2>2, <2>3 DEF RowKnown, CallKnown
  <2>5. OutcomeKnown(op[tx], done, pending[tx] \cup {r})
    BY <2>3 DEF OutcomeKnown
  <2> QED BY <1>1, <2>1, <2>4, <2>5, InsertKnown
<1>4. CASE AppendTransition(tx)
  <2> DEFINE r == [id |-> nextId, subject |-> c.subject, prev |-> c.tail,
                   from |-> c.expected, to |-> c.to, source |-> c.source,
                   actor |-> c.actor, snapshot |-> c.snapshot]
  <2>1. c.pc = "append" /\ InsertTransition(tx, r, NoCall)
    BY <1>4 DEF AppendTransition
  <2>2. /\ r.subject = c.subject /\ r.to = c.to /\ r.source = c.source
        /\ r.actor = c.actor
    OBVIOUS
  <2> HIDE DEF r
  <2>3. /\ op[tx].pc \in {"logging", "heading"} /\ c.subject = op[tx].deal
        /\ c.to = op[tx].row.status
    BY <1>2, <2>1 DEF CallOwned, Recording
  <2>4. op[tx].pc = "logging" =>
          /\ op[tx].row.status = op[tx].target
          /\ op[tx].previous # op[tx].target /\ c.source = "api"
    <3> SUFFICES ASSUME op[tx].pc = "logging"
                 PROVE  /\ op[tx].row.status = op[tx].target
                        /\ op[tx].previous # op[tx].target /\ c.source = "api"
      OBVIOUS
    <3>1. /\ RowCurrent(op[tx], deals[op[tx].deal]) /\ op[tx].deal \in Subjects
          /\ op[tx].user \in Actors /\ op[tx].target \in Statuses
      BY DriftParts DEF DealSide, OpsPlaced, OpPlaced, RowsCurrent, Holding
    <3>2. op[tx].row = Moved(deals[op[tx].deal], op[tx].user, op[tx].target)
      BY <3>1 DEF RowCurrent, Holding
    <3>3. deals[op[tx].deal] \in Deal
      BY <3>1, DriftParts
    <3> QED BY <1>2, <2>1, <3>1, <3>2, <3>3, MovedTyped DEF CallKnown
  <2>5. op[tx].pc = "heading" => c.actor = op[tx].user
    BY <1>2, <2>1 DEF CallKnown
  <2>6. RowKnown(op[tx], r, deals)
    BY <2>2, <2>3, <2>4, <2>5 DEF RowKnown
  <2>7. CallKnown(op[tx], NoCall)
    BY DEF CallKnown, NoCall
  <2>8. OutcomeKnown(op[tx], NoCall, pending[tx] \cup {r})
    BY <2>2, <2>3, <2>4 DEF OutcomeKnown
  <2> QED BY <1>1, <2>1, <2>6, <2>7, <2>8, InsertKnown
<1>5. CASE UpsertSnapshot(tx)
  <2>1. /\ c.pc = "snapshot" /\ call' = [call EXCEPT ![tx].pc = "append"]
        /\ UNCHANGED <<transitions, pending>>
    BY <1>5 DEF UpsertSnapshot
  <2>2. UNCHANGED <<created, deals, op>>
    BY <1>1 DEF dealVars
  <2>3. /\ \A t \in Txs : t # tx => call'[t] = call[t]
        /\ CallKnown(op[tx], call'[tx]) /\ call'[tx].pc = "append"
    BY <1>2, <2>1, DriftParts DEF CallKnown, Call
  <2>4. OutcomeKnown(op[tx], call'[tx], pending[tx])
    BY <2>3 DEF OutcomeKnown
  <2>5. /\ \A q \in pending[tx] : RowKnown(op[tx], q, deals)
        /\ \A seed \in op[tx].batch : SeedKnown(seed, deals, transitions)
        /\ OpKnown(op[tx])
    BY DEF DriftInv, RowsKnown, SeedsKnown, OpsKnown
  <2>6. CallsKnown' /\ RowsKnown' /\ OutcomesKnown' /\ SeedsKnown' /\ OpsKnown'
    BY <2>1, <2>2, <2>3, <2>4, <2>5, OwnKnown
  <2>7. LogOfCreated' /\ NoDrift'
    BY <2>1, <2>2 DEF DriftInv, LogOfCreated, NoDrift
  <2> QED BY <2>6, <2>7 DEF DriftInv
<1> QED BY <1>1, <1>3, <1>4, <1>5 DEF ContinueRecord

LEMMA StutterKnown ==
    ASSUME DriftInv, DealInv', UNCHANGED <<transitions, pending, call, created, deals, op>>
    PROVE  DriftInv'
  BY DEF DriftInv, LogOfCreated, NoDrift, CallsKnown, RowsKnown, OutcomesKnown, SeedsKnown,
         OpsKnown

LEMMA SnapshotDealKnown ==
    ASSUME DriftInv, DealInv', NEW tx \in Txs, SnapshotDeal(tx)
    PROVE  DriftInv'
<1>1. UNCHANGED <<transitions, pending, call, created, deals, op>>
  BY DEF SnapshotDeal, SeedSnapshot, dealVars
<1> QED BY <1>1, StutterKnown

\* The head goes in only if the deal has none; then its status is not stale.
LEMMA SeedDealKnown ==
    ASSUME DriftInv, DealInv', NEW tx \in Txs, SeedDeal(tx)
    PROVE  DriftInv'
<1>1. PICK seed \in op[tx].batch :
        /\ SeedHead(tx, seed.deal, seed.status, seed.actor, seed.status)
        /\ op' = [op EXCEPT ![tx].batch = @ \ {seed}]
  BY DEF SeedDeal
<1> DEFINE r == [id |-> nextId, subject |-> seed.deal, prev |-> NoRow, from |-> None,
                 to |-> seed.status, source |-> "backfill", actor |-> seed.actor,
                 snapshot |-> seed.status]
<1>2. /\ op[tx].pc = "seeding" /\ op[tx] \in Op /\ UNCHANGED <<created, deals>>
      /\ UNCHANGED <<transitions, call>> /\ call[tx].pc = "idle"
      /\ pending' = [pending EXCEPT
                       ![tx] = IF Heads(Visible(tx), seed.deal) = {} THEN @ \cup {r} ELSE @]
  BY <1>1, DriftParts DEF SeedDeal, SeedHead
<1>3. r.subject = seed.deal /\ r.to = seed.status /\ r.actor = seed.actor
  OBVIOUS
<1> HIDE DEF r
<1>4. /\ op'[tx].pc = "seeding" /\ op'[tx].batch \subseteq op[tx].batch
      /\ op'[tx].fields = op[tx].fields
      /\ \A t \in Txs : t # tx => op'[t] = op[t] /\ pending'[t] = pending[t]
  BY <1>1, <1>2, DriftParts DEF Op
<1>5. \A s \in op[tx].batch : SeedKnown(s, deals, transitions)
  BY DEF DriftInv, SeedsKnown
<1>6. \A q \in pending'[tx] : RowKnown(op'[tx], q, deals')
  <2> SUFFICES ASSUME NEW q \in pending'[tx] PROVE RowKnown(op'[tx], q, deals)
    BY <1>2
  <2>1. CASE q \in pending[tx]
    BY <1>2, <1>4, <2>1 DEF DriftInv, RowsKnown, RowKnown
  <2>2. CASE q = r /\ Heads(Visible(tx), seed.deal) = {}
    <3>1. Heads(transitions, seed.deal) = {}
      BY <2>2 DEF Heads, RowsOf, Visible
    <3>2. /\ r.to = deals[seed.deal].status
          /\ r.to = DeleteZillow => r.actor = None
      BY <1>3, <1>5, <3>1 DEF SeedKnown
    <3> QED BY <1>3, <1>4, <2>2, <3>2 DEF RowKnown
  <2>3. q \in pending[tx] \/ (q = r /\ Heads(Visible(tx), seed.deal) = {})
    BY <1>2, DriftParts
  <2> QED BY <2>1, <2>2, <2>3
<1>7. CallKnown(op'[tx], call'[tx]) /\ OutcomeKnown(op'[tx], call'[tx], pending'[tx])
  BY <1>2, <1>4 DEF CallKnown, OutcomeKnown
<1>8. OpKnown(op'[tx])
  BY <1>4 DEF DriftInv, OpsKnown, OpKnown, Inserting
<1>9. CallsKnown' /\ RowsKnown' /\ OutcomesKnown' /\ SeedsKnown' /\ OpsKnown'
  BY <1>2, <1>4, <1>5, <1>6, <1>7, <1>8, OwnKnown
<1>10. LogOfCreated' /\ NoDrift'
  BY <1>2 DEF DriftInv, LogOfCreated, NoDrift
<1> QED BY <1>9, <1>10 DEF DriftInv

LEMMA AbortKnown ==
    ASSUME DriftInv, DealInv', NEW tx \in Txs, Abort(tx)
    PROVE  DriftInv'
<1>1. /\ pending' = [pending EXCEPT ![tx] = {}] /\ call' = [call EXCEPT ![tx] = NoCall]
      /\ op' = [op EXCEPT ![tx] = NoOp]
      /\ UNCHANGED <<transitions, created, deals>>
  BY DEF Abort, RollbackLog
<1>2. /\ pending'[tx] = {} /\ call'[tx] = NoCall /\ op'[tx] = NoOp
      /\ \A t \in Txs : t # tx =>
           op'[t] = op[t] /\ call'[t] = call[t] /\ pending'[t] = pending[t]
  BY <1>1, DriftParts
<1>3. CallKnown(NoOp, NoCall) /\ OutcomeKnown(NoOp, NoCall, {})
  BY NoOpTyped DEF CallKnown, OutcomeKnown, NoCall
<1>4. CallsKnown' /\ RowsKnown' /\ OutcomesKnown' /\ SeedsKnown' /\ OpsKnown'
  BY <1>1, <1>2, <1>3, NoOpTyped, NoOpKnown, OwnKnown
<1>5. LogOfCreated' /\ NoDrift'
  BY <1>1 DEF DriftInv, LogOfCreated, NoDrift
<1> QED BY <1>4, <1>5 DEF DriftInv

-----------------------------------------------------------------------------
(***************************************************************************)
(* Commits.                                                                *)
(***************************************************************************)

LEMMA CommitKnown ==
    ASSUME DriftInv, DealInv', NEW tx \in Txs, CommitLog(tx),
           \A t \in Txs : t # tx => op'[t] = op[t],
           op'[tx].pc \notin Recording \cup {"seeding"}, op'[tx].batch = {},
           OpKnown(op'[tx]),
           \A d \in created : \/ deals'[d].status = deals[d].status
                              \/ \E r \in pending[tx] : r.subject = d,
           LogOfCreated', NoDrift'
    PROVE  DriftInv'
<1>1. /\ transitions' = transitions \cup pending[tx] /\ call' = call
      /\ call[tx].pc = "idle" /\ pending' = [pending EXCEPT ![tx] = {}]
  BY DEF CommitLog
<1>2. pending'[tx] = {} /\ \A t \in Txs : t # tx => pending'[t] = pending[t]
  BY <1>1, DriftParts
<1>3. ASSUME NEW d \in created, NEW r \in pending[tx], r.subject = d
      PROVE  /\ Heads(transitions', d) # {}
             /\ \A t \in Txs : t # tx => \A q \in pending[t] : q.subject # d
  <2>1. Heads(Visible(tx), d) # {}
    BY <1>3, DriftParts DEF ChainRows, RowsHeaded, Heads, RowsOf, Visible
  <2>2. Heads(transitions', d) # {}
    BY <1>1, <2>1 DEF Visible
  <2>3. \A t \in Txs : t # tx => \A q \in pending[t] : q.subject # d
    BY <1>3, DriftParts DEF ChainRows, OneWriter
  <2> QED BY <2>2, <2>3
<1>4. CallKnown(op'[tx], call'[tx]) /\ OutcomeKnown(op'[tx], call'[tx], pending'[tx])
  BY <1>1 DEF CallKnown, OutcomeKnown, Recording
<1>5. \A d \in created :
        \/ deals'[d].status = deals[d].status
        \/ /\ Heads(transitions', d) # {}
           /\ \A t \in Txs : t # tx => \A r \in pending[t] : r.subject # d
  BY <1>3
<1>6. CallsKnown' /\ RowsKnown' /\ OutcomesKnown' /\ SeedsKnown' /\ OpsKnown'
  BY <1>1, <1>2, <1>4, <1>5, OwnKnown
<1> QED BY <1>6 DEF DriftInv

\* A row that is last after the commit was last before, or is new.
LEMMA LastAfterCommit ==
    ASSUME NEW tx \in Txs, CommitLog(tx), NEW d, NEW r \in Tails(transitions', d)
    PROVE  /\ r \in pending[tx] \/ r \in Tails(transitions, d)
           /\ r.subject = d
  BY DEF CommitLog, Tails, RowsOf

LEMMA CommitMoveKnown ==
    ASSUME DriftInv, DealInv', NEW tx \in Txs, CommitMove(tx)
    PROVE  DriftInv'
<1> DEFINE d == op[tx].deal
           o == IF op[tx].previous # op[tx].target /\ op[tx].target \in Announced
                THEN [NoOp EXCEPT !.pc = "announcing", !.deal = d,
                                  !.target = op[tx].target]
                ELSE NoOp
<1>1. /\ op[tx].pc = "logging" /\ call[tx].pc = "idle"
      /\ CommitLog(tx)
      /\ deals' = [deals EXCEPT ![d] = op[tx].row]
      /\ op' = [op EXCEPT ![tx] = o]
      /\ created' = created
  BY DEF CommitMove, CommitLog
<1>2. /\ o.pc \in {"idle", "announcing"} /\ o.batch = {} /\ o.fields = {}
      /\ op'[tx] = o /\ \A t \in Txs : t # tx => op'[t] = op[t]
  BY <1>1, DriftParts, NoOpTyped DEF Op
<1> HIDE DEF o
<1>3. OpKnown(op'[tx])
  BY <1>2 DEF OpKnown, Inserting
<1>4. /\ d \in created /\ d \in Subjects /\ op[tx].target \in Statuses
      /\ op[tx].previous = deals[d].status /\ op[tx].row.status = op[tx].target
  <2>1. /\ d \in created /\ d \in Subjects /\ op[tx].target \in Statuses
        /\ op[tx].user \in Actors /\ RowCurrent(op[tx], deals[d])
    BY <1>1, DriftParts DEF DealSide, OpsPlaced, OpPlaced, RowsCurrent, Holding
  <2>2. deals[d] \in Deal
    BY <2>1, DriftParts
  <2> QED BY <1>1, <2>1, <2>2, MovedTyped DEF RowCurrent, Holding
<1>5. \A e \in Subjects : deals'[e].status = IF e = d THEN op[tx].target ELSE deals[e].status
  BY <1>1, <1>4, DriftParts
<1>6. \A r \in pending[tx] : r.subject = d /\ op[tx].previous # op[tx].target
  BY <1>1, DriftParts DEF DriftInv, RowsKnown, RowKnown, LogSide, RowsOwned, RowOwned
<1>7. op[tx].previous # op[tx].target =>
        \E r \in pending[tx] : r.subject = d /\ r.to = op[tx].target
  BY <1>1 DEF DriftInv, OutcomesKnown, OutcomeKnown
<1>8. \A e \in created : \/ deals'[e].status = deals[e].status
                         \/ \E r \in pending[tx] : r.subject = e
  BY <1>4, <1>5, <1>7, DriftParts
<1>9. LogOfCreated'
  BY <1>1, <1>4, <1>6 DEF CommitLog, DriftInv, LogOfCreated
<1>10. NoDrift'
  <2> SUFFICES ASSUME NEW e \in created, NEW r \in Tails(transitions', e)
               PROVE  r.to = deals'[e].status
    BY <1>1 DEF NoDrift
  <2>1. e \in Subjects
    BY DriftParts
  <2>2. CASE r \in Tails(transitions, e) /\ (e # d \/ op[tx].previous = op[tx].target)
    BY <1>4, <1>5, <2>1, <2>2 DEF DriftInv, NoDrift
  <2>3. CASE e = d /\ op[tx].previous # op[tx].target
    <3>1. PICK q \in Tails(transitions', d) : q.to = op[tx].target
      <4>1. transitions' = Visible(tx)
        BY <1>1 DEF CommitLog, Visible
      <4> QED BY <1>1, <2>3, <4>1, DriftParts DEF LogSide, MovesRecorded, MoveRecorded
    <3>2. \A p, q2 \in Tails(transitions', d) : p = q2
      <4>1. (LogInv => OneTail)'
        BY TailUnique, PTL
      <4>2. LogInv'
        BY DEF DealInv
      <4> QED BY <1>4, <4>1, <4>2 DEF OneTail
    <3>3. r = q
      BY <2>3, <3>1, <3>2
    <3> QED BY <1>4, <1>5, <2>3, <3>1, <3>3
  <2>4. r \in Tails(transitions, e) \/ (e = d /\ op[tx].previous # op[tx].target)
    BY <1>1, <1>6, LastAfterCommit
  <2> QED BY <2>2, <2>3, <2>4
<1>11. op'[tx].pc \notin Recording \cup {"seeding"} /\ op'[tx].batch = {}
  BY <1>2 DEF Recording
<1> QED BY <1>1, <1>2, <1>3, <1>8, <1>9, <1>10, <1>11, CommitKnown

LEMMA CommitCreateKnown ==
    ASSUME DriftInv, DealInv', NEW tx \in Txs, CommitCreate(tx)
    PROVE  DriftInv'
<1> DEFINE d == op[tx].deal
<1>1. /\ op[tx].pc = "heading"
      /\ CommitLog(tx)
      /\ deals' = [deals EXCEPT ![d] = op[tx].row]
      /\ op' = [op EXCEPT ![tx] = NoOp]
      /\ created' = created \cup {d}
  BY DEF CommitCreate
<1>2. op'[tx] = NoOp /\ \A t \in Txs : t # tx => op'[t] = op[t]
  BY <1>1, DriftParts
<1>3. d \in Subjects \ created
  BY <1>1, DriftParts DEF DealSide, OpsPlaced, OpPlaced, Inserting
<1>4. \A e \in Subjects : deals'[e] = IF e = d THEN op[tx].row ELSE deals[e]
  BY <1>1, DriftParts
<1>5. \A r \in pending[tx] : r.subject = d /\ r.to = op[tx].row.status
  BY <1>1, DriftParts DEF DriftInv, RowsKnown, RowKnown, LogSide, RowsOwned, RowOwned
<1>6. \A e \in created : deals'[e].status = deals[e].status
  BY <1>3, <1>4, DriftParts
<1>7. LogOfCreated'
  BY <1>1, <1>5 DEF CommitLog, DriftInv, LogOfCreated
<1>8. NoDrift'
  <2> SUFFICES ASSUME NEW e \in created', NEW r \in Tails(transitions', e)
               PROVE  r.to = deals'[e].status
    BY DEF NoDrift
  <2>1. (r \in pending[tx] \/ r \in Tails(transitions, e)) /\ r.subject = e
    BY <1>1, LastAfterCommit
  <2>2. CASE r \in pending[tx]
    BY <1>3, <1>4, <1>5, <2>1, <2>2
  <2>3. CASE r \in Tails(transitions, e)
    <3>1. e \in created
      BY <2>1, <2>3 DEF Tails, RowsOf, DriftInv, LogOfCreated
    <3> QED BY <1>6, <2>3, <3>1 DEF DriftInv, NoDrift
  <2> QED BY <2>1, <2>2, <2>3
<1> QED BY <1>1, <1>2, <1>6, <1>7, <1>8, NoOpTyped, NoOpKnown, CommitKnown DEF Recording

LEMMA CommitBatchKnown ==
    ASSUME DriftInv, DealInv', NEW tx \in Txs, CommitBatch(tx)
    PROVE  DriftInv'
<1>1. /\ op[tx].pc = "seeding" /\ op[tx].batch = {} /\ op[tx] \in Op
      /\ CommitLog(tx)
      /\ op' = [op EXCEPT ![tx].pc = "reading"]
      /\ UNCHANGED <<created, deals>>
  BY DriftParts DEF CommitBatch
<1>2. /\ op'[tx].pc = "reading" /\ op'[tx].batch = {}
      /\ op'[tx].fields = op[tx].fields
      /\ \A t \in Txs : t # tx => op'[t] = op[t]
  BY <1>1, DriftParts DEF Op
<1>3. OpKnown(op'[tx])
  BY <1>2 DEF DriftInv, OpsKnown, OpKnown, Inserting
<1>4. \A r \in pending[tx] : r.subject \in created /\ r.to = deals[r.subject].status
  BY <1>1, DriftParts
     DEF DriftInv, RowsKnown, RowKnown, LogSide, RowsOwned, RowOwned, Recording
<1>5. LogOfCreated'
  BY <1>1, <1>4 DEF CommitLog, DriftInv, LogOfCreated
<1>6. NoDrift'
  <2> SUFFICES ASSUME NEW e \in created, NEW r \in Tails(transitions', e)
               PROVE  r.to = deals[e].status
    BY <1>1 DEF NoDrift
  <2>1. (r \in pending[tx] \/ r \in Tails(transitions, e)) /\ r.subject = e
    BY <1>1, LastAfterCommit
  <2> QED BY <1>4, <2>1 DEF DriftInv, NoDrift
<1> QED BY <1>1, <1>2, <1>3, <1>5, <1>6, CommitKnown DEF Recording

-----------------------------------------------------------------------------
(***************************************************************************)
(* The invariant.                                                          *)
(***************************************************************************)

LEMMA DriftInitInv == Init => DriftInv
<1> SUFFICES ASSUME Init PROVE DriftInv
  OBVIOUS
<1>1. DealInv
  BY DealInitInv
<1>2. /\ transitions = {}
      /\ \A tx \in Txs : op[tx] = NoOp /\ pending[tx] = {} /\ call[tx] = NoCall
  BY DEF Init, LogInit
<1>3. CallKnown(NoOp, NoCall) /\ OutcomeKnown(NoOp, NoCall, {})
  BY NoOpTyped DEF CallKnown, OutcomeKnown, NoCall
<1>4. CallsKnown /\ RowsKnown /\ OutcomesKnown /\ SeedsKnown /\ OpsKnown
  BY <1>2, <1>3, NoOpTyped, NoOpKnown
     DEF CallsKnown, RowsKnown, OutcomesKnown, SeedsKnown, OpsKnown
<1>5. LogOfCreated /\ NoDrift
  BY <1>2 DEF LogOfCreated, NoDrift, Tails, RowsOf
<1> QED BY <1>1, <1>4, <1>5 DEF DriftInv

LEMMA DriftNextInv ==
    ASSUME "status" \notin EditorFields, DriftInv, [Next]_vars
    PROVE  DriftInv'
<1>1. DealInv'
  BY DealNextInv DEF DriftInv
<1>2. ASSUME NEW tx \in Txs, Move(tx) PROVE DriftInv'
  BY <1>1, <1>2, RequestMoveKnown, LockDealKnown, FlushMoveKnown, RecordMoveKnown,
     CommitMoveKnown, AnnounceKnown DEF Move
<1>3. ASSUME NEW tx \in Txs, Create(tx) PROVE DriftInv'
  BY <1>1, <1>3, SaveDealKnown, RecordCreatedKnown, CommitCreateKnown DEF Create
<1>4. ASSUME NEW tx \in Txs, Edit(tx) PROVE DriftInv'
  BY <1>1, <1>4, OpenEditKnown, LoadEditKnown, SaveEditKnown DEF Edit
<1>5. ASSUME NEW tx \in Txs, Seed(tx) PROVE DriftInv'
  BY <1>1, <1>5, StartSeedKnown, ReadBatchKnown, SnapshotDealKnown, SeedDealKnown,
     CommitBatchKnown DEF Seed
<1>6. ASSUME NEW tx \in Txs, StepLog(tx) \/ Abort(tx) PROVE DriftInv'
  BY <1>1, <1>6, StepLogKnown, AbortKnown
<1>7. CASE UNCHANGED vars
  BY <1>1, <1>7, StutterKnown DEF vars, logVars, dealVars
<1> QED BY <1>2, <1>3, <1>4, <1>5, <1>6, <1>7 DEF Next

\* As long as the generic PATCH carries no status, the log and the deals agree at
\* every moment, and what an open request has read of either is current: the
\* inductive invariant of the write path that process_log.md describes.
THEOREM DriftInvariant ==
    ASSUME "status" \notin EditorFields
    PROVE  Spec => []DriftInv
<1>1. DriftInv /\ [Next]_vars => DriftInv'
  BY DriftNextInv
<1> QED BY DriftInitInv, <1>1, PTL DEF Spec

\* The row lock and the shared transaction keep the last row of a deal's log and
\* its deal_status equal, whatever overtakes what: a generic PATCH is the only
\* way to drift.
THEOREM LogFollowsStatus ==
    ASSUME "status" \notin EditorFields
    PROVE  Spec => []NoDrift
<1>1. DriftInv => NoDrift
  BY DEF DriftInv
<1> QED BY <1>1, DriftInvariant, PTL

-----------------------------------------------------------------------------
(***************************************************************************)
(* What others see of a step: nothing, unless it is a commit.              *)
(***************************************************************************)

LEMMA VisibleSteps ==
    ASSUME "status" \notin EditorFields, DriftInv, [Next]_vars
    PROVE  \/ \E tx \in Txs : CommitMove(tx) \/ CommitCreate(tx) \/ CommitBatch(tx)
           \/ /\ UNCHANGED <<transitions, created, removed>>
              /\ \A d \in Subjects : deals'[d].status = deals[d].status
<1> DEFINE Shown == \E tx \in Txs : CommitMove(tx) \/ CommitCreate(tx) \/ CommitBatch(tx)
           Unseen == /\ UNCHANGED <<transitions, created, removed>>
                     /\ \A d \in Subjects : deals'[d].status = deals[d].status
<1>1. ASSUME NEW tx \in Txs, Move(tx), ~Shown PROVE Unseen
  <2>1. CASE \E d \in Subjects, user \in Actors, target \in Statuses :
               RequestMove(tx, d, user, target)
    BY <2>1 DEF RequestMove, Begin, logVars
  <2>2. CASE LockDeal(tx) \/ FlushMove(tx) \/ Announce(tx)
    BY <2>2 DEF LockDeal, FlushMove, Announce, logVars
  <2>3. CASE RecordMove(tx)
    BY <2>3 DEF RecordMove, RecordTransition, logVars
  <2> QED BY <1>1, <2>1, <2>2, <2>3 DEF Move
<1>2. ASSUME NEW tx \in Txs, Create(tx), ~Shown PROVE Unseen
  <2>1. CASE \E d \in Subjects : SaveDeal(tx, d) \/ DuplicateDeal(tx, d)
    BY <2>1 DEF SaveDeal, DuplicateDeal, InsertDeal, Begin, logVars
  <2>2. CASE RecordCreated(tx)
    BY <2>2 DEF RecordCreated, RecordTransition, logVars
  <2> QED BY <1>2, <2>1, <2>2 DEF Create
<1>3. ASSUME NEW tx \in Txs, Edit(tx) PROVE Unseen
  <2>1. CASE \E d \in Subjects : OpenEdit(tx, d)
    BY <2>1 DEF OpenEdit, Begin, logVars
  <2>2. CASE LoadEdit(tx)
    BY <2>2 DEF LoadEdit, logVars
  <2>3. CASE SaveEdit(tx)
    <3>1. "status" \notin op[tx].fields
      BY DEF DriftInv, OpsKnown, OpKnown
    <3>2. deals' = [deals EXCEPT ![op[tx].deal] =
                      [f \in DealFields |-> IF f \in op[tx].fields THEN op[tx].row[f]
                                            ELSE @[f]]]
      BY <2>3 DEF SaveEdit
    <3>3. \A d \in Subjects : deals'[d].status = deals[d].status
      BY <3>1, <3>2, DriftParts DEF Deal, DealFields
    <3> QED BY <2>3, <3>3 DEF SaveEdit, logVars
  <2> QED BY <1>3, <2>1, <2>2, <2>3 DEF Edit
<1>4. ASSUME NEW tx \in Txs, Seed(tx), ~Shown PROVE Unseen
  BY <1>4 DEF Seed, StartSeed, Begin, ReadBatch, SnapshotDeal, SeedSnapshot, SeedDeal,
              SeedHead, logVars, dealVars
<1>5. ASSUME NEW tx \in Txs, StepLog(tx) PROVE Unseen
  BY <1>5 DEF StepLog, ContinueRecord, RepairDrift, UpsertSnapshot, AppendTransition,
              InsertTransition, dealVars
<1>6. ASSUME NEW tx \in Txs, Abort(tx) PROVE Unseen
  BY <1>6 DEF Abort, RollbackLog
<1>7. CASE UNCHANGED vars
  BY <1>7 DEF vars, logVars, dealVars
<1> QED BY <1>1, <1>2, <1>3, <1>4, <1>5, <1>6, <1>7 DEF Next

\* What a move commits.
LEMMA CommitMoveShows ==
    ASSUME DriftInv, NEW tx \in Txs, CommitMove(tx)
    PROVE  /\ op[tx].deal \in created /\ op[tx].deal \in Subjects
           /\ op[tx].target \in Statuses
           /\ op[tx].previous = deals[op[tx].deal].status
           /\ op[tx].removal = RemovalFor(op[tx].deal, op[tx].previous, op[tx].target)
           /\ \A d \in Subjects :
                deals'[d].status = IF d = op[tx].deal THEN op[tx].target
                                   ELSE deals[d].status
           /\ \A r \in pending[tx] : r.subject = op[tx].deal
<1> DEFINE d == op[tx].deal
<1>1. op[tx].pc = "logging" /\ deals' = [deals EXCEPT ![d] = op[tx].row]
  BY DEF CommitMove
<1>2. /\ d \in created /\ d \in Subjects /\ op[tx].target \in Statuses
      /\ op[tx].user \in Actors /\ RowCurrent(op[tx], deals[d])
  BY <1>1, DriftParts DEF DealSide, OpsPlaced, OpPlaced, RowsCurrent, Holding
<1>3. deals[d] \in Deal
  BY <1>2, DriftParts
<1>4. op[tx].row.status = op[tx].target /\ op[tx].previous = deals[d].status
  BY <1>1, <1>2, <1>3, MovedTyped DEF RowCurrent, Holding
<1>5. \A e \in Subjects :
        deals'[e].status = IF e = d THEN op[tx].target ELSE deals[e].status
  BY <1>1, <1>2, <1>4, DriftParts
<1>6. \A r \in pending[tx] : r.subject = d
  BY <1>1, DriftParts DEF LogSide, RowsOwned, RowOwned
<1>7. op[tx].removal = RemovalFor(d, op[tx].previous, op[tx].target)
  BY <1>1 DEF DriftInv, OpsKnown, OpKnown
<1> QED BY <1>2, <1>4, <1>5, <1>6, <1>7

-----------------------------------------------------------------------------
(***************************************************************************)
(* The flag of a listing follows the deals.                                *)
(***************************************************************************)

LEMMA FlagAfterMove ==
    ASSUME DriftInv, DriftInv', ListingFlagFollows, NEW tx \in Txs, CommitMove(tx)
    PROVE  ListingFlagFollows'
<1> DEFINE d == op[tx].deal
           zpid == ListingOf[d]
<1>1. /\ CommitLog(tx) /\ created' = created
      /\ removed' = IF op[tx].removal = None THEN removed
                    ELSE [removed EXCEPT ![zpid] = op[tx].removal]
  BY DEF CommitMove
<1>2. /\ d \in created /\ d \in Subjects /\ op[tx].target \in Statuses
      /\ op[tx].previous = deals[d].status
      /\ op[tx].removal = RemovalFor(d, op[tx].previous, op[tx].target)
      /\ \A e \in Subjects :
           deals'[e].status = IF e = d THEN op[tx].target ELSE deals[e].status
      /\ \A r \in pending[tx] : r.subject = d
  BY CommitMoveShows
<1>3. removed \in [Listings -> BOOLEAN] /\ created \subseteq Subjects
  BY DEF DriftInv, DealInv, TypeOK
<1>4. \A l \in Listings : removed'[l] = IF l = zpid /\ op[tx].removal # None
                                        THEN op[tx].removal ELSE removed[l]
  BY <1>1, <1>3
<1>5. \A e \in created : \A r \in Tails(transitions', e) : r.to = deals'[e].status
  BY <1>1 DEF DriftInv, NoDrift
<1> SUFFICES ASSUME NEW l \in Listings,
                    NEW versions, versions = {e \in Subjects : ListingOf[e] = l}
             PROVE  /\ removed'[l] =>
                         \E e \in versions \cap created : deals'[e].status = DeleteZillow
                    /\ \A e \in created :
                         versions = {e} /\ (\E r \in Tails(transitions', e) :
                                              r.to = DeleteZillow /\ r.actor # None)
                           => removed'[l]
  BY <1>1 DEF ListingFlagFollows
<1>6. /\ removed[l] => \E e \in versions \cap created : deals[e].status = DeleteZillow
      /\ \A e \in created :
           versions = {e} /\ (\E r \in Tails(transitions, e) :
                                r.to = DeleteZillow /\ r.actor # None)
             => removed[l]
  BY DEF ListingFlagFollows
<1>7. l # None
  BY DealAssumption
<1>8. ASSUME removed'[l]
      PROVE  \E e \in versions \cap created : deals'[e].status = DeleteZillow
  <2>1. CASE l = zpid /\ op[tx].removal # None
    BY <1>2, <1>4, <1>8, <2>1 DEF RemovalFor
  <2>2. CASE ~(l = zpid /\ op[tx].removal # None)
    <3>1. PICK e \in versions \cap created : deals[e].status = DeleteZillow
      BY <1>4, <1>6, <1>8, <2>2
    <3>2. CASE e # d
      BY <1>2, <1>3, <3>1, <3>2
    <3>3. CASE e = d
      <4>1. zpid = l /\ op[tx].previous = DeleteZillow /\ op[tx].removal = None
        BY <1>2, <2>2, <3>1, <3>3
      <4>2. op[tx].target = DeleteZillow
        BY <1>2, <1>7, <4>1, DealAssumption DEF RemovalFor
      <4> QED BY <1>2, <3>1, <3>3, <4>2
    <3> QED BY <3>2, <3>3
  <2> QED BY <2>1, <2>2
<1>9. ASSUME NEW e \in created, versions = {e}, NEW r \in Tails(transitions', e),
             r.to = DeleteZillow, r.actor # None
      PROVE  removed'[l]
  <2>1. CASE e = d
    <3>1. op[tx].target = DeleteZillow
      BY <1>2, <1>5, <1>9, <2>1
    <3>2. zpid = l
      BY <1>9, <2>1
    <3>3. op[tx].removal = TRUE /\ op[tx].removal # None
      BY <1>2, <1>7, <3>1, <3>2, DealAssumption DEF RemovalFor
    <3> QED BY <1>4, <3>2, <3>3
  <2>2. CASE e # d
    <3>1. zpid # l
      BY <1>2, <1>9, <2>2
    <3>2. r \in Tails(transitions, e)
      BY <1>1, <1>2, <2>2, LastAfterCommit
    <3> QED BY <1>4, <1>6, <1>9, <3>1, <3>2
  <2> QED BY <2>1, <2>2
<1> QED BY <1>8, <1>9

\* A commit that touches no flag and takes no deal out of delete_zillow has only
\* the rows it adds to account for.
LEMMA FlagKept ==
    ASSUME ListingFlagFollows, created \subseteq Subjects, created \subseteq created',
           removed' = removed,
           \A d \in created : deals'[d].status = deals[d].status,
           \A d \in created' : \A r \in Tails(transitions', d) :
             \/ d \in created /\ r \in Tails(transitions, d)
             \/ r.to # DeleteZillow \/ r.actor = None
    PROVE  ListingFlagFollows'
  BY DEF ListingFlagFollows

LEMMA FlagNext ==
    ASSUME "status" \notin EditorFields, DriftInv, DriftInv', ListingFlagFollows,
           [Next]_vars
    PROVE  ListingFlagFollows'
<1>1. CASE /\ UNCHANGED <<transitions, created, removed>>
           /\ \A d \in Subjects : deals'[d].status = deals[d].status
  BY <1>1, FlagKept, DriftParts
<1>2. ASSUME NEW tx \in Txs, CommitMove(tx) PROVE ListingFlagFollows'
  BY <1>2, FlagAfterMove
<1>3. ASSUME NEW tx \in Txs, CommitCreate(tx) PROVE ListingFlagFollows'
  <2> DEFINE d == op[tx].deal
  <2>1. /\ op[tx].pc = "heading" /\ CommitLog(tx) /\ removed' = removed
        /\ created' = created \cup {d} /\ deals' = [deals EXCEPT ![d] = op[tx].row]
    BY <1>3 DEF CommitCreate
  <2>2. d \in Subjects \ created
    BY <2>1, DriftParts DEF DealSide, OpsPlaced, OpPlaced, Inserting
  <2>3. \A e \in created : deals'[e].status = deals[e].status
    BY <2>1, <2>2, DriftParts
  <2>4. ASSUME NEW r \in pending[tx] PROVE r.to # DeleteZillow \/ r.actor = None
    BY <2>1, <2>4 DEF DriftInv, RowsKnown, RowKnown, OpsKnown, OpKnown, Inserting,
                      TemplateGenerated, DeleteZillow
  <2>5. ASSUME NEW e \in created', NEW r \in Tails(transitions', e)
        PROVE  \/ e \in created /\ r \in Tails(transitions, e)
               \/ r.to # DeleteZillow \/ r.actor = None
    <3>1. r.subject = e /\ (r \in pending[tx] \/ r \in Tails(transitions, e))
      BY <2>1, <2>5, LastAfterCommit
    <3>2. r \in Tails(transitions, e) => e \in created
      BY <3>1 DEF Tails, RowsOf, DriftInv, LogOfCreated
    <3> QED BY <2>4, <3>1, <3>2
  <2> QED BY <2>1, <2>3, <2>5, FlagKept, DriftParts
<1>4. ASSUME NEW tx \in Txs, CommitBatch(tx) PROVE ListingFlagFollows'
  <2>1. /\ op[tx].pc = "seeding" /\ CommitLog(tx)
        /\ UNCHANGED <<removed, created, deals>>
    BY <1>4 DEF CommitBatch
  <2>2. ASSUME NEW r \in pending[tx] PROVE r.to # DeleteZillow \/ r.actor = None
    BY <2>1, <2>2 DEF DriftInv, RowsKnown, RowKnown
  <2> QED BY <2>1, <2>2, FlagKept, LastAfterCommit, DriftParts
<1> QED BY <1>1, <1>2, <1>3, <1>4, VisibleSteps

LEMMA FlagInit == Init => ListingFlagFollows
<1> SUFFICES ASSUME Init PROVE ListingFlagFollows
  OBVIOUS
<1>1. /\ transitions = {} /\ created = Legacy /\ Legacy \subseteq Subjects
      /\ \A l \in Listings : removed[l] =
           \E d \in Legacy : ListingOf[d] = l /\ deals[d].status = DeleteZillow
  BY DealAssumption DEF Init, LogInit
<1> QED BY <1>1 DEF ListingFlagFollows, Tails, RowsOf

\* A listing is hidden only while a deal of it is in delete_zillow, and a deal
\* that is the only version of its listing hides it when it moves there: the flag
\* is derived from the previous status the locked row had, and that is the one
\* the commit replaces.
THEOREM FlagsFollowDeals ==
    ASSUME "status" \notin EditorFields
    PROVE  Spec => []ListingFlagFollows
<1>1. DriftInv /\ DriftInv' /\ ListingFlagFollows /\ [Next]_vars => ListingFlagFollows'
  BY FlagNext
<1> QED BY FlagInit, <1>1, DriftInvariant, PTL DEF Spec

-----------------------------------------------------------------------------
(***************************************************************************)
(* A completed backfill has left no deal without a log.                    *)
(***************************************************************************)

\* Deals get a status and their log its head in the same commit.
LEMMA HeadsGrow ==
    ASSUME "status" \notin EditorFields, DriftInv, [Next]_vars
    PROVE  /\ transitions \subseteq transitions' /\ created \subseteq created'
           /\ \A d \in created : \/ deals'[d].status = deals[d].status
                                 \/ Heads(transitions', d) # {}
           /\ \A d \in created' \ created :
                deals'[d].status = None \/ Heads(transitions', d) # {}
<1>1. ASSUME NEW tx \in Txs, CommitLog(tx), NEW r \in pending[tx]
      PROVE  Heads(transitions', r.subject) # {}
  <2>1. Heads(Visible(tx), r.subject) # {}
    BY DriftParts DEF ChainRows, RowsHeaded
  <2> QED BY <1>1, <2>1 DEF CommitLog, Visible
<1>2. CASE /\ UNCHANGED <<transitions, created, removed>>
           /\ \A d \in Subjects : deals'[d].status = deals[d].status
  BY <1>2, DriftParts
<1>3. ASSUME NEW tx \in Txs, CommitMove(tx)
      PROVE  /\ transitions \subseteq transitions' /\ created' = created
             /\ \A d \in created : \/ deals'[d].status = deals[d].status
                                   \/ Heads(transitions', d) # {}
  <2>1. CommitLog(tx) /\ created' = created /\ op[tx].pc = "logging" /\ call[tx].pc = "idle"
    BY <1>3 DEF CommitMove, CommitLog
  <2>2. op[tx].previous # op[tx].target => \E r \in pending[tx] : r.subject = op[tx].deal
    BY <2>1 DEF DriftInv, OutcomesKnown, OutcomeKnown
  <2>3. \A d \in created : \/ deals'[d].status = deals[d].status
                           \/ d = op[tx].deal /\ op[tx].previous # op[tx].target
    BY <1>3, CommitMoveShows, DriftParts
  <2>4. \A d \in created : \/ deals'[d].status = deals[d].status
                           \/ Heads(transitions', d) # {}
    BY <1>1, <2>1, <2>2, <2>3
  <2> QED BY <2>1, <2>4 DEF CommitLog
<1>4. ASSUME NEW tx \in Txs, CommitCreate(tx)
      PROVE  /\ transitions \subseteq transitions' /\ created \subseteq created'
             /\ \A d \in created : deals'[d].status = deals[d].status
             /\ \A d \in created' \ created :
                  deals'[d].status = None \/ Heads(transitions', d) # {}
  <2> DEFINE e == op[tx].deal
  <2>1. /\ CommitLog(tx) /\ created' = created \cup {e} /\ op[tx].pc = "heading"
        /\ deals' = [deals EXCEPT ![e] = op[tx].row] /\ call[tx].pc = "idle"
    BY <1>4 DEF CommitCreate, CommitLog
  <2>2. e \in Subjects \ created
    BY <2>1, DriftParts DEF DealSide, OpsPlaced, OpPlaced, Inserting
  <2>3. \A d \in Subjects : deals'[d] = IF d = e THEN op[tx].row ELSE deals[d]
    BY <2>1, DriftParts
  <2>4. op[tx].row.status # None => \E r \in pending[tx] : r.subject = e
    BY <2>1 DEF DriftInv, OutcomesKnown, OutcomeKnown
  <2>5. deals'[e].status = None \/ Heads(transitions', e) # {}
    BY <1>1, <2>1, <2>2, <2>3, <2>4
  <2> QED BY <2>1, <2>2, <2>3, <2>5, DriftParts DEF CommitLog
<1>5. ASSUME NEW tx \in Txs, CommitBatch(tx)
      PROVE  /\ transitions \subseteq transitions' /\ created' = created
             /\ \A d \in created : deals'[d].status = deals[d].status
  BY <1>5 DEF CommitBatch, CommitLog
<1> QED BY <1>2, <1>3, <1>4, <1>5, VisibleSteps

\* A step is one transaction's; only the script's own steps move its scan, and
\* only a commit and a send touch the webhooks.
LEMMA ScanSteps ==
    ASSUME DriftInv, [Next]_vars
    PROVE  \/ UNCHANGED <<op, call, pending, transitions, seeded, webhooks>>
           \/ \E tx \in Txs :
                /\ \A t \in Txs : t # tx =>
                     op'[t] = op[t] /\ call'[t] = call[t] /\ pending'[t] = pending[t]
                /\ \/ op'[tx].pc \notin Recording
                   \/ RecordMove(tx) \/ RecordCreated(tx) \/ StepLog(tx)
                /\ \/ /\ op'[tx].pc \notin {"reading", "seeding"} /\ seeded' = seeded
                      /\ \/ op'[tx].pc # "announcing" /\ webhooks' = webhooks
                         \/ CommitMove(tx) \/ Announce(tx)
                   \/ StartSeed(tx) \/ ReadBatch(tx) \/ SeedDeal(tx) \/ CommitBatch(tx)
<1> DEFINE Own(tx) == \A t \in Txs : t # tx =>
                        op'[t] = op[t] /\ call'[t] = call[t] /\ pending'[t] = pending[t]
           Writes(tx) == \/ op'[tx].pc \notin {"logging", "heading"}
                         \/ RecordMove(tx) \/ RecordCreated(tx) \/ StepLog(tx)
           Other(tx) == /\ op'[tx].pc \notin {"reading", "seeding"} /\ seeded' = seeded
                        /\ \/ op'[tx].pc # "announcing" /\ webhooks' = webhooks
                           \/ CommitMove(tx) \/ Announce(tx)
<1>0. NoOp.pc = "idle" /\ NoOp \in Op
  BY NoOpTyped
<1>1. ASSUME NEW tx \in Txs, NEW o \in Op, Begin(tx, o)
      PROVE  Own(tx) /\ op'[tx] = o /\ seeded' = seeded /\ webhooks' = webhooks
  BY <1>1, DriftParts DEF Begin, logVars
<1>2. ASSUME NEW tx \in Txs, Move(tx) PROVE Own(tx) /\ Writes(tx) /\ Other(tx)
  <2>1. ASSUME NEW d \in Subjects, NEW user \in Actors, NEW target \in Statuses,
               RequestMove(tx, d, user, target)
        PROVE  Own(tx) /\ Writes(tx) /\ Other(tx)
    <3> DEFINE o == [NoOp EXCEPT !.pc = "waiting", !.deal = d, !.user = user,
                                 !.target = target]
    <3>1. o \in Op /\ o.pc = "waiting" /\ Begin(tx, o)
      BY <2>1, NoOpTyped DEF Op, OpPc, RequestMove
    <3> HIDE DEF o
    <3> QED BY <1>1, <3>1
  <2>2. CASE LockDeal(tx) \/ FlushMove(tx)
    <3>1. op[tx] \in Op /\ UNCHANGED <<call, pending, seeded, webhooks>>
      BY <2>2, DriftParts DEF LockDeal, FlushMove, logVars
    <3>2. Own(tx) /\ op'[tx].pc \in {"locked", "flushed"}
      BY <2>2, <3>1, DriftParts DEF LockDeal, FlushMove, Op
    <3> QED BY <3>1, <3>2
  <2>3. CASE RecordMove(tx)
    <3>1. op[tx] \in Op /\ UNCHANGED <<pending, seeded, webhooks>>
      BY <2>3, DriftParts DEF RecordMove, RecordTransition, logVars
    <3>2. call' = call \/ \E c : call' = [call EXCEPT ![tx] = c]
      BY <2>3 DEF RecordMove, RecordTransition, logVars
    <3>3. \A t \in Txs : t # tx => call'[t] = call[t]
      BY <3>2, DriftParts
    <3>4. Own(tx) /\ op'[tx].pc = "logging"
      BY <2>3, <3>1, <3>3, DriftParts DEF RecordMove, Op
    <3> QED BY <2>3, <3>1, <3>4
  <2>4. CASE CommitMove(tx) \/ Announce(tx)
    <3>1. seeded' = seeded /\ Own(tx)
      BY <2>4, DriftParts DEF CommitMove, CommitLog, Announce, logVars
    <3> DEFINE o == [NoOp EXCEPT !.pc = "announcing", !.deal = op[tx].deal,
                                 !.target = op[tx].target]
    <3>2. op'[tx] \in {NoOp, o}
      BY <2>4, DriftParts DEF CommitMove, Announce
    <3>3. o.pc = "announcing"
      BY <1>0 DEF Op
    <3> QED BY <1>0, <2>4, <3>1, <3>2, <3>3
  <2> QED BY <1>2, <2>1, <2>2, <2>3, <2>4 DEF Move
<1>3. ASSUME NEW tx \in Txs, Create(tx) PROVE Own(tx) /\ Writes(tx) /\ Other(tx)
  <2>1. ASSUME NEW d \in Subjects, NEW source, NEW actor, NEW row,
               InsertDeal(tx, d, source, actor, row)
        PROVE  Own(tx) /\ Writes(tx) /\ Other(tx)
    <3> DEFINE o == [NoOp EXCEPT !.pc = "inserted", !.deal = d, !.source = source,
                                 !.user = actor, !.row = row]
    <3>1. o.pc = "inserted" /\ op' = [op EXCEPT ![tx] = o] /\ UNCHANGED <<call, pending, seeded, webhooks>>
      BY <2>1, NoOpTyped DEF Op, InsertDeal, Begin, logVars
    <3> HIDE DEF o
    <3> QED BY <3>1, DriftParts
  <2>2. CASE RecordCreated(tx)
    <3>1. op[tx] \in Op /\ UNCHANGED <<pending, seeded, webhooks>>
      BY <2>2, DriftParts DEF RecordCreated, RecordTransition, logVars
    <3>2. call' = call \/ \E c : call' = [call EXCEPT ![tx] = c]
      BY <2>2 DEF RecordCreated, RecordTransition, logVars
    <3>3. \A t \in Txs : t # tx => call'[t] = call[t]
      BY <3>2, DriftParts
    <3>4. Own(tx) /\ op'[tx].pc = "heading"
      BY <2>2, <3>1, <3>3, DriftParts DEF RecordCreated, Op
    <3> QED BY <2>2, <3>1, <3>4
  <2>3. CASE CommitCreate(tx)
    BY <1>0, <2>3, DriftParts DEF CommitCreate, CommitLog
  <2> QED BY <1>3, <2>1, <2>2, <2>3 DEF Create, SaveDeal, DuplicateDeal
<1>4. ASSUME NEW tx \in Txs, Edit(tx) PROVE Own(tx) /\ Writes(tx) /\ Other(tx)
  <2>1. ASSUME NEW d, NEW fields, NEW row,
               Begin(tx, [NoOp EXCEPT !.pc = "form", !.deal = d, !.fields = fields,
                                      !.row = row])
        PROVE  Own(tx) /\ Writes(tx) /\ Other(tx)
    <3> DEFINE o == [NoOp EXCEPT !.pc = "form", !.deal = d, !.fields = fields,
                                 !.row = row]
    <3>1. o.pc = "form" /\ op' = [op EXCEPT ![tx] = o] /\ UNCHANGED <<call, pending, seeded, webhooks>>
      BY <2>1, NoOpTyped DEF Op, Begin, logVars
    <3> HIDE DEF o
    <3> QED BY <3>1, DriftParts
  <2>2. CASE LoadEdit(tx)
    <3>1. op[tx] \in Op /\ UNCHANGED <<call, pending, seeded, webhooks>>
      BY <2>2, DriftParts DEF LoadEdit, logVars
    <3>2. Own(tx) /\ op'[tx].pc = "loaded"
      BY <2>2, <3>1, DriftParts DEF LoadEdit, Op
    <3> QED BY <3>1, <3>2
  <2>3. CASE SaveEdit(tx)
    BY <1>0, <2>3, DriftParts DEF SaveEdit, logVars
  <2> QED BY <1>4, <2>1, <2>2, <2>3 DEF Edit, OpenEdit
<1>5. ASSUME NEW tx \in Txs, SnapshotDeal(tx)
      PROVE  UNCHANGED <<op, call, pending, transitions, seeded, webhooks>>
  BY <1>5 DEF SnapshotDeal, SeedSnapshot, dealVars
<1>6. ASSUME NEW tx \in Txs, StartSeed(tx) \/ ReadBatch(tx) \/ SeedDeal(tx) \/ CommitBatch(tx)
      PROVE  Own(tx) /\ Writes(tx)
  <2>1. Own(tx)
    BY <1>6, DriftParts DEF StartSeed, Begin, ReadBatch, SeedDeal, SeedHead, CommitBatch,
                            CommitLog, logVars
  <2>2. CASE StartSeed(tx)
    <3> DEFINE o == [NoOp EXCEPT !.pc = "reading"]
    <3>1. o.pc = "reading" /\ op' = [op EXCEPT ![tx] = o]
      BY <2>2, NoOpTyped DEF Op, StartSeed, Begin
    <3> HIDE DEF o
    <3> QED BY <2>1, <3>1, DriftParts
  <2>3. CASE ReadBatch(tx) \/ SeedDeal(tx) \/ CommitBatch(tx)
    <3>1. op[tx] \in Op
      BY DriftParts
    <3>2. CASE ReadBatch(tx)
      <4>1. CASE op' = [op EXCEPT ![tx] = NoOp]
        <5>1. op'[tx] = NoOp
          BY <4>1, DriftParts
        <5> QED BY <1>0, <2>1, <5>1
      <4>2. ASSUME NEW batch, NEW last,
                   op' = [op EXCEPT ![tx].pc = "seeding", ![tx].batch = batch,
                                    ![tx].last = last]
            PROVE  op'[tx].pc = "seeding"
        BY <3>1, <4>2, DriftParts DEF Op
      <4>3. \/ op' = [op EXCEPT ![tx] = NoOp]
            \/ \E batch, last : op' = [op EXCEPT ![tx].pc = "seeding", ![tx].batch = batch,
                                                ![tx].last = last]
        BY <3>2 DEF ReadBatch
      <4> QED BY <2>1, <4>1, <4>2, <4>3
    <3>3. CASE SeedDeal(tx)
      <4>1. op[tx].pc = "seeding" /\ \E batch : op' = [op EXCEPT ![tx].batch = batch]
        BY <3>3 DEF SeedDeal
      <4>2. op'[tx].pc = "seeding"
        BY <3>1, <4>1, DriftParts DEF Op
      <4> QED BY <2>1, <4>2
    <3>4. CASE CommitBatch(tx)
      <4>1. op'[tx].pc = "reading"
        BY <3>1, <3>4, DriftParts DEF CommitBatch, Op
      <4> QED BY <2>1, <4>1
    <3> QED BY <2>3, <3>2, <3>3, <3>4
  <2> QED BY <1>6, <2>2, <2>3
<1>7. ASSUME NEW tx \in Txs, StepLog(tx)
      PROVE  /\ Own(tx) /\ Writes(tx) /\ Other(tx)
  <2>1. UNCHANGED <<op, seeded, webhooks>> /\ op[tx].pc \in {"logging", "heading"}
    BY <1>7 DEF StepLog, dealVars
  <2>2. \A t \in Txs : t # tx => call'[t] = call[t] /\ pending'[t] = pending[t]
    BY <1>7, DriftParts DEF StepLog, ContinueRecord, RepairDrift, UpsertSnapshot,
                            AppendTransition, InsertTransition
  <2> QED BY <1>7, <2>1, <2>2
<1>8. ASSUME NEW tx \in Txs, Abort(tx) PROVE Own(tx) /\ Writes(tx) /\ Other(tx)
  BY <1>0, <1>8, DriftParts DEF Abort, RollbackLog
<1>9. CASE UNCHANGED vars
  BY <1>9 DEF vars, logVars, dealVars
<1> QED BY <1>2, <1>3, <1>4, <1>5, <1>6, <1>7, <1>8, <1>9 DEF Next, Seed, Recording

\* The scans of the other transactions: a deal that gets a status gets a head.
LEMMA ScannedKept ==
    ASSUME "status" \notin EditorFields, DriftInv, BackfillInv, [Next]_vars,
           NEW t \in Txs, op'[t] = op[t], pending'[t] = pending[t]
    PROVE  Scanned(op'[t], transitions' \cup pending'[t], deals')
<1> SUFFICES ASSUME op[t].pc \in {"reading", "seeding"}, NEW d \in Legacy,
                    d <= op[t].last, deals'[d].status # None,
                    ~(op[t].pc = "seeding" /\ \E seed \in op[t].batch : seed.deal = d)
             PROVE  Heads(transitions' \cup pending'[t], d) # {}
  BY DEF Scanned
<1>1. transitions \subseteq transitions' /\ d \in created
  BY HeadsGrow DEF BackfillInv
<1>2. CASE deals'[d].status = deals[d].status
  <2>1. Scanned(op[t], Visible(t), deals)
    BY DEF BackfillInv
  <2>2. Heads(Visible(t), d) # {}
    BY <1>2, <2>1 DEF Scanned
  <2> QED BY <1>1, <2>2 DEF Visible, Heads, RowsOf
<1>3. CASE Heads(transitions', d) # {}
  BY <1>3 DEF Heads, RowsOf
<1> QED BY <1>1, <1>2, <1>3, HeadsGrow

\* A batch holds the first deals of those found, by id: none if none is found,
\* and all of them up to its last one.
Before(found, d) == {e \in found : e < d}
Rank(found, d) == Cardinality(Before(found, d))

LEMMA BeforeFinite ==
    ASSUME NEW found, found \subseteq Nat, NEW d \in found
    PROVE  IsFiniteSet(Before(found, d)) /\ Rank(found, d) \in Nat
<1>1. d \in Nat /\ \A e \in Before(found, d) : e \in Nat /\ e <= d
  BY DEF Before
<1>2. IsFiniteSet(Before(found, d))
  BY <1>1, FS_BoundedSetOfNaturals
<1> QED BY <1>2, FS_CardinalityType DEF Rank

LEMMA BatchIsFirst ==
    ASSUME NEW found, found \subseteq Nat, NEW batch,
           batch = {d \in found : Rank(found, d) < BatchSize}
    PROVE  /\ batch = {} => found = {}
           /\ \A last \in batch : \A d \in found : d <= last => d \in batch
<1>1. ASSUME found # {} PROVE batch # {}
  <2>1. PICK m \in found : \A e \in found : m <= e
    BY <1>1, LeastNat
  <2>2. \A e \in found : ~(e < m)
    BY <2>1
  <2>3. Before(found, m) = {}
    BY <2>2 DEF Before
  <2>4. Rank(found, m) = 0
    BY <2>3, FS_EmptySet DEF Rank
  <2>5. Rank(found, m) < BatchSize
    BY <2>4, DealAssumption
  <2> QED BY <2>1, <2>5
<1>2. ASSUME NEW last \in batch, NEW d \in found, d <= last
      PROVE  d \in batch
  <2>1. last \in found /\ Rank(found, last) < BatchSize
    OBVIOUS
  <2>2. \A e \in found : e < d => e < last
    BY <1>2, <2>1
  <2>3. Before(found, d) \in SUBSET Before(found, last)
    BY <2>2 DEF Before
  <2>4. Rank(found, d) <= Rank(found, last)
    BY <2>1, <2>3, BeforeFinite, FS_Subset DEF Rank
  <2>5. Rank(found, d) \in Nat /\ Rank(found, last) \in Nat
    BY <2>1, BeforeFinite
  <2>6. Rank(found, d) < BatchSize
    BY <2>1, <2>4, <2>5, DealAssumption
  <2> QED BY <2>6
<1> QED BY <1>1, <1>2

\* The next batch passes no deal that has no head.
LEMMA ReadBatchScan ==
    ASSUME DriftInv, BackfillInv, NEW tx \in Txs, ReadBatch(tx)
    PROVE  /\ Scanned(op'[tx], transitions' \cup pending'[tx], deals')
           /\ seeded' => seeded \/ \A d \in Legacy :
                deals[d].status # None => Heads(transitions, d) # {}
<1> DEFINE found == Unseeded(op[tx].last)
           batch == {d \in found : Rank(found, d) < BatchSize}
<1>1. /\ op[tx].pc = "reading" /\ UNCHANGED <<transitions, pending, deals>>
      /\ \/ batch = {} /\ op' = [op EXCEPT ![tx] = NoOp]
         \/ \E last \in batch :
              /\ op' = [op EXCEPT ![tx].pc = "seeding",
                                  ![tx].batch = {SeedFor(d) : d \in batch},
                                  ![tx].last = last]
              /\ seeded' = seeded
  BY DEF ReadBatch, Rank, Before, logVars
<1>2. found \subseteq Nat /\ Legacy \subseteq created
  BY DriftParts, DealAssumption DEF Unseeded, BackfillInv
<1>3. batch = {} => found = {}
  BY <1>2, BatchIsFirst
<1>4. \A last \in batch : \A d \in found : d <= last => d \in batch
  BY <1>2, BatchIsFirst
<1>5. pending[tx] = {}
  BY <1>1, DriftParts, NothingPending DEF Recording
<1>6. op[tx] \in Op /\ op[tx].last \in Nat
  BY DriftParts DEF Op
<1>7. ASSUME NEW d \in Legacy, deals[d].status # None, d \notin found
      PROVE  Heads(transitions, d) # {}
  <2>1. CASE d <= op[tx].last
    <3>1. Scanned(op[tx], Visible(tx), deals)
      BY DEF BackfillInv
    <3>2. Heads(Visible(tx), d) # {}
      BY <1>1, <1>7, <2>1, <3>1 DEF Scanned
    <3> QED BY <1>5, <3>2 DEF Visible
  <2>2. CASE ~(d <= op[tx].last)
    <3>1. d \in Nat /\ d \in created
      BY <1>2, DealAssumption
    <3>2. d > op[tx].last
      BY <1>6, <2>2, <3>1
    <3> QED BY <1>7, <3>1, <3>2 DEF Unseeded
  <2> QED BY <2>1, <2>2
<1>8. CASE batch = {} /\ op' = [op EXCEPT ![tx] = NoOp]
  <2>1. op'[tx].pc = "idle"
    BY <1>8, DriftParts, NoOpTyped
  <2>2. \A d \in Legacy : deals[d].status # None => Heads(transitions, d) # {}
    BY <1>3, <1>7, <1>8
  <2> QED BY <2>1, <2>2 DEF Scanned
<1>9. ASSUME NEW last \in batch, seeded' = seeded,
             op' = [op EXCEPT ![tx].pc = "seeding",
                              ![tx].batch = {SeedFor(d) : d \in batch},
                              ![tx].last = last]
      PROVE  Scanned(op'[tx], transitions, deals)
  <2> DEFINE seeds == {SeedFor(d) : d \in batch}
  <2> HIDE DEF found, batch
  <2>0. \A d : SeedFor(d).deal = d
    BY DEF SeedFor
  <2>1. \A d \in batch : \E seed \in seeds : seed.deal = d
    BY <2>0
  <2> HIDE DEF seeds
  <2>2. op'[tx].pc = "seeding" /\ op'[tx].batch = seeds /\ op'[tx].last = last
    BY <1>6, <1>9, DriftParts DEF Op, seeds
  <2>3. ASSUME NEW d \in Legacy, d <= last, deals[d].status # None
        PROVE  Heads(transitions, d) # {} \/ \E seed \in seeds : seed.deal = d
    BY <1>4, <1>7, <2>1, <2>3
  <2> QED BY <2>2, <2>3 DEF Scanned
<1>10. transitions' \cup pending'[tx] = transitions /\ deals' = deals
  BY <1>1, <1>5
<1> HIDE DEF found, batch
<1>11. CASE ~(batch = {} /\ op' = [op EXCEPT ![tx] = NoOp])
  <2>1. Scanned(op'[tx], transitions, deals) /\ seeded' = seeded
    BY <1>1, <1>9, <1>11
  <2> QED BY <1>10, <2>1
<1> QED BY <1>8, <1>11

\* The deal that leaves the batch has a head.
LEMMA SeedDealScan ==
    ASSUME DriftInv, BackfillInv, NEW tx \in Txs, SeedDeal(tx)
    PROVE  /\ Scanned(op'[tx], transitions' \cup pending'[tx], deals')
           /\ seeded' = seeded
<1>1. PICK seed \in op[tx].batch :
        /\ SeedHead(tx, seed.deal, seed.status, seed.actor, seed.status)
        /\ op' = [op EXCEPT ![tx].batch = @ \ {seed}]
  BY DEF SeedDeal
<1>2. op[tx].pc = "seeding" /\ UNCHANGED <<transitions, deals, seeded>>
  BY <1>1 DEF SeedDeal, SeedHead
<1>3. /\ op'[tx].pc = "seeding" /\ op'[tx].last = op[tx].last
      /\ op'[tx].batch = op[tx].batch \ {seed}
  BY <1>1, <1>2, DriftParts DEF Op
<1>4. pending[tx] \subseteq pending'[tx] /\ Heads(transitions \cup pending'[tx], seed.deal) # {}
  <2> DEFINE r == [id |-> nextId, subject |-> seed.deal, prev |-> NoRow, from |-> None,
                   to |-> seed.status, source |-> "backfill", actor |-> seed.actor,
                   snapshot |-> seed.status]
  <2>1. r.subject = seed.deal /\ r.prev = NoRow
    OBVIOUS
  <2> HIDE DEF r
  <2>2. pending' = [pending EXCEPT ![tx] = IF Heads(Visible(tx), seed.deal) = {}
                                           THEN @ \cup {r} ELSE @]
    BY <1>1 DEF SeedHead, r
  <2>3. CASE Heads(Visible(tx), seed.deal) = {}
    <3>1. pending'[tx] = pending[tx] \cup {r}
      BY <2>2, <2>3, DriftParts
    <3> QED BY <2>1, <3>1 DEF Heads, RowsOf
  <2>4. CASE Heads(Visible(tx), seed.deal) # {}
    <3>1. pending'[tx] = pending[tx]
      BY <2>2, <2>4, DriftParts
    <3> QED BY <2>4, <3>1 DEF Visible
  <2> QED BY <2>3, <2>4
<1>5. ASSUME NEW d \in Legacy, d <= op[tx].last, deals[d].status # None
      PROVE  \/ Heads(transitions \cup pending'[tx], d) # {}
             \/ \E s \in op[tx].batch \ {seed} : s.deal = d
  <2>1. Scanned(op[tx], Visible(tx), deals)
    BY DEF BackfillInv
  <2>2. Heads(Visible(tx), d) # {} \/ \E s \in op[tx].batch : s.deal = d
    BY <1>2, <1>5, <2>1 DEF Scanned
  <2>3. CASE Heads(Visible(tx), d) # {}
    BY <1>4, <2>3 DEF Visible, Heads, RowsOf
  <2>4. CASE d = seed.deal
    BY <1>4, <2>4
  <2> QED BY <2>2, <2>3, <2>4
<1> QED BY <1>2, <1>3, <1>5 DEF Scanned

LEMMA CommitBatchScan ==
    ASSUME DriftInv, BackfillInv, NEW tx \in Txs, CommitBatch(tx)
    PROVE  /\ Scanned(op'[tx], transitions' \cup pending'[tx], deals')
           /\ seeded' = seeded
<1>1. /\ op[tx].pc = "seeding" /\ op[tx].batch = {}
      /\ transitions' = transitions \cup pending[tx]
      /\ op' = [op EXCEPT ![tx].pc = "reading"] /\ UNCHANGED <<deals, seeded>>
  BY DEF CommitBatch, CommitLog
<1>2. op'[tx].pc = "reading" /\ op'[tx].last = op[tx].last
  BY <1>1, DriftParts DEF Op
<1>3. ASSUME NEW d \in Legacy, d <= op[tx].last, deals[d].status # None
      PROVE  Heads(transitions', d) # {}
  <2>1. Scanned(op[tx], Visible(tx), deals)
    BY DEF BackfillInv
  <2> QED BY <1>1, <1>3, <2>1 DEF Scanned, Visible
<1>4. \A d : Heads(transitions', d) # {} => Heads(transitions' \cup pending'[tx], d) # {}
  BY DEF Heads, RowsOf
<1> QED BY <1>1, <1>2, <1>3, <1>4 DEF Scanned

\* A run begins before the first deal.
LEMMA StartSeedScan ==
    ASSUME DriftInv, BackfillInv, NEW tx \in Txs, StartSeed(tx)
    PROVE  /\ Scanned(op'[tx], transitions' \cup pending'[tx], deals')
           /\ seeded' = seeded
<1> DEFINE o == [NoOp EXCEPT !.pc = "reading"]
<1>1. o.last = 0
  BY DEF NoOp
<1> HIDE DEF o
<1>2. op' = [op EXCEPT ![tx] = o] /\ seeded' = seeded
  BY DEF StartSeed, Begin, o
<1>3. op'[tx].last = 0
  BY <1>1, <1>2, DriftParts
<1>4. \A d \in Legacy : ~(d <= 0)
  BY DealAssumption
<1> QED BY <1>2, <1>3, <1>4 DEF Scanned

LEMMA BackfillNext ==
    ASSUME "status" \notin EditorFields, DriftInv, BackfillInv, [Next]_vars
    PROVE  BackfillInv'
<1>1. Legacy \subseteq created'
  BY HeadsGrow DEF BackfillInv
<1>2. \A t \in Txs : Scanned(op'[t], transitions' \cup pending'[t], deals')
  <2>1. CASE UNCHANGED <<op, pending, transitions, seeded, webhooks>>
    BY <2>1, ScannedKept
  <2>2. ASSUME NEW tx \in Txs,
               \A t \in Txs : t # tx => op'[t] = op[t] /\ pending'[t] = pending[t],
               \/ op'[tx].pc \notin {"reading", "seeding"}
               \/ StartSeed(tx) \/ ReadBatch(tx) \/ SeedDeal(tx) \/ CommitBatch(tx)
        PROVE  \A t \in Txs : Scanned(op'[t], transitions' \cup pending'[t], deals')
    <3>1. \A t \in Txs : t # tx => Scanned(op'[t], transitions' \cup pending'[t], deals')
      BY <2>2, ScannedKept
    <3>2. CASE op'[tx].pc \notin {"reading", "seeding"}
      BY <3>1, <3>2 DEF Scanned
    <3>3. CASE StartSeed(tx) \/ ReadBatch(tx) \/ SeedDeal(tx) \/ CommitBatch(tx)
      <4>1. Scanned(op'[tx], transitions' \cup pending'[tx], deals')
        BY <3>3, StartSeedScan, ReadBatchScan, SeedDealScan, CommitBatchScan
      <4> QED BY <3>1, <4>1
    <3> QED BY <2>2, <3>2, <3>3
  <2> QED BY <2>1, <2>2, ScanSteps
<1>3. ASSUME seeded', ~seeded
      PROVE  \A d \in Legacy : deals'[d].status # None => Heads(transitions', d) # {}
  <2>1. PICK tx \in Txs : ReadBatch(tx)
    BY <1>3, ScanSteps, StartSeedScan, SeedDealScan, CommitBatchScan
  <2>2. UNCHANGED <<transitions, deals>>
    BY <2>1 DEF ReadBatch, logVars
  <2>3. \A d \in Legacy : deals[d].status # None => Heads(transitions, d) # {}
    BY <1>3, <2>1, ReadBatchScan
  <2> QED BY <2>2, <2>3
<1>4. ASSUME NEW d \in created', seeded' \/ d \notin Legacy, deals'[d].status # None
      PROVE  Heads(transitions', d) # {}
  <2>1. CASE d \in created
    <3>1. CASE Heads(transitions', d) # {}
      BY <3>1
    <3>2. CASE deals'[d].status = deals[d].status /\ (seeded \/ d \notin Legacy)
      <4>1. Heads(transitions, d) # {}
        BY <1>4, <2>1, <3>2 DEF BackfillInv
      <4> QED BY <4>1, HeadsGrow DEF Heads, RowsOf
    <3>3. CASE ~seeded /\ d \in Legacy
      BY <1>3, <1>4, <3>3
    <3> QED BY <2>1, <3>1, <3>2, <3>3, HeadsGrow
  <2>2. CASE d \notin created
    BY <1>4, <2>2, HeadsGrow
  <2> QED BY <2>1, <2>2
<1>5. \A t \in Txs : Visible(t)' = transitions' \cup pending'[t]
  BY DEF Visible
<1> QED BY <1>1, <1>2, <1>4, <1>5 DEF BackfillInv

LEMMA BackfillInit == Init => BackfillInv
<1> SUFFICES ASSUME Init PROVE BackfillInv
  OBVIOUS
<1>1. /\ created = Legacy /\ seeded = FALSE /\ op = [tx \in Txs |-> NoOp]
  BY DEF Init
<1>2. \A tx \in Txs : op[tx].pc = "idle"
  BY <1>1, NoOpTyped
<1> QED BY <1>1, <1>2 DEF BackfillInv, Scanned

\* Deals that have a head have a last row, and it says what the deal says.
LEMMA DriftCheckHolds == DriftInv /\ BackfillInv => DriftCheckEmpty
<1> SUFFICES ASSUME DriftInv, BackfillInv, seeded, NEW d \in created
             PROVE  {r.to : r \in Tails(transitions, d)} = {deals[d].status} \ {None}
  BY DEF DriftCheckEmpty, DriftReport
<1>1. \A r \in Tails(transitions, d) : r.to = deals[d].status /\ r \in transitions
  BY DEF DriftInv, NoDrift, Tails, RowsOf
<1>2. \A r \in transitions : r.to \in Statuses
  BY DriftParts, RowFields DEF TypeOK, LogTypeOK
<1>3. CASE deals[d].status = None
  BY <1>1, <1>2, <1>3, NoneAssumption
<1>4. CASE deals[d].status # None
  <2>1. Heads(transitions, d) # {}
    BY <1>4 DEF BackfillInv
  <2>2. RowsOf(transitions, d) # {}
    BY <2>1 DEF Heads
  <2>3. transitions \subseteq AllRows /\ \A r \in transitions : LinkedIn(r, transitions)
    BY DriftParts DEF ChainRows, RowsLinked, AllRows
  <2>4. Tails(transitions, d) # {}
    BY <2>2, <2>3, DriftParts, TailExists
  <2> QED BY <1>1, <1>4, <2>4
<1> QED BY <1>3, <1>4

\* Once a backfill has completed, the drift check of the runbook returns zero
\* rows: every deal with a status has a log, whichever deals were saved, moved
\* or found by another run of the script while its batches were read without
\* locks, and the log's last row is the status the deal is in.
THEOREM DriftCheckStaysEmpty ==
    ASSUME "status" \notin EditorFields
    PROVE  Spec => []DriftCheckEmpty
<1>1. DriftInv /\ BackfillInv /\ [Next]_vars => BackfillInv'
  BY BackfillNext
<1> QED BY BackfillInit, DriftCheckHolds, <1>1, DriftInvariant, PTL DEF Spec

-----------------------------------------------------------------------------
(***************************************************************************)
(* Every webhook has a logged move behind it.                              *)
(***************************************************************************)

\* The moves of a deal into a status, and the sends of it that are on their way.
Moves(rows, d, s) == {r \in RowsOf(rows, d) : r.to = s /\ r.source = "api"}
Sending(ops, d, s) ==
    {tx \in Txs : ops[tx].pc = "announcing" /\ ops[tx].deal = d /\ ops[tx].target = s}

LEMMA SendingFinite ==
    ASSUME NEW ops, NEW d, NEW s
    PROVE  /\ IsFiniteSet(Sending(ops, d, s))
           /\ Cardinality(Sending(ops, d, s)) \in Nat
<1>1. Sending(ops, d, s) \in SUBSET Txs
  BY DEF Sending
<1> QED BY <1>1, FS_Subset, FS_CardinalityType, DealAssumption

\* The counts, which the step lemmas compare.
Sent(hooks, ops, d, s) == hooks[d][s] + Cardinality(Sending(ops, d, s))
Logged(rows, d, s) == Cardinality(Moves(rows, d, s))

LEMMA LoggedGrows ==
    ASSUME NEW rows, NEW more, IsFiniteSet(more), rows \subseteq more, NEW d, NEW s
    PROVE  /\ Logged(rows, d, s) \in Nat /\ Logged(more, d, s) \in Nat
           /\ Logged(rows, d, s) <= Logged(more, d, s)
           /\ \A r \in Moves(more, d, s) : r \notin rows =>
                Logged(rows, d, s) + 1 <= Logged(more, d, s)
<1>1. Moves(more, d, s) \in SUBSET more /\ Moves(rows, d, s) \in SUBSET Moves(more, d, s)
  BY DEF Moves, RowsOf
<1>2. IsFiniteSet(Moves(more, d, s)) /\ IsFiniteSet(Moves(rows, d, s))
  BY <1>1, FS_Subset
<1>3. Logged(rows, d, s) \in Nat /\ Logged(more, d, s) \in Nat
  BY <1>2, FS_CardinalityType DEF Logged
<1>4. Logged(rows, d, s) <= Logged(more, d, s)
  BY <1>1, <1>2, FS_Subset DEF Logged
<1>5. ASSUME NEW r \in Moves(more, d, s), r \notin rows
      PROVE  Logged(rows, d, s) + 1 <= Logged(more, d, s)
  <2>1. r \notin Moves(rows, d, s)
    BY <1>5 DEF Moves, RowsOf
  <2>2. Moves(rows, d, s) # Moves(more, d, s)
    BY <2>1
  <2>3. Cardinality(Moves(rows, d, s)) # Cardinality(Moves(more, d, s))
    BY <1>1, <1>2, <2>2, FS_Subset
  <2> QED BY <1>3, <1>4, <2>3 DEF Logged
<1> QED BY <1>3, <1>4, <1>5

\* Nothing new is on its way: as many were sent, or some were given up.
LEMMA SendsKept ==
    ASSUME TypeOK, webhooks' = webhooks, NEW d \in Subjects, NEW s \in Announced,
           \A t \in Txs : op'[t].pc = "announcing" => op'[t] = op[t]
    PROVE  Sent(webhooks', op', d, s) <= Sent(webhooks, op, d, s)
<1>1. Sending(op', d, s) \in SUBSET Sending(op, d, s)
  BY DEF Sending
<1>2. Cardinality(Sending(op', d, s)) <= Cardinality(Sending(op, d, s))
  BY <1>1, SendingFinite, FS_Subset
<1>3. webhooks[d][s] \in Nat
  BY DEF TypeOK
<1> QED BY <1>2, <1>3, SendingFinite DEF Sent

\* A send moves from those on their way to those sent.
LEMMA AnnounceSends ==
    ASSUME DriftInv, NEW tx \in Txs, Announce(tx), NEW d \in Subjects, NEW s \in Announced
    PROVE  Sent(webhooks', op', d, s) <= Sent(webhooks, op, d, s)
<1>1. /\ op[tx].pc = "announcing" /\ op' = [op EXCEPT ![tx] = NoOp]
      /\ webhooks' = [webhooks EXCEPT ![op[tx].deal][op[tx].target] = @ + 1]
      /\ webhooks \in [Subjects -> [Announced -> Nat]]
  BY DriftParts DEF Announce, TypeOK
<1>2. op[tx].deal \in Subjects /\ op[tx].target \in Announced
  BY <1>1, DriftParts DEF DealSide, OpsPlaced, OpPlaced
<1>3. op'[tx].pc = "idle" /\ \A t \in Txs : t # tx => op'[t] = op[t]
  BY <1>1, DriftParts, NoOpTyped
<1>4. webhooks[d][s] \in Nat
  BY <1>1
<1>5. CASE d = op[tx].deal /\ s = op[tx].target
  <2>1. webhooks'[d][s] = webhooks[d][s] + 1
    BY <1>1, <1>2, <1>5
  <2>2. tx \in Sending(op, d, s) /\ Sending(op', d, s) = Sending(op, d, s) \ {tx}
    BY <1>1, <1>3, <1>5 DEF Sending
  <2>3. Cardinality(Sending(op', d, s)) = Cardinality(Sending(op, d, s)) - 1
    BY <2>2, SendingFinite, FS_RemoveElement
  <2> QED BY <1>4, <2>1, <2>3, SendingFinite DEF Sent
<1>6. CASE ~(d = op[tx].deal /\ s = op[tx].target)
  <2>1. webhooks'[d][s] = webhooks[d][s]
    BY <1>1, <1>2, <1>6
  <2>2. Sending(op', d, s) \in SUBSET Sending(op, d, s)
    BY <1>3 DEF Sending
  <2>3. Cardinality(Sending(op', d, s)) <= Cardinality(Sending(op, d, s))
    BY <2>2, SendingFinite, FS_Subset
  <2> QED BY <1>4, <2>1, <2>3, SendingFinite DEF Sent
<1> QED BY <1>5, <1>6

\* A move that is going to be announced commits its row with it, and that row is
\* none of those counted before.
LEMMA CommitMoveSends ==
    ASSUME DriftInv, IsFiniteSet(transitions'), NEW tx \in Txs, CommitMove(tx),
           NEW d \in Subjects, NEW s \in Announced,
           Sent(webhooks, op, d, s) <= Logged(transitions, d, s)
    PROVE  Sent(webhooks', op', d, s) <= Logged(transitions', d, s)
<1> DEFINE o == [NoOp EXCEPT !.pc = "announcing", !.deal = op[tx].deal,
                             !.target = op[tx].target]
<1>0. NoOp \in Op /\ NoOp.pc = "idle"
  BY NoOpTyped
<1>1. o.pc = "announcing" /\ o.deal = op[tx].deal /\ o.target = op[tx].target
  BY <1>0 DEF Op
<1> HIDE DEF o
<1>2. /\ op[tx].pc = "logging" /\ call[tx].pc = "idle" /\ webhooks' = webhooks
      /\ transitions' = transitions \cup pending[tx]
      /\ op' = [op EXCEPT ![tx] =
                  IF op[tx].previous # op[tx].target /\ op[tx].target \in Announced
                  THEN o ELSE NoOp]
  BY DEF CommitMove, CommitLog, o
<1>3. /\ \A t \in Txs : t # tx => op'[t] = op[t]
      /\ op'[tx] = IF op[tx].previous # op[tx].target /\ op[tx].target \in Announced
                   THEN o ELSE NoOp
  BY <1>2, DriftParts
<1>4. /\ Logged(transitions, d, s) \in Nat /\ Logged(transitions', d, s) \in Nat
      /\ Logged(transitions, d, s) <= Logged(transitions', d, s)
      /\ \A r \in Moves(transitions', d, s) : r \notin transitions =>
           Logged(transitions, d, s) + 1 <= Logged(transitions', d, s)
  BY <1>2, LoggedGrows
<1>5. webhooks[d][s] \in Nat /\ webhooks'[d][s] = webhooks[d][s]
  BY <1>2, DriftParts DEF TypeOK
<1>6. CASE op'[tx].pc = "announcing" /\ op[tx].deal = d /\ op[tx].target = s
  <2>1. op[tx].previous # op[tx].target /\ op'[tx] = o
    BY <1>0, <1>3, <1>6
  <2>2. PICK r \in pending[tx] : r.subject = d /\ r.to = s /\ r.source = "api"
    BY <1>2, <1>6, <2>1 DEF DriftInv, OutcomesKnown, OutcomeKnown
  <2>3. r \in Moves(transitions', d, s)
    BY <1>2, <2>2 DEF Moves, RowsOf
  <2>4. r \notin transitions
    <3>1. r \in Row
      BY DriftParts
    <3>2. r \in transitions => r.id < r.id
      BY DriftParts DEF ChainRows, OneWriter
    <3> QED BY <3>1, <3>2, RowFields
  <2>5. Logged(transitions, d, s) + 1 <= Logged(transitions', d, s)
    BY <1>4, <2>3, <2>4
  <2>6. tx \notin Sending(op, d, s) /\ Sending(op', d, s) = Sending(op, d, s) \cup {tx}
    BY <1>1, <1>2, <1>3, <1>6, <2>1 DEF Sending
  <2>7. Cardinality(Sending(op', d, s)) = Cardinality(Sending(op, d, s)) + 1
    BY <2>6, SendingFinite, FS_AddElement
  <2> QED BY <1>4, <1>5, <2>5, <2>7, SendingFinite DEF Sent
<1>7. CASE ~(op'[tx].pc = "announcing" /\ op[tx].deal = d /\ op[tx].target = s)
  <2>1. op'[tx].pc = "announcing" => op'[tx] = o
    BY <1>0, <1>3
  <2>2. Sending(op', d, s) \in SUBSET Sending(op, d, s)
    BY <1>1, <1>3, <1>7, <2>1 DEF Sending
  <2>3. Cardinality(Sending(op', d, s)) <= Cardinality(Sending(op, d, s))
    BY <2>2, SendingFinite, FS_Subset
  <2> QED BY <1>4, <1>5, <2>3, SendingFinite DEF Sent
<1> QED BY <1>6, <1>7

LEMMA WebhooksCounted ==
    WebhooksMatchMoves <=>
      \A d \in Subjects, s \in Announced :
        Sent(webhooks, op, d, s) <= Logged(transitions, d, s)
  BY DEF WebhooksMatchMoves, Sent, Sending, Logged, Moves

LEMMA LogFinite == DriftInv => IsFiniteSet(transitions)
  BY DriftParts, RowsAreFinite DEF ChainRows

LEMMA WebhooksNext ==
    ASSUME "status" \notin EditorFields, DriftInv, DriftInv', WebhooksMatchMoves,
           [Next]_vars
    PROVE  WebhooksMatchMoves'
<1>1. IsFiniteSet(transitions')
  <2>1. (DriftInv => IsFiniteSet(transitions))'
    BY LogFinite, PTL
  <2> QED BY <2>1
<1>2. ASSUME NEW d \in Subjects, NEW s \in Announced
      PROVE  Sent(webhooks', op', d, s) <= Logged(transitions', d, s)
  <2>1. Sent(webhooks, op, d, s) <= Logged(transitions, d, s)
    BY WebhooksCounted
  <2>2. /\ Logged(transitions, d, s) \in Nat /\ Logged(transitions', d, s) \in Nat
        /\ Logged(transitions, d, s) <= Logged(transitions', d, s)
    BY <1>1, HeadsGrow, LoggedGrows
  <2>3. webhooks[d][s] \in Nat /\ webhooks'[d][s] \in Nat
    BY DEF DriftInv, DealInv, TypeOK
  <2>4. Sent(webhooks, op, d, s) \in Nat /\ Sent(webhooks', op', d, s) \in Nat
    BY <2>3, SendingFinite DEF Sent
  <2>5. CASE \E tx \in Txs : CommitMove(tx)
    BY <1>1, <2>1, <2>5, CommitMoveSends
  <2>6. CASE \E tx \in Txs : Announce(tx)
    <3>1. Sent(webhooks', op', d, s) <= Sent(webhooks, op, d, s)
      BY <2>6, AnnounceSends
    <3> QED BY <2>1, <2>2, <2>4, <3>1
  <2>7. CASE /\ webhooks' = webhooks
             /\ \A t \in Txs : op'[t].pc = "announcing" => op'[t] = op[t]
    <3>1. Sent(webhooks', op', d, s) <= Sent(webhooks, op, d, s)
      BY <2>7, DriftParts, SendsKept
    <3> QED BY <2>1, <2>2, <2>4, <3>1
  <2>8. ASSUME NEW tx \in Txs, StartSeed(tx) \/ ReadBatch(tx) \/ SeedDeal(tx) \/ CommitBatch(tx)
        PROVE  webhooks' = webhooks /\ op'[tx].pc # "announcing"
    <3>1. CASE StartSeed(tx)
      <4>1. [NoOp EXCEPT !.pc = "reading"].pc = "reading"
        BY NoOpTyped DEF Op
      <4> QED BY <3>1, <4>1, DriftParts DEF StartSeed, Begin
    <3>2. CASE ReadBatch(tx)
      <4>1. CASE op' = [op EXCEPT ![tx] = NoOp]
        BY <3>2, <4>1, DriftParts, NoOpTyped DEF ReadBatch
      <4>2. ASSUME NEW batch, NEW last,
                   op' = [op EXCEPT ![tx].pc = "seeding", ![tx].batch = batch,
                                    ![tx].last = last]
            PROVE  op'[tx].pc = "seeding"
        BY <4>2, DriftParts DEF Op
      <4> QED BY <3>2, <4>1, <4>2 DEF ReadBatch
    <3>3. CASE SeedDeal(tx) \/ CommitBatch(tx)
      BY <3>3, DriftParts DEF SeedDeal, CommitBatch, Op
    <3> QED BY <2>8, <3>1, <3>2, <3>3
  <2> QED BY <2>5, <2>6, <2>7, <2>8, ScanSteps
<1>3. WebhooksMatchMoves' <=>
        \A d \in Subjects, s \in Announced :
          Sent(webhooks', op', d, s) <= Logged(transitions', d, s)
  BY DEF WebhooksMatchMoves, Sent, Sending, Logged, Moves, RowsOf
<1> QED BY <1>2, <1>3

LEMMA WebhooksInit == Init => WebhooksMatchMoves
<1> SUFFICES ASSUME Init PROVE WebhooksMatchMoves
  OBVIOUS
<1>1. /\ transitions = {}
      /\ op = [tx \in Txs |-> NoOp]
      /\ webhooks = [d \in Subjects |-> [s \in Announced |-> 0]]
  BY DEF Init, LogInit
<1>2. Cardinality({}) = 0
  BY FS_EmptySet
<1>3. ASSUME NEW d \in Subjects, NEW s \in Announced
      PROVE  Sent(webhooks, op, d, s) <= Logged(transitions, d, s)
  <2>1. Sending(op, d, s) = {}
    BY <1>1, NoOpTyped DEF Sending
  <2>2. Moves(transitions, d, s) = {}
    BY <1>1 DEF Moves, RowsOf
  <2>3. webhooks[d][s] = 0
    BY <1>1
  <2> QED BY <1>2, <2>1, <2>2, <2>3 DEF Sent, Logged
<1> QED BY <1>3, WebhooksCounted

\* A webhook is sent only for a logged move: those sent and those about to be
\* never outnumber the rows the moves into that status have added to the log. A
\* repeated PATCH adds none and announces nothing.
THEOREM WebhooksHaveMoves ==
    ASSUME "status" \notin EditorFields
    PROVE  Spec => []WebhooksMatchMoves
<1>1. DriftInv /\ DriftInv' /\ WebhooksMatchMoves /\ [Next]_vars => WebhooksMatchMoves'
  BY WebhooksNext
<1> QED BY WebhooksInit, <1>1, DriftInvariant, PTL DEF Spec

-----------------------------------------------------------------------------
(***************************************************************************)
(* The refinement of DealLedger: the commit of a move changes one deal's   *)
(* status and appends it to the deal's history, the commit of a save       *)
(* starts a history, the commit of a backfill batch catches histories up,  *)
(* and no other step is seen in either.                                    *)
(*                                                                         *)
(* The invariant that makes a commit legible (LedgerInv) says what rows a  *)
(* transaction can have inserted by then: the move's own, once, with a     *)
(* repair head before it exactly if the deal had no history.               *)
(***************************************************************************)

\* Only the two callers of record_transition have anything to explain.
LEMMA NothingToExplain ==
    ASSUME NEW o, o.pc \notin Recording, NEW c, NEW mine
    PROVE  Explained(o, c, mine)
  BY DEF Recording, Explained, CallExplained, RowsExplained, RowExplained

LEMMA RecordMoveExplained ==
    ASSUME LedgerInv, NEW tx \in Txs, RecordMove(tx)
    PROVE  Explained(op'[tx], call'[tx], pending'[tx])
<1> DEFINE d == op[tx].deal
<1>1. DriftInv
  BY DEF LedgerInv
<1>2. /\ op[tx].pc = "flushed" /\ op[tx] \in Op
      /\ op' = [op EXCEPT ![tx].pc = "logging"]
  BY <1>1, DriftParts DEF RecordMove
<1>3. op'[tx].pc = "logging" /\ op'[tx].previous = op[tx].previous
  BY <1>1, <1>2, DriftParts DEF Op
<1>4. pending[tx] = {} /\ call[tx].pc = "idle"
  BY <1>1, <1>2, DriftParts, NothingPending DEF Recording
<1>5. pending'[tx] = {}
  BY <1>4 DEF RecordMove, RecordTransition, logVars
<1>6. CallExplained(op'[tx], call'[tx])
  <2>1. CASE op[tx].previous = op[tx].target
    BY <1>4, <2>1 DEF RecordMove, logVars, CallExplained, Calling
  <2>2. CASE op[tx].previous # op[tx].target
    <3>1. RecordTransition(tx, d, op[tx].previous, op[tx].target, "api",
                           op[tx].user, op[tx].row.status)
      BY <2>2 DEF RecordMove
    <3>2. d \in created /\ op[tx].previous = deals[d].status
      BY <1>1, <1>2, DriftParts
         DEF DealSide, OpsPlaced, OpPlaced, RowsCurrent, RowCurrent, Holding
    <3>3. \A r \in Tails(Visible(tx), d) : r.to = op[tx].previous
      BY <1>1, <1>4, <3>2 DEF Visible, DriftInv, NoDrift
    <3>4. PICK c : /\ call' = [call EXCEPT ![tx] = c]
                   /\ c.expected = op[tx].previous
                   /\ c.pc = "repair" => c.logged = None
      BY <1>1, <3>1, <3>3, RecordCall
    <3>5. call'[tx] = c
      BY <1>1, <3>4, DriftParts
    <3> QED BY <1>3, <3>4, <3>5 DEF CallExplained
  <2> QED BY <2>1, <2>2
<1> QED BY <1>5, <1>6 DEF Explained, RowsExplained

LEMMA RecordCreatedExplained ==
    ASSUME LedgerInv, NEW tx \in Txs, RecordCreated(tx)
    PROVE  Explained(op'[tx], call'[tx], pending'[tx])
<1>1. DriftInv
  BY DEF LedgerInv
<1>2. /\ op[tx].pc = "inserted" /\ op[tx] \in Op
      /\ op' = [op EXCEPT ![tx].pc = "heading"]
  BY <1>1, DriftParts DEF RecordCreated
<1>3. op'[tx].pc = "heading"
  BY <1>1, <1>2, DriftParts DEF Op
<1>4. pending[tx] = {}
  BY <1>1, <1>2, DriftParts, NothingPending DEF Recording
<1>5. pending'[tx] = {}
  BY <1>4 DEF RecordCreated, RecordTransition, logVars
<1> QED BY <1>3, <1>5 DEF Explained, CallExplained, RowsExplained

\* While a call is in progress its own row is still to come.
LEMMA InsertExplained ==
    ASSUME LedgerInv, NEW tx \in Txs, NEW r, NEW done, InsertTransition(tx, r, done),
           call[tx].pc # "idle",
           CallExplained(op[tx], done), RowExplained(op[tx], done, r)
    PROVE  Explained(op[tx], call'[tx], pending'[tx])
<1>1. /\ Explained(op[tx], call[tx], pending[tx])
      /\ call \in [Txs -> Call] /\ pending \in [Txs -> SUBSET Row]
  BY DriftParts DEF LedgerInv, LogExplained
<1>2. ASSUME NEW c
      PROVE  /\ \A q \in pending[tx] : RowExplained(op[tx], c, q)
             /\ \A q \in pending[tx] :
                  op[tx].pc = "logging" => q.source # "api"
  <2>1. ASSUME NEW q \in pending[tx]
        PROVE  RowExplained(op[tx], c, q) /\ (op[tx].pc = "logging" => q.source # "api")
    <3>1. RowExplained(op[tx], call[tx], q)
      BY <1>1 DEF Explained, RowsExplained
    <3> QED BY <3>1 DEF RowExplained
  <2> QED BY <2>1
<1>3. ASSUME NEW pc \in {"conflict", "rejected"},
             call' = [call EXCEPT ![tx].pc = pc], UNCHANGED pending
      PROVE  Explained(op[tx], call'[tx], pending'[tx])
  <2>1. call'[tx].pc = pc
    BY <1>1, <1>3 DEF Call
  <2>2. CallExplained(op[tx], call'[tx])
    BY <2>1 DEF CallExplained, Calling
  <2> QED BY <1>2, <1>3, <2>2 DEF Explained, RowsExplained
<1>4. CASE /\ pending' = [pending EXCEPT ![tx] = @ \cup {r}]
           /\ call' = [call EXCEPT ![tx] = done]
  <2>1. call'[tx] = done /\ pending'[tx] = pending[tx] \cup {r}
    BY <1>1, <1>4
  <2> QED BY <1>2, <2>1 DEF Explained, RowsExplained
<1> QED BY <1>3, <1>4 DEF InsertTransition

LEMMA StepLogExplained ==
    ASSUME LedgerInv, NEW tx \in Txs, StepLog(tx)
    PROVE  Explained(op'[tx], call'[tx], pending'[tx])
<1> DEFINE c == call[tx]
           o == op[tx]
<1>1. DriftInv /\ op' = op /\ ContinueRecord(tx)
  BY DEF LedgerInv, StepLog, dealVars
<1>2. /\ CallKnown(o, c) /\ CallOwned(o, c) /\ c \in Call
      /\ CallLinked(c, Visible(tx)) /\ Explained(o, c, pending[tx])
  BY <1>1, DriftParts
     DEF DriftInv, CallsKnown, LogSide, CallsOwned, LogInv, CallsLinked, LedgerInv, LogExplained
<1>3. CASE RepairDrift(tx)
  <2> DEFINE r == [id |-> nextId, subject |-> c.subject, prev |-> c.tail,
                   from |-> c.logged, to |-> c.expected, source |-> "system",
                   actor |-> None, snapshot |-> None]
             done == [c EXCEPT !.pc = AfterLink(c.snapshot), !.tail = nextId,
                               !.logged = c.expected]
  <2>1. c.pc = "repair" /\ InsertTransition(tx, r, done)
    BY <1>3 DEF RepairDrift
  <2>2. o.pc = "logging"
    BY <1>2, <2>1 DEF CallKnown, CallOwned, CallLinked, Recording
  <2>3. c.logged = None /\ c.expected = o.previous
    BY <1>2, <2>1, <2>2 DEF Explained, CallExplained, Calling
  <2>4. /\ r.source = "system" /\ r.from = c.logged /\ r.to = c.expected
        /\ done.expected = c.expected /\ done.pc # "repair"
    BY <1>2 DEF Call, AfterLink
  <2> HIDE DEF r, done
  <2>5. RowExplained(o, done, r) /\ CallExplained(o, done)
    BY <2>2, <2>3, <2>4 DEF RowExplained, CallExplained
  <2> QED BY <1>1, <2>1, <2>5, InsertExplained
<1>4. CASE AppendTransition(tx)
  <2> DEFINE r == [id |-> nextId, subject |-> c.subject, prev |-> c.tail,
                   from |-> c.expected, to |-> c.to, source |-> c.source,
                   actor |-> c.actor, snapshot |-> c.snapshot]
  <2>1. c.pc = "append" /\ InsertTransition(tx, r, NoCall)
    BY <1>4 DEF AppendTransition
  <2>2. r.source = c.source /\ r.from = c.expected /\ r.to = c.to
    OBVIOUS
  <2> HIDE DEF r
  <2>3. o.pc = "logging" => c.expected = o.previous /\ c.source = "api" /\ c.to = o.target
    <3> SUFFICES ASSUME o.pc = "logging"
                 PROVE  c.expected = o.previous /\ c.source = "api" /\ c.to = o.target
      OBVIOUS
    <3>1. /\ RowCurrent(o, deals[o.deal]) /\ o.deal \in Subjects
          /\ o.user \in Actors /\ o.target \in Statuses
      BY <1>1, DriftParts DEF DealSide, OpsPlaced, OpPlaced, RowsCurrent, Holding
    <3>2. o.row = Moved(deals[o.deal], o.user, o.target) /\ deals[o.deal] \in Deal
      BY <1>1, <3>1, DriftParts DEF RowCurrent, Holding
    <3>3. c.to = o.target
      BY <1>2, <2>1, <3>1, <3>2, MovedTyped DEF CallOwned
    <3> QED BY <1>2, <2>1, <3>3 DEF CallKnown, Explained, CallExplained, Calling
  <2>4. o.pc = "heading" => c.expected = None
    BY <1>2, <2>1 DEF CallKnown
  <2>5. RowExplained(o, NoCall, r) /\ CallExplained(o, NoCall)
    BY <2>2, <2>3, <2>4 DEF RowExplained, CallExplained, Calling, NoCall
  <2> QED BY <1>1, <2>1, <2>5, InsertExplained
<1>5. CASE UpsertSnapshot(tx)
  <2>1. /\ c.pc = "snapshot" /\ call' = [call EXCEPT ![tx].pc = "append"]
        /\ pending' = pending
    BY <1>5 DEF UpsertSnapshot
  <2>2. call'[tx].pc = "append" /\ call'[tx].expected = c.expected
    BY <1>1, <1>2, <2>1, DriftParts DEF Call
  <2>3. CallExplained(o, call'[tx])
    BY <1>2, <2>1, <2>2 DEF Explained, CallExplained, Calling
  <2>4. RowsExplained(o, call'[tx], pending[tx])
    BY <1>2, <2>1 DEF Explained, RowsExplained, RowExplained
  <2> QED BY <1>1, <2>1, <2>3, <2>4 DEF Explained
<1> QED BY <1>1, <1>3, <1>4, <1>5 DEF ContinueRecord

LEMMA LedgerNext ==
    ASSUME "status" \notin EditorFields, LedgerInv, [Next]_vars
    PROVE  LedgerInv'
<1>1. DriftInv /\ DriftInv'
  BY DriftNextInv DEF LedgerInv
<1>2. LogExplained'
  <2>1. CASE UNCHANGED <<op, call, pending, transitions, seeded, webhooks>>
    BY <2>1 DEF LedgerInv, LogExplained
  <2>2. ASSUME NEW tx \in Txs,
               \A t \in Txs : t # tx =>
                 op'[t] = op[t] /\ call'[t] = call[t] /\ pending'[t] = pending[t],
               \/ op'[tx].pc \notin Recording
               \/ RecordMove(tx) \/ RecordCreated(tx) \/ StepLog(tx)
        PROVE  LogExplained'
    <3>1. Explained(op'[tx], call'[tx], pending'[tx])
      BY <2>2, NothingToExplain, RecordMoveExplained, RecordCreatedExplained, StepLogExplained
    <3> QED BY <2>2, <3>1 DEF LedgerInv, LogExplained
  <2> QED BY <1>1, <2>1, <2>2, ScanSteps
<1>3. UnsavedBlank'
  <2>1. CASE /\ UNCHANGED <<transitions, created, removed>>
             /\ \A d \in Subjects : deals'[d].status = deals[d].status
    BY <2>1 DEF LedgerInv, UnsavedBlank
  <2>2. ASSUME NEW tx \in Txs, CommitMove(tx) PROVE UnsavedBlank'
    <3>1. created' = created
      BY <2>2 DEF CommitMove
    <3> QED BY <1>1, <2>2, <3>1, CommitMoveShows DEF LedgerInv, UnsavedBlank
  <2>3. ASSUME NEW tx \in Txs, CommitCreate(tx) PROVE UnsavedBlank'
    <3>1. /\ created' = created \cup {op[tx].deal}
          /\ \A d \in Subjects : d # op[tx].deal => deals'[d] = deals[d]
      BY <1>1, <2>3, DriftParts DEF CommitCreate
    <3> QED BY <3>1 DEF LedgerInv, UnsavedBlank
  <2>4. ASSUME NEW tx \in Txs, CommitBatch(tx) PROVE UnsavedBlank'
    BY <2>4 DEF CommitBatch, LedgerInv, UnsavedBlank
  <2> QED BY <1>1, <2>1, <2>2, <2>3, <2>4, VisibleSteps
<1> QED BY <1>1, <1>2, <1>3 DEF LedgerInv

LEMMA LedgerInit == Init => LedgerInv
<1> SUFFICES ASSUME Init PROVE LedgerInv
  OBVIOUS
<1>1. DriftInv
  BY DriftInitInv
<1>2. LogExplained
  <2>1. \A tx \in Txs : op[tx].pc = "idle"
    BY NoOpTyped DEF Init
  <2> QED BY <2>1, NothingToExplain DEF LogExplained, Recording
<1>3. UnsavedBlank
  BY DEF Init, UnsavedBlank, BlankDeal
<1> QED BY <1>1, <1>2, <1>3 DEF LedgerInv

\* The inductive invariant of deals and log together: as long as no generic PATCH carries
\* a status, every behaviour keeps deal and log in agreement, an open request adds to the
\* log only what its own change accounts for, and an unsaved deal has no status.
THEOREM LedgerInvariant ==
    ASSUME "status" \notin EditorFields
    PROVE  Spec => []LedgerInv
<1>1. LedgerInv /\ [Next]_vars => LedgerInv'
  BY LedgerNext
<1> QED BY LedgerInit, <1>1, PTL DEF Spec

-----------------------------------------------------------------------------
(***************************************************************************)
(* What a commit adds to a history.                                        *)
(***************************************************************************)

\* A row with a higher id than those there are is read last.
LEMMA AppendOne ==
    ASSUME NEW rows, NEW r \in Row, rows \subseteq Row, Ordered(rows), r \notin rows,
           \A q \in rows : q.id < r.id
    PROVE  /\ Ordered(rows \cup {r})
           /\ StatusesOf(rows \cup {r}) = Append(StatusesOf(rows), r.to)
<1> DEFINE more == rows \cup {r}
           n == Cardinality(rows)
<1>1. Ordered(more)
  <2>1. IsFiniteSet(more)
    BY FS_AddElement DEF Ordered
  <2>2. \A q \in more : q.id \in Nat
    BY RowFields
  <2>3. \A p, q \in more : p.id = q.id => p = q
    BY <2>2 DEF Ordered
  <2> QED BY <2>1, <2>2, <2>3 DEF Ordered
<1>2. n \in Nat /\ Cardinality(more) = n + 1
  BY PlaceInRange, FS_AddElement DEF Ordered
<1>3. \A i \in 1 .. n : InOrder(more)[i] = InOrder(rows)[i]
  BY <1>1, InOrderGrows
<1>4. InOrder(more)[n + 1] = r
  <2>1. ~(r.id < r.id) /\ \A q \in more : q.id < r.id => q \in rows
    BY RowFields
  <2>2. {q \in more : q.id < r.id} = rows
    BY <2>1
  <2>3. Place(more, r) = n + 1
    BY <2>2 DEF Place
  <2> QED BY <1>1, <2>3, InOrderRows
<1>5. /\ StatusesOf(rows) \in Seq(Statuses) /\ Len(StatusesOf(rows)) = n
      /\ \A i \in 1 .. n : StatusesOf(rows)[i] = InOrder(rows)[i].to
  BY HistoryRows
<1>6. /\ StatusesOf(more) \in Seq(Statuses) /\ Len(StatusesOf(more)) = n + 1
      /\ \A i \in 1 .. n + 1 : StatusesOf(more)[i] = InOrder(more)[i].to
  <2>1. more \subseteq Row
    OBVIOUS
  <2> QED BY <1>1, <1>2, <2>1, HistoryRows
<1>7. /\ Append(StatusesOf(rows), r.to) \in Seq(Statuses)
      /\ Len(Append(StatusesOf(rows), r.to)) = n + 1
      /\ \A i \in 1 .. n : Append(StatusesOf(rows), r.to)[i] = StatusesOf(rows)[i]
      /\ Append(StatusesOf(rows), r.to)[n + 1] = r.to
  BY <1>2, <1>5, RowFields, AppendProperties
<1> HIDE DEF more, n
<1>8. \A i \in 1 .. n + 1 : StatusesOf(more)[i] = Append(StatusesOf(rows), r.to)[i]
  <2> SUFFICES ASSUME NEW i \in 1 .. n + 1
               PROVE  StatusesOf(more)[i] = Append(StatusesOf(rows), r.to)[i]
    OBVIOUS
  <2>1. CASE i = n + 1
    BY <1>4, <1>6, <1>7, <2>1
  <2>2. CASE i \in 1 .. n
    <3>1. StatusesOf(more)[i] = InOrder(more)[i].to
      BY <1>6
    <3>2. InOrder(more)[i] = InOrder(rows)[i] /\ StatusesOf(rows)[i] = InOrder(rows)[i].to
      BY <1>3, <1>5, <2>2
    <3>3. Append(StatusesOf(rows), r.to)[i] = StatusesOf(rows)[i]
      BY <1>7, <2>2
    <3> QED BY <3>1, <3>2, <3>3
  <2>3. n \in Nat => i = n + 1 \/ i \in 1 .. n
    OBVIOUS
  <2> QED BY <1>2, <2>1, <2>2, <2>3
<1>9. StatusesOf(more) = Append(StatusesOf(rows), r.to)
  BY <1>2, <1>6, <1>7, <1>8, SeqEqual
<1> QED BY <1>1, <1>9 DEF more

LEMMA NoHistory == Ordered({}) /\ StatusesOf({}) = <<>>
<1>1. Ordered({}) /\ Cardinality({}) = 0
  BY FS_EmptySet DEF Ordered
<1>2. StatusesOf({}) \in Seq(Statuses) /\ Len(StatusesOf({})) = 0
  BY <1>1, HistoryRows
<1> QED BY <1>1, <1>2

\* The rows of a subject, before a commit and after it.
LEMMA CommittedRows ==
    ASSUME LogInv, NEW tx \in Txs, CommitLog(tx), NEW s \in Subjects
    PROVE  /\ RowsOf(transitions', s) = RowsOf(transitions, s) \cup RowsOf(pending[tx], s)
           /\ RowsOf(transitions, s) \subseteq Row /\ RowsOf(pending[tx], s) \subseteq Row
           /\ Ordered(RowsOf(transitions, s))
           /\ \A q \in RowsOf(transitions, s), r \in RowsOf(pending[tx], s) : q.id < r.id
<1>1. RowsTyped /\ ChainRows /\ transitions' = transitions \cup pending[tx]
  BY LogInvRows DEF CommitLog
<1>2. RowsOf(transitions', s) = RowsOf(transitions, s) \cup RowsOf(pending[tx], s)
  BY <1>1 DEF RowsOf
<1>3. RowsOf(transitions, s) \subseteq Row /\ RowsOf(pending[tx], s) \subseteq Row
  BY <1>1 DEF RowsTyped, RowsOf
<1>4. \A q \in RowsOf(transitions, s), r \in RowsOf(pending[tx], s) : q.id < r.id
  BY <1>1 DEF ChainRows, OneWriter, RowsOf
<1> QED BY <1>2, <1>3, <1>4, LogOrdered DEF ChainsOrdered

LEMMA CommitNone ==
    ASSUME LogInv, NEW tx \in Txs, CommitLog(tx), NEW s \in Subjects,
           RowsOf(pending[tx], s) = {}
    PROVE  StatusesOf(RowsOf(transitions', s)) = HistoryOf(s)
  BY CommittedRows DEF HistoryOf

LEMMA CommitOne ==
    ASSUME LogInv, NEW tx \in Txs, CommitLog(tx), NEW s \in Subjects,
           NEW r, RowsOf(pending[tx], s) = {r}
    PROVE  StatusesOf(RowsOf(transitions', s)) = Append(HistoryOf(s), r.to)
<1>1. r \in Row /\ \A q \in RowsOf(transitions, s) : q.id < r.id
  BY CommittedRows
<1>2. r \notin RowsOf(transitions, s)
  BY <1>1, RowFields
<1>3. RowsOf(transitions', s) = RowsOf(transitions, s) \cup {r}
  BY CommittedRows
<1> QED BY <1>1, <1>2, <1>3, CommittedRows, AppendOne DEF HistoryOf

LEMMA CommitTwo ==
    ASSUME LogInv, NEW tx \in Txs, CommitLog(tx), NEW s \in Subjects,
           NEW h, NEW r, RowsOf(pending[tx], s) = {h, r}, h.id < r.id,
           RowsOf(transitions, s) = {}
    PROVE  /\ HistoryOf(s) = <<>>
           /\ StatusesOf(RowsOf(transitions', s)) = Append(<<h.to>>, r.to)
<1>1. h \in Row /\ r \in Row /\ r \notin {h}
  <2>1. h \in Row /\ r \in Row
    BY CommittedRows
  <2> QED BY <2>1, RowFields
<1>2. HistoryOf(s) = <<>>
  BY NoHistory DEF HistoryOf
<1>3. Ordered({h}) /\ StatusesOf({h}) = <<h.to>>
  <2>1. Ordered({} \cup {h}) /\ StatusesOf({} \cup {h}) = Append(StatusesOf({}), h.to)
    BY <1>1, NoHistory, AppendOne
  <2>2. {} \cup {h} = {h} /\ Append(<<>>, h.to) = <<h.to>>
    OBVIOUS
  <2> QED BY <2>1, <2>2, NoHistory
<1>4. StatusesOf({h} \cup {r}) = Append(<<h.to>>, r.to)
  BY <1>1, <1>3, AppendOne
<1>5. RowsOf(transitions', s) = {h} \cup {r}
  BY CommittedRows
<1> QED BY <1>2, <1>4, <1>5

\* A head is only inserted where nothing is committed.
LEMMA HeadStarts ==
    ASSUME LogInv, NEW tx \in Txs, NEW h \in pending[tx], h.prev = NoRow
    PROVE  RowsOf(transitions, h.subject) = {}
<1>1. RowsTyped /\ ChainRows
  BY LogInvRows
<1> SUFFICES ASSUME NEW q \in transitions, q.subject = h.subject PROVE FALSE
  BY DEF RowsOf
<1>2. PICK g \in transitions : g.subject = h.subject /\ g.prev = NoRow
  BY <1>1 DEF ChainRows, RowsHeaded, Heads, RowsOf
<1>3. g = h
  BY <1>1, <1>2, AllRowsSplit DEF ChainRows, KeysUnique, SameKey
<1>4. g.id < h.id
  BY <1>1, <1>2 DEF ChainRows, OneWriter
<1>5. h \in Row
  BY <1>1 DEF RowsTyped
<1> QED BY <1>3, <1>4, <1>5, RowFields

\* Two uncommitted heads of a subject are one.
LEMMA HeadAlone ==
    ASSUME LogInv, NEW tx \in Txs, NEW h \in pending[tx], NEW g \in pending[tx],
           h.prev = NoRow, g.prev = NoRow, h.subject = g.subject
    PROVE  h = g
  BY LogInvRows, AllRowsSplit DEF ChainRows, KeysUnique, SameKey

-----------------------------------------------------------------------------
(***************************************************************************)
(* The steps of the ledger.                                                *)
(***************************************************************************)

\* What the commit of a change has to show.
LEMMA ChangeShown ==
    ASSUME NEW d \in Subjects, NEW s \in Statuses, s # deals[d].status,
           \A e \in Subjects : deals'[e].status = IF e = d THEN s ELSE deals[e].status,
           \A e \in Subjects : e # d =>
             StatusesOf(RowsOf(transitions', e)) = HistoryOf(e),
           NEW caught, StatusesOf(RowsOf(transitions', d)) = Append(caught, s),
           caught = IF HistoryOf(d) = <<>> /\ deals[d].status # None
                    THEN <<deals[d].status>> ELSE HistoryOf(d)
    PROVE  Ledger!Next
<1>1. [e \in Subjects |-> deals'[e].status]
        = [[e \in Subjects |-> deals[e].status] EXCEPT ![d] = s]
  OBVIOUS
<1>2. [e \in Subjects |-> StatusesOf(RowsOf(transitions', e))]
        = [[e \in Subjects |-> HistoryOf(e)] EXCEPT ![d] = Append(caught, s)]
  OBVIOUS
<1>3. Ledger!Caught(d) = caught
  BY DEF Ledger!Caught
<1>4. Ledger!Change(d, s)
  BY <1>1, <1>2, <1>3 DEF Ledger!Change, HistoryOf
<1> QED BY <1>4 DEF Ledger!Next

LEMMA HistoryNotEmpty ==
    ASSUME LogInv, NEW r \in transitions
    PROVE  r.subject \in Subjects /\ HistoryOf(r.subject) # <<>>
<1> DEFINE rows == RowsOf(transitions, r.subject)
<1>1. r.subject \in Subjects /\ rows \subseteq Row /\ r \in rows
  BY LogInvRows, RowFields DEF RowsTyped, RowsOf
<1>2. Ordered(rows)
  BY <1>1, LogOrdered DEF ChainsOrdered
<1>3. Place(rows, r) \in 1 .. Cardinality(rows) /\ Cardinality(rows) \in Nat
  BY <1>1, <1>2, PlaceInRange
<1>4. Len(StatusesOf(rows)) = Cardinality(rows)
  BY <1>1, <1>2, HistoryRows
<1> HIDE DEF rows
<1>5. StatusesOf(rows) # <<>>
  BY <1>3, <1>4
<1> QED BY <1>1, <1>5 DEF HistoryOf, rows

LEMMA CommitMoveLedger ==
    ASSUME LedgerInv, NEW tx \in Txs, CommitMove(tx)
    PROVE  \/ Ledger!Next
           \/ \A e \in Subjects : /\ deals'[e].status = deals[e].status
                                  /\ StatusesOf(RowsOf(transitions', e)) = HistoryOf(e)
<1> DEFINE d == op[tx].deal
           s == op[tx].target
           before == op[tx].previous
<1>1. /\ DriftInv /\ LogInv /\ RowsTyped /\ ChainRows /\ TypeOK
      /\ op[tx].pc = "logging" /\ call[tx].pc = "idle" /\ CommitLog(tx)
  BY DriftParts DEF LedgerInv, CommitMove, CommitLog
<1>2. /\ d \in Subjects /\ s \in Statuses /\ before = deals[d].status
      /\ \A e \in Subjects : deals'[e].status = IF e = d THEN s ELSE deals[e].status
      /\ \A r \in pending[tx] : r.subject = d
  BY <1>1, CommitMoveShows
<1>3. \A e \in Subjects : e # d => StatusesOf(RowsOf(transitions', e)) = HistoryOf(e)
  <2> SUFFICES ASSUME NEW e \in Subjects, e # d
               PROVE  StatusesOf(RowsOf(transitions', e)) = HistoryOf(e)
    OBVIOUS
  <2>1. RowsOf(pending[tx], e) = {}
    BY <1>2 DEF RowsOf
  <2> QED BY <1>1, <2>1, CommitNone
<1>4. RowsOf(pending[tx], d) = pending[tx]
  BY <1>2 DEF RowsOf
<1> HIDE DEF d
<1>5. CASE before = s
  <2>1. pending[tx] = {}
    BY <1>1, <1>5 DEF DriftInv, RowsKnown, RowKnown
  <2>2. StatusesOf(RowsOf(transitions', d)) = HistoryOf(d)
    BY <1>1, <1>2, <1>4, <2>1, CommitNone
  <2> QED BY <1>2, <1>3, <1>5, <2>2
<1>6. CASE before # s
  <2>1. PICK r \in pending[tx] : r.source = "api" /\ r.to = s
    BY <1>1, <1>6 DEF DriftInv, OutcomesKnown, OutcomeKnown
  <2>2. /\ \A q \in pending[tx] : RowExplained(op[tx], call[tx], q)
        /\ \A q \in pending[tx] : q.source = "api" => q = r
    BY <1>1, <2>1 DEF LedgerInv, LogExplained, Explained, RowsExplained
  <2>3. \A q \in pending[tx] :
          \/ q = r
          \/ q.source = "system" /\ q.from = None /\ q.to = before
    BY <1>1, <2>2 DEF RowExplained
  <2>4. r.from = before
    BY <1>1, <2>1, <2>2 DEF RowExplained
  <2>5. \A q \in pending[tx] : LinkedIn(q, Visible(tx)) /\ q \in Row /\ q.subject = d
    BY <1>1, <1>2 DEF ChainRows, RowsLinked, RowsTyped
  \* The row the move's row follows, if the deal had a status.
  <2>6. before # None =>
          \E p \in Visible(tx) : p.id < r.id /\ p.subject = d /\ p # r
    <3> SUFFICES ASSUME before # None
                 PROVE  \E p \in Visible(tx) : p.id < r.id /\ p.subject = d /\ p # r
      OBVIOUS
    <3>1. PICK p \in Visible(tx) : p.id < r.id /\ p.subject = r.subject
      BY <2>4, <2>5 DEF LinkedIn
    <3>2. r.id \in Nat /\ r.subject = d
      BY <2>5, RowFields
    <3>3. p # r
      BY <3>1, <3>2
    <3> QED BY <3>1, <3>2, <3>3
  <2>7. CASE \E h \in pending[tx] : h # r
    <3>1. PICK h \in pending[tx] : h # r
      BY <2>7
    <3>2. h.prev = NoRow /\ h.to = before /\ before \in Statuses /\ before # None
      BY <2>3, <2>5, <3>1, RowFields DEF LinkedIn
    <3>3. RowsOf(transitions, d) = {}
      BY <1>1, <2>5, <3>1, <3>2, HeadStarts
    <3>4. \A q \in pending[tx] : q = r \/ q = h
      <4> SUFFICES ASSUME NEW q \in pending[tx], q # r PROVE q = h
        OBVIOUS
      <4>1. q.prev = NoRow /\ q.subject = h.subject
        BY <2>3, <2>5, <3>1 DEF LinkedIn
      <4> QED BY <1>1, <3>1, <3>2, <4>1, HeadAlone
    <3>5. RowsOf(pending[tx], d) = {h, r}
      BY <1>4, <2>1, <3>1, <3>4
    <3>6. h.id < r.id
      <4>1. PICK p \in Visible(tx) : p.id < r.id /\ p.subject = d /\ p # r
        BY <2>6, <3>2
      <4>2. p \in pending[tx]
        BY <3>3, <4>1 DEF Visible, RowsOf
      <4> QED BY <3>4, <4>1, <4>2
    <3>7. HistoryOf(d) = <<>> /\ StatusesOf(RowsOf(transitions', d)) = Append(<<h.to>>, r.to)
      BY <1>1, <1>2, <3>3, <3>5, <3>6, CommitTwo
    <3>8. StatusesOf(RowsOf(transitions', d)) = Append(<<before>>, s)
      BY <2>1, <3>2, <3>7
    <3>9. <<before>> = IF HistoryOf(d) = <<>> /\ deals[d].status # None
                       THEN <<deals[d].status>> ELSE HistoryOf(d)
      BY <1>2, <3>2, <3>7
    <3>10. s # deals[d].status
      BY <1>2, <1>6
    <3> HIDE DEF s, before
    <3> QED BY <1>2, <1>3, <3>8, <3>9, <3>10, ChangeShown
  <2>8. CASE \A h \in pending[tx] : h = r
    <3>1. RowsOf(pending[tx], d) = {r}
      BY <1>4, <2>1, <2>8
    <3>2. StatusesOf(RowsOf(transitions', d)) = Append(HistoryOf(d), s)
      BY <1>1, <1>2, <2>1, <3>1, CommitOne
    <3>3. before # None => HistoryOf(d) # <<>>
      <4> SUFFICES ASSUME before # None PROVE HistoryOf(d) # <<>>
        OBVIOUS
      <4>1. PICK p \in Visible(tx) : p.subject = d /\ p # r
        BY <2>6
      <4>2. p \in transitions
        BY <2>8, <4>1 DEF Visible
      <4> QED BY <1>1, <4>1, <4>2, HistoryNotEmpty
    <3>4. HistoryOf(d) = IF HistoryOf(d) = <<>> /\ deals[d].status # None
                         THEN <<deals[d].status>> ELSE HistoryOf(d)
      BY <1>2, <3>3
    <3>5. s # deals[d].status
      BY <1>2, <1>6
    <3> HIDE DEF s, before
    <3> QED BY <1>2, <1>3, <3>2, <3>4, <3>5, ChangeShown
  <2> QED BY <2>7, <2>8
<1> QED BY <1>5, <1>6

LEMMA CommitCreateLedger ==
    ASSUME LedgerInv, NEW tx \in Txs, CommitCreate(tx)
    PROVE  \/ Ledger!Next
           \/ \A e \in Subjects : /\ deals'[e].status = deals[e].status
                                  /\ StatusesOf(RowsOf(transitions', e)) = HistoryOf(e)
<1> DEFINE d == op[tx].deal
           s == op[tx].row.status
<1>1. /\ DriftInv /\ LogInv /\ RowsTyped /\ ChainRows /\ TypeOK
      /\ op[tx].pc = "heading" /\ call[tx].pc = "idle" /\ CommitLog(tx)
      /\ deals' = [deals EXCEPT ![d] = op[tx].row]
  BY DriftParts DEF LedgerInv, CommitCreate, CommitLog
<1>2. d \in Subjects \ created /\ s \in Statuses \cup {None}
  BY <1>1, DriftParts, OpTyped DEF DealSide, OpsPlaced, OpPlaced, Inserting
<1>3. deals[d].status = None /\ RowsOf(transitions, d) = {}
  BY <1>1, <1>2 DEF LedgerInv, UnsavedBlank, DriftInv, LogOfCreated, RowsOf
<1>4. \A e \in Subjects : deals'[e].status = IF e = d THEN s ELSE deals[e].status
  BY <1>1, <1>2, DriftParts
<1>5. \A r \in pending[tx] : r.subject = d /\ r.to = s /\ r.from = None
  BY <1>1, DriftParts
     DEF DriftInv, RowsKnown, RowKnown, LogSide, RowsOwned, RowOwned,
         LedgerInv, LogExplained, Explained, RowsExplained, RowExplained
<1>6. \A e \in Subjects : e # d => StatusesOf(RowsOf(transitions', e)) = HistoryOf(e)
  <2> SUFFICES ASSUME NEW e \in Subjects, e # d
               PROVE  StatusesOf(RowsOf(transitions', e)) = HistoryOf(e)
    OBVIOUS
  <2>1. RowsOf(pending[tx], e) = {}
    BY <1>5 DEF RowsOf
  <2> QED BY <1>1, <2>1, CommitNone
<1>7. RowsOf(pending[tx], d) = pending[tx]
  BY <1>5 DEF RowsOf
<1> HIDE DEF d
<1>8. CASE s = None
  <2>1. pending[tx] = {}
    BY <1>1, <1>5, <1>8, RowFields DEF RowsTyped
  <2>2. StatusesOf(RowsOf(transitions', d)) = HistoryOf(d)
    BY <1>1, <1>2, <1>7, <2>1, CommitNone
  <2> QED BY <1>3, <1>4, <1>6, <1>8, <2>2
<1>9. CASE s # None
  <2>1. PICK r : r \in pending[tx]
    BY <1>1, <1>9 DEF DriftInv, OutcomesKnown, OutcomeKnown
  <2>2. \A q \in pending[tx] : q.prev = NoRow
    BY <1>1, <1>5 DEF ChainRows, RowsLinked, LinkedIn
  <2>3. \A q \in pending[tx] : q = r
    BY <1>1, <1>5, <2>1, <2>2, HeadAlone
  <2>4. RowsOf(pending[tx], d) = {r}
    BY <1>7, <2>1, <2>3
  <2>5. StatusesOf(RowsOf(transitions', d)) = Append(HistoryOf(d), s)
    BY <1>1, <1>2, <1>5, <2>1, <2>4, CommitOne
  <2>6. s \in Statuses /\ s # deals[d].status
    BY <1>2, <1>3, <1>9
  <2>7. HistoryOf(d) = IF HistoryOf(d) = <<>> /\ deals[d].status # None
                       THEN <<deals[d].status>> ELSE HistoryOf(d)
    BY <1>3
  <2> HIDE DEF s
  <2> QED BY <1>2, <1>4, <1>6, <2>5, <2>6, <2>7, ChangeShown
<1> QED BY <1>8, <1>9

\* The commit of a batch catches up the deals it has heads for.
LEMMA CommitBatchLedger ==
    ASSUME LedgerInv, NEW tx \in Txs, CommitBatch(tx)
    PROVE  Ledger!Next
<1> DEFINE ds == {d \in Subjects : RowsOf(pending[tx], d) # {}}
           caught(d) == IF HistoryOf(d) = <<>> /\ deals[d].status # None
                        THEN <<deals[d].status>> ELSE HistoryOf(d)
<1>1. /\ DriftInv /\ LogInv /\ RowsTyped /\ ChainRows /\ TypeOK
      /\ op[tx].pc = "seeding" /\ CommitLog(tx) /\ deals' = deals
  BY DriftParts DEF LedgerInv, CommitBatch
<1>2. \A r \in pending[tx] : /\ r.prev = NoRow /\ r.to = deals[r.subject].status
                             /\ r \in Row
  BY <1>1, DriftParts
     DEF DriftInv, RowsKnown, RowKnown, LogSide, RowsOwned, RowOwned, Recording, RowsTyped
<1>3. ASSUME NEW d \in ds
      PROVE  StatusesOf(RowsOf(transitions', d)) = caught(d)
  <2>1. PICK r \in pending[tx] : r.subject = d
    BY <1>3 DEF RowsOf
  <2>2. RowsOf(pending[tx], d) = {r}
    BY <1>1, <1>2, <2>1, HeadAlone DEF RowsOf
  <2>3. RowsOf(transitions, d) = {}
    BY <1>1, <1>2, <2>1, HeadStarts
  <2>4. HistoryOf(d) = <<>>
    BY <2>3, NoHistory DEF HistoryOf
  <2>5. StatusesOf(RowsOf(transitions', d)) = Append(HistoryOf(d), r.to)
    BY <1>1, <1>3, <2>2, CommitOne
  <2>6. r.to = deals[d].status /\ r.to # None
    BY <1>2, <2>1, RowFields
  <2>7. Append(<<>>, deals[d].status) = <<deals[d].status>>
    OBVIOUS
  <2> QED BY <2>4, <2>5, <2>6, <2>7
<1>4. ASSUME NEW d \in Subjects, d \notin ds
      PROVE  StatusesOf(RowsOf(transitions', d)) = HistoryOf(d)
  BY <1>1, <1>4, CommitNone
<1>5. ds \in SUBSET Subjects
  OBVIOUS
<1>6. \A d \in Subjects : Ledger!Caught(d) = caught(d)
  BY DEF Ledger!Caught
<1> HIDE DEF ds, caught
<1>7. Ledger!Seed(ds)
  BY <1>1, <1>3, <1>4, <1>5, <1>6 DEF Ledger!Seed, HistoryOf
<1> QED BY <1>5, <1>7 DEF Ledger!Next

LEMMA LedgerStep ==
    ASSUME "status" \notin EditorFields, LedgerInv, [Next]_vars
    PROVE  [Ledger!Next]_<<[d \in Subjects |-> deals[d].status],
                           [d \in Subjects |-> HistoryOf(d)]>>
<1>1. DriftInv
  BY DEF LedgerInv
<1>2. CASE \A e \in Subjects : /\ deals'[e].status = deals[e].status
                               /\ StatusesOf(RowsOf(transitions', e)) = HistoryOf(e)
  BY <1>2 DEF HistoryOf
<1>3. CASE UNCHANGED <<transitions, created, removed>>
           /\ \A d \in Subjects : deals'[d].status = deals[d].status
  BY <1>2, <1>3 DEF HistoryOf
<1>4. ASSUME NEW tx \in Txs, CommitMove(tx) \/ CommitCreate(tx) \/ CommitBatch(tx)
      PROVE  [Ledger!Next]_<<[d \in Subjects |-> deals[d].status],
                             [d \in Subjects |-> HistoryOf(d)]>>
  BY <1>2, <1>4, CommitMoveLedger, CommitCreateLedger, CommitBatchLedger
<1> QED BY <1>1, <1>3, <1>4, VisibleSteps

\* The write path implements the ledger: as long as no generic PATCH carries a
\* status, a deal changes its status and gains the matching history in one atomic
\* step, whatever crashes or overtakes what, and a deal older than the log first
\* gains the status it had.
THEOREM DealsImplementLedger ==
    ASSUME "status" \notin EditorFields
    PROVE  Spec => ImplementsLedger
<1>1. Init => Ledger!Init
  <2> SUFFICES ASSUME Init PROVE Ledger!Init
    OBVIOUS
  <2>1. TypeOK /\ transitions = {}
    BY DealInitInv DEF DealInv, Init, LogInit
  <2>2. \A d \in Subjects : HistoryOf(d) = <<>>
    BY <2>1, NoHistory DEF HistoryOf, RowsOf
  <2>3. [d \in Subjects |-> deals[d].status] \in [Subjects -> Statuses \cup {None}]
    BY <2>1, DealTyped
  <2>4. [d \in Subjects |-> HistoryOf(d)] = [d \in Subjects |-> <<>>]
    BY <2>2
  <2> QED BY <2>3, <2>4 DEF Ledger!Init
<1>2. LedgerInv /\ [Next]_vars => LedgerInv'
  BY LedgerNext
<1>3. LedgerInv /\ [Next]_vars =>
        [Ledger!Next]_<<[d \in Subjects |-> deals[d].status],
                        [d \in Subjects |-> HistoryOf(d)]>>
  BY LedgerStep
<1> QED BY LedgerInit, <1>1, <1>2, <1>3, PTL DEF Spec, ImplementsLedger, Ledger!Spec

===============================================================================
