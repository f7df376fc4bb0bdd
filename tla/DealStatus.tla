------------------------------ MODULE DealStatus ------------------------------
(***************************************************************************)
(* The writers of iron_bank.underwritings.deal_status and the log they     *)
(* keep of it.                                                             *)
(*                                                                         *)
(*   move    PATCH /underwritings/{id}/deal-status  (update_deal_status)   *)
(*   edit    the generic PATCH (update), which can carry a deal_status,    *)
(*           an analyst and an approver, and logs none of them             *)
(*   create  save and duplicate: a new deal with the head of its log       *)
(*   seed    scripts/backfill_deal_status_history.py                       *)
(*                                                                         *)
(* Each open request, job or script run is a transaction of ProcessLog,    *)
(* and its log operations are ProcessLog's.  Its steps are the awaits of   *)
(* the code: another transaction can run between any two of them, and the  *)
(* process can die between any two.  What a transaction has written but    *)
(* not committed is kept in its op record; only the row lock it holds is   *)
(* seen by others.                                                         *)
(***************************************************************************)
EXTENDS ProcessLog

CONSTANTS
    Listings,         \* zpids of scheduled listings
    ListingOf,        \* the zpid of each deal, or None
    Legacy,           \* deals older than the log
    InitialDeals,     \* the rows of deals that are saved, or are legacy
    EditorFields,     \* columns generic PATCHes carry
    FormStatus,       \* TRUE if the status they carry is the one they loaded
    BatchSize,        \* of the backfill
    MaxRequests       \* bound: requests, job saves and script runs served

\* The statuses the write path tells apart (app/iron_bank/enums.py).
PresentToClients == "present_to_clients"
AnalystCompleted == "analyst_completed"
DeleteZillow     == "delete_zillow"
TemplateGenerated == "template_generated"

\* Statuses with an n8n webhook behind them.
Announced == {PresentToClients, AnalystCompleted}

\* Statuses whose head row is attributed to the approver (the backfill's).
Approved == {PresentToClients, "client_under_contract"}

\* The columns of iron_bank.underwritings that are modelled.
Deal == [status   : Statuses \cup {None},
         analyst  : Actors \cup {None},
         approver : Actors \cup {None}]

DealFields == {"status", "analyst", "approver"}

ASSUME DealAssumption ==
    /\ Subjects \subseteq Nat \ {0}
    /\ ListingOf \in [Subjects -> Listings \cup {None}]
    /\ None \notin Listings /\ None \notin BOOLEAN
    /\ Legacy \subseteq Subjects
    /\ InitialDeals \subseteq Deal
    /\ Statuses \subseteq Payloads
    /\ EditorFields \subseteq DealFields
    /\ FormStatus \in BOOLEAN
    /\ BatchSize \in Nat \ {0}
    /\ MaxRequests \in Nat
    /\ CallerSources = {"api", "job"}
    /\ IsFiniteSet(Txs)

VARIABLES
    created,   \* deals whose row is committed
    deals,     \* committed columns of iron_bank.underwritings
    lock,      \* the transaction that holds each deal's row lock
    removed,   \* committed remove_listing of zillow.scheduled_listings
    op,        \* the request, job or script run each transaction serves
    webhooks,  \* webhook sends so far, per deal and status
    requests,  \* requests, saves and script runs begun so far
    seeded     \* a backfill run has completed

dealVars == <<created, deals, lock, removed, op, webhooks, requests, seeded>>
vars == <<logVars, dealVars>>

BlankDeal == [status |-> None, analyst |-> None, approver |-> None]

\* A deal the backfill has read.
Seeding == [deal : Subjects, status : Statuses, actor : Actors \cup {None}]

OpPc == {"idle",
         "waiting", "locked", "flushed", "logging", "announcing",   \* move
         "inserted", "heading",                                     \* create
         "form", "loaded",                                          \* edit
         "reading", "seeding"}                                      \* seed

Op == [pc       : OpPc,
       deal     : Subjects \cup {None},
       user     : Actors \cup {None},
       target   : Statuses \cup {None},   \* the status the request asks for
       previous : Statuses \cup {None},   \* previous_status
       row      : Deal,                   \* the deal as this transaction wrote it
       fields   : SUBSET DealFields,      \* the columns a generic PATCH writes
       removal  : BOOLEAN \cup {None},    \* remove_listing as written, if it was
       source   : CallerSources,
       batch    : SUBSET Seeding,
       last     : Nat]                    \* last_id of the backfill

NoOp == [pc |-> "idle", deal |-> None, user |-> None, target |-> None,
         previous |-> None, row |-> BlankDeal, fields |-> {}, removal |-> None,
         source |-> "api", batch |-> {}, last |-> 0]

TypeOK ==
    /\ LogTypeOK
    /\ created \subseteq Subjects
    /\ deals \in [Subjects -> Deal]
    /\ lock \in [Subjects -> Txs \cup {None}]
    /\ removed \in [Listings -> BOOLEAN]
    /\ op \in [Txs -> Op]
    /\ webhooks \in [Subjects -> [Announced -> Nat]]
    /\ requests \in Nat
    /\ seeded \in BOOLEAN

(***************************************************************************)
(* The log ships into a database that has deals, none of them logged; a    *)
(* listing is flagged exactly when a deal of it was moved to delete_zillow *)
(***************************************************************************)
Init ==
    /\ LogInit
    /\ created = Legacy
    /\ deals \in [Subjects -> InitialDeals \cup {BlankDeal}]
    /\ \A d \in Subjects : d \in Legacy \/ deals[d] = BlankDeal
    /\ \A d \in Legacy : deals[d] \in InitialDeals
    /\ lock = [d \in Subjects |-> None]
    /\ removed = [l \in Listings |->
         \E d \in Legacy : ListingOf[d] = l /\ deals[d].status = DeleteZillow]
    /\ op = [tx \in Txs |-> NoOp]
    /\ webhooks = [d \in Subjects |-> [s \in Announced |-> 0]]
    /\ requests = 0
    /\ seeded = FALSE

-----------------------------------------------------------------------------
(***************************************************************************)
(* update_deal_status.                                                     *)
(***************************************************************************)

\* A free connection takes up the next request.
Begin(tx, o) ==
    /\ op[tx].pc = "idle"
    /\ requests < MaxRequests
    /\ requests' = requests + 1
    /\ op' = [op EXCEPT ![tx] = o]
    /\ UNCHANGED <<logVars, created, deals, lock, removed, webhooks, seeded>>

\* A request arrives for a deal the client has seen.
RequestMove(tx, d, user, target) ==
    /\ d \in created
    /\ Begin(tx, [NoOp EXCEPT !.pc = "waiting", !.deal = d, !.user = user,
                              !.target = target])

\* Mutant: the row is loaded without FOR UPDATE.
LockDeal_Unlocked(tx) ==
    /\ op[tx].pc = "waiting"
    /\ op' = [op EXCEPT ![tx].pc = "locked",
                        ![tx].previous = deals[op[tx].deal].status,
                        ![tx].row = deals[op[tx].deal]]
    /\ UNCHANGED <<logVars, created, deals, lock, removed, webhooks, requests, seeded>>

\* get_by_id(for_update=True): wait for the row, lock it, re-read it.
LockDeal(tx) ==
    LET d == op[tx].deal
    IN /\ op[tx].pc = "waiting"
       /\ lock[d] = None
       /\ lock' = [lock EXCEPT ![d] = tx]
       /\ op' = [op EXCEPT ![tx].pc = "locked",
                           ![tx].previous = deals[d].status,
                           ![tx].row = deals[d]]
       /\ UNCHANGED <<logVars, created, deals, removed, webhooks, requests, seeded>>

\* Mutant: leaving delete_zillow does not clear the flag.
RemovalFor_NeverClears(d, previous, target) ==
    IF ListingOf[d] # None /\ target = DeleteZillow THEN TRUE ELSE None

\* _sync_listing_removal: what the listing's flag is set to, if anything.
RemovalFor(d, previous, target) ==
    IF ListingOf[d] = None THEN None
    ELSE IF target = DeleteZillow THEN TRUE
    ELSE IF previous = DeleteZillow THEN FALSE
    ELSE None

\* The UPDATE of the listing waits for a transaction that has updated it.
ListingWaits(tx, d) ==
    \E other \in Txs \ {tx} :
      /\ op[other].removal # None
      /\ op[other].pc \in {"flushed", "logging"}
      /\ ListingOf[op[other].deal] = ListingOf[d]

\* Mutant: the analyst is overwritten.
Moved_Reassigns(row, user, target) ==
    [status   |-> target,
     analyst  |-> user,
     approver |-> IF target = PresentToClients THEN user ELSE row.approver]

\* The columns the request writes: first analyst only, and the approver.
Moved(row, user, target) ==
    [status   |-> target,
     analyst  |-> IF row.analyst = None THEN user ELSE row.analyst,
     approver |-> IF target = PresentToClients THEN user ELSE row.approver]

\* Mutant: repository.update is called without commit=False.
FlushMove_Commits(tx) ==
    LET o == op[tx]
        row == Moved(o.row, o.user, o.target)
    IN /\ o.pc = "locked"
       /\ deals' = [deals EXCEPT ![o.deal] = row]
       /\ lock' = [lock EXCEPT ![o.deal] = None]
       /\ op' = [op EXCEPT ![tx].pc = "flushed", ![tx].row = row]
       /\ UNCHANGED <<logVars, created, removed, webhooks, requests, seeded>>

\* The listing's flag and the deal's columns are flushed.
FlushMove(tx) ==
    LET o == op[tx]
        removal == RemovalFor(o.deal, o.previous, o.target)
    IN /\ o.pc = "locked"
       /\ removal # None => ~ListingWaits(tx, o.deal)
       /\ op' = [op EXCEPT ![tx].pc = "flushed",
                           ![tx].row = Moved(o.row, o.user, o.target),
                           ![tx].removal = removal]
       /\ UNCHANGED <<logVars, created, deals, lock, removed, webhooks, requests, seeded>>

\* A repeated PATCH is not a transition; any other is recorded.
RecordMove(tx) ==
    LET o == op[tx]
    IN /\ o.pc = "flushed"
       /\ IF o.previous # o.target
          THEN RecordTransition(tx, o.deal, o.previous, o.target, "api",
                                o.user, o.row.status)
          ELSE UNCHANGED logVars
       /\ op' = [op EXCEPT ![tx].pc = "logging"]
       /\ UNCHANGED <<created, deals, lock, removed, webhooks, requests, seeded>>

\* Mutants: a repeated PATCH is announced; the row lock outlives the commit.
CommitMove_AlwaysAnnounces(tx) ==
    LET o == op[tx]
    IN /\ o.pc = "logging"
       /\ CommitLog(tx)
       /\ deals' = [deals EXCEPT ![o.deal] = o.row]
       /\ lock' = [lock EXCEPT ![o.deal] = None]
       /\ op' = [op EXCEPT ![tx] =
                   IF o.target \in Announced
                   THEN [NoOp EXCEPT !.pc = "announcing", !.deal = o.deal,
                                     !.target = o.target]
                   ELSE NoOp]
       /\ UNCHANGED <<created, removed, webhooks, requests, seeded>>
CommitMove_KeepsLock(tx) ==
    /\ op[tx].pc = "logging"
    /\ CommitLog(tx)
    /\ deals' = [deals EXCEPT ![op[tx].deal] = op[tx].row]
    /\ op' = [op EXCEPT ![tx] = NoOp]
    /\ UNCHANGED <<created, lock, removed, webhooks, requests, seeded>>

\* repository.commit(): the deal, its listing and its log at once.
CommitMove(tx) ==
    LET o == op[tx]
    IN /\ o.pc = "logging"
       /\ CommitLog(tx)
       /\ deals' = [deals EXCEPT ![o.deal] = o.row]
       /\ removed' = IF o.removal = None THEN removed
                     ELSE [removed EXCEPT ![ListingOf[o.deal]] = o.removal]
       /\ lock' = [lock EXCEPT ![o.deal] = None]
       /\ op' = [op EXCEPT ![tx] =
                   IF o.previous # o.target /\ o.target \in Announced
                   THEN [NoOp EXCEPT !.pc = "announcing", !.deal = o.deal,
                                     !.target = o.target]
                   ELSE NoOp]
       /\ UNCHANGED <<created, webhooks, requests, seeded>>

\* _trigger_n8n_webhook, which never raises.
Announce(tx) ==
    LET o == op[tx]
    IN /\ o.pc = "announcing"
       /\ webhooks' = [webhooks EXCEPT ![o.deal][o.target] = @ + 1]
       /\ op' = [op EXCEPT ![tx] = NoOp]
       /\ UNCHANGED <<logVars, created, deals, lock, removed, requests, seeded>>

-----------------------------------------------------------------------------
(***************************************************************************)
(* save and duplicate.                                                     *)
(***************************************************************************)

\* repository.create(commit=False): a row only this transaction can see.
InsertDeal(tx, d, source, actor, row) ==
    /\ d \notin created
    /\ \A other \in Txs : op[other].pc \in {"inserted", "heading"} => op[other].deal # d
    /\ Begin(tx, [NoOp EXCEPT !.pc = "inserted", !.deal = d, !.source = source,
                              !.user = actor, !.row = row])

\* A save by the API or by a job: no actor on the head row.
SaveDeal(tx, d) ==
    \E source \in CallerSources, row \in InitialDeals :
      InsertDeal(tx, d, source, None, row)

\* A duplicate starts over at template_generated with its maker as analyst.
DuplicateDeal(tx, d) ==
    /\ created # {}
    /\ TemplateGenerated \in Statuses
    /\ \E user \in Actors :
         InsertDeal(tx, d, "api", user,
                    [status |-> TemplateGenerated, analyst |-> user, approver |-> None])

\* Mutant: the service is built without a process log.
RecordCreated_Unlogged(tx) ==
    /\ op[tx].pc = "inserted"
    /\ op' = [op EXCEPT ![tx].pc = "heading"]
    /\ UNCHANGED <<logVars, created, deals, lock, removed, webhooks, requests, seeded>>

\* record_created: a deal without a status starts no chain.
RecordCreated(tx) ==
    LET o == op[tx]
    IN /\ o.pc = "inserted"
       /\ IF o.row.status # None
          THEN RecordTransition(tx, o.deal, None, o.row.status, o.source,
                                o.user, o.row.status)
          ELSE UNCHANGED logVars
       /\ op' = [op EXCEPT ![tx].pc = "heading"]
       /\ UNCHANGED <<created, deals, lock, removed, webhooks, requests, seeded>>

CommitCreate(tx) ==
    LET o == op[tx]
    IN /\ o.pc = "heading"
       /\ CommitLog(tx)
       /\ created' = created \cup {o.deal}
       /\ deals' = [deals EXCEPT ![o.deal] = o.row]
       /\ op' = [op EXCEPT ![tx] = NoOp]
       /\ UNCHANGED <<lock, removed, webhooks, requests, seeded>>

-----------------------------------------------------------------------------
(***************************************************************************)
(* The generic PATCH writes the columns its payload sets.  With FormStatus *)
(* its status is the one the editor's form was loaded with.                *)
(***************************************************************************)
OpenEdit(tx, d) ==
    /\ d \in created
    /\ \E fields \in SUBSET EditorFields \ {{}}, row \in Deal :
         /\ \A f \in DealFields \ fields : row[f] = None
         /\ FormStatus /\ "status" \in fields => row.status = deals[d].status
         /\ Begin(tx, [NoOp EXCEPT !.pc = "form", !.deal = d,
                                   !.fields = fields, !.row = row])

\* repository.update loads the row without a lock; the attributes that differ
\* from what it loaded are dirty.
LoadEdit(tx) ==
    LET o == op[tx]
    IN /\ o.pc = "form"
       /\ op' = [op EXCEPT ![tx].pc = "loaded",
                           ![tx].fields = {f \in @ : o.row[f] # deals[o.deal][f]}]
       /\ UNCHANGED <<logVars, created, deals, lock, removed, webhooks, requests, seeded>>

\* The flush writes the dirty attributes once the row is free, and the
\* transaction commits.  Nothing is logged.
SaveEdit(tx) ==
    LET o == op[tx]
    IN /\ o.pc = "loaded"
       /\ o.fields # {} => lock[o.deal] = None
       /\ deals' = [deals EXCEPT ![o.deal] =
                      [f \in DealFields |-> IF f \in o.fields THEN o.row[f] ELSE @[f]]]
       /\ op' = [op EXCEPT ![tx] = NoOp]
       /\ UNCHANGED <<logVars, created, lock, removed, webhooks, requests, seeded>>

-----------------------------------------------------------------------------
(***************************************************************************)
(* The backfill script reads deals in batches by id, without locks, until  *)
(* it finds none.                                                          *)
(***************************************************************************)
StartSeed(tx) == Begin(tx, [NoOp EXCEPT !.pc = "reading"])

\* Mutant: deals without a status are read too.
Unseeded_WithNull(last) == {d \in created : d > last /\ Heads(transitions, d) = {}}

Unseeded(last) ==
    {d \in created : /\ d > last /\ deals[d].status # None
                     /\ Heads(transitions, d) = {}}

\* head_seed_for: the approver is the actor of an approved deal's head.
SeedFor(d) ==
    [deal   |-> d,
     status |-> deals[d].status,
     actor  |-> IF deals[d].status \in Approved THEN deals[d].approver ELSE None]

\* The next batch, and how far it reaches, if there is one.
ReadBatch(tx) ==
    LET found == Unseeded(op[tx].last)
        batch == {d \in found : Cardinality({e \in found : e < d}) < BatchSize}
    IN /\ op[tx].pc = "reading"
       /\ \/ /\ batch = {}
             /\ op' = [op EXCEPT ![tx] = NoOp]
             /\ seeded' = TRUE
          \/ \E last \in batch :
               /\ \A d \in batch : d <= last
               /\ op' = [op EXCEPT ![tx].pc = "seeding",
                                   ![tx].batch = {SeedFor(d) : d \in batch},
                                   ![tx].last = last]
               /\ UNCHANGED seeded
       /\ UNCHANGED <<logVars, created, deals, lock, removed, webhooks, requests>>

SnapshotDeal(tx) ==
    /\ op[tx].pc = "seeding"
    /\ \E seed \in op[tx].batch :
         /\ <<seed.deal, seed.status>> \notin SnapshotsSeen(tx)
         /\ SeedSnapshot(tx, seed.deal, seed.status)
    /\ UNCHANGED dealVars

SeedDeal(tx) ==
    /\ op[tx].pc = "seeding"
    /\ \A seed \in op[tx].batch : <<seed.deal, seed.status>> \in SnapshotsSeen(tx)
    /\ \E seed \in op[tx].batch :
         /\ SeedHead(tx, seed.deal, seed.status, seed.actor, seed.status)
         /\ op' = [op EXCEPT ![tx].batch = @ \ {seed}]
    /\ UNCHANGED <<created, deals, lock, removed, webhooks, requests, seeded>>

CommitBatch(tx) ==
    /\ op[tx].pc = "seeding" /\ op[tx].batch = {}
    /\ CommitLog(tx)
    /\ op' = [op EXCEPT ![tx].pc = "reading"]
    /\ UNCHANGED <<created, deals, lock, removed, webhooks, requests, seeded>>

-----------------------------------------------------------------------------
\* A step inside record_transition, of whichever writer called it.
StepLog(tx) ==
    /\ op[tx].pc \in {"logging", "heading"}
    /\ ContinueRecord(tx)
    /\ UNCHANGED dealVars

\* An error, a disconnect or the death of the process before the commit, and a
\* death before the webhook: the session ends, its transaction with it.
Abort(tx) ==
    /\ op[tx].pc # "idle"
    /\ RollbackLog(tx)
    /\ lock' = [d \in Subjects |-> IF lock[d] = tx THEN None ELSE lock[d]]
    /\ op' = [op EXCEPT ![tx] = NoOp]
    /\ UNCHANGED <<created, deals, removed, webhooks, requests, seeded>>

Move(tx) ==
    \/ \E d \in Subjects, user \in Actors, target \in Statuses :
         RequestMove(tx, d, user, target)
    \/ LockDeal(tx) \/ FlushMove(tx) \/ RecordMove(tx)
    \/ CommitMove(tx) \/ Announce(tx)

Create(tx) ==
    \/ \E d \in Subjects : SaveDeal(tx, d) \/ DuplicateDeal(tx, d)
    \/ RecordCreated(tx) \/ CommitCreate(tx)

Edit(tx) ==
    \/ \E d \in Subjects : OpenEdit(tx, d)
    \/ LoadEdit(tx) \/ SaveEdit(tx)

Seed(tx) ==
    \/ StartSeed(tx) \/ ReadBatch(tx)
    \/ SnapshotDeal(tx) \/ SeedDeal(tx) \/ CommitBatch(tx)

Next == \E tx \in Txs :
    Move(tx) \/ Create(tx) \/ Edit(tx) \/ Seed(tx) \/ StepLog(tx) \/ Abort(tx)

Spec == Init /\ [][Next]_vars

(***************************************************************************)
(* A request that has begun goes on as long as its session lives, and one  *)
(* whose transaction the database has aborted is answered with the error.  *)
(* New requests need not come, and nobody is bound to disconnect.          *)
(***************************************************************************)
Proceed(tx) ==
    \/ LockDeal(tx) \/ FlushMove(tx) \/ RecordMove(tx) \/ CommitMove(tx)
    \/ Announce(tx) \/ RecordCreated(tx) \/ CommitCreate(tx)
    \/ LoadEdit(tx) \/ SaveEdit(tx)
    \/ ReadBatch(tx) \/ SnapshotDeal(tx) \/ SeedDeal(tx) \/ CommitBatch(tx)
    \/ StepLog(tx)
    \/ call[tx].pc = "conflict" /\ Abort(tx)

FairSpec == Spec /\ \A tx \in Txs : WF_vars(Proceed(tx))

-----------------------------------------------------------------------------
(***************************************************************************)
(* Properties.                                                             *)
(***************************************************************************)

\* The lock and the shared transaction keep the log and the deal in step: a
\* deal that has history is in the status its last row says.
NoDrift ==
    \A d \in created : \A r \in Tails(transitions, d) : r.to = deals[d].status

\* The drift check of the backfill script (and of process_log.md, section 7).
DriftReport ==
    {d \in created :
       {r.to : r \in Tails(transitions, d)} # {deals[d].status} \ {None}}

\* Once a backfill has completed, the drift check returns zero rows, whatever
\* was changed while it ran and since.
DriftCheckEmpty == seeded => DriftReport = {}

\* Whatever other writers did to the status and the log, a status change that
\* commits leaves the log at the status it set (drift repair).
MovesAreLogged ==
    [][\A tx \in Txs :
         CommitMove(tx) /\ op[tx].previous # op[tx].target =>
           \E r \in Tails(transitions', op[tx].deal) : r.to = op[tx].target]_vars

\* Webhooks sent, and those about to be, never outnumber the logged moves into
\* the status they announce: a repeated PATCH announces nothing.
WebhooksMatchMoves ==
    \A d \in Subjects, s \in Announced :
      webhooks[d][s]
        + Cardinality({tx \in Txs : /\ op[tx].pc = "announcing"
                                    /\ op[tx].deal = d /\ op[tx].target = s})
        <= Cardinality({r \in RowsOf(transitions, d) : r.to = s /\ r.source = "api"})

SeededHead(rows, d) == \E h \in Heads(rows, d) : h.source = "backfill"

\* A 409 (ConcurrentTransitionError) means a writer without the row lock got in
\* between, and the backfill is the only one: its head row is there.
OnlyTheBackfillRaces ==
    \A tx \in Txs :
      call[tx].pc = "conflict" => SeededHead(transitions, call[tx].subject)

\* The analyst is assigned on first touch only: however moves and edits of the
\* deal interleave, no move overwrites an analyst who is there when it commits.
AnalystKept ==
    [][\A tx \in Txs :
         LET analyst == deals[op[tx].deal].analyst
         IN CommitMove(tx) /\ analyst # None =>
              deals'[op[tx].deal].analyst = analyst]_vars

\* A listing is hidden only as long as some deal of it is in delete_zillow, and
\* a move to delete_zillow hides the listing of a deal without other versions
\* until it moves on.
ListingFlagFollows ==
    \A l \in Listings :
      LET versions == {d \in Subjects : ListingOf[d] = l}
          movedOut(d) == \E r \in Tails(transitions, d) : r.to = DeleteZillow /\ r.actor # None
      IN /\ removed[l] => \E d \in versions \cap created : deals[d].status = DeleteZillow
         /\ \A d \in created : versions = {d} /\ movedOut(d) => removed[l]

\* Every status change that arrives is answered: row locks, chain keys and
\* listing updates never wait for each other in a circle.
MovesAreServed == \A tx \in Txs : op[tx].pc = "waiting" ~> op[tx].pc = "idle"

-----------------------------------------------------------------------------
(***************************************************************************)
(* The inductive invariant behind the properties above: what an open       *)
(* request knows of its deal stays true until it commits.                  *)
(***************************************************************************)
Holding   == {"locked", "flushed", "logging"}    \* the deal's row lock
Recording == {"logging", "heading"}              \* inside record_transition
Inserting == {"inserted", "heading"}

\* A request works on a deal that is there, a save on one that is not.
OpPlaced(o, there) ==
    /\ o.pc \in Holding \cup {"waiting"} =>
         o.deal \in there /\ o.target \in Statuses /\ o.user \in Actors
    /\ o.pc = "announcing" => o.deal \in Subjects /\ o.target \in Announced
    /\ o.pc \in Inserting => o.deal \in Subjects \ there
    /\ o.pc \in {"form", "loaded"} => o.deal \in there
    /\ \A seed \in o.batch : seed.deal \in there

OpsPlaced == \A tx \in Txs : OpPlaced(op[tx], created)

SavesApart ==
    \A tx, other \in Txs :
      tx # other /\ op[tx].pc \in Inserting /\ op[other].pc \in Inserting =>
        op[tx].deal # op[other].deal

LocksHeld ==
    \A tx \in Txs, d \in Subjects :
      lock[d] = tx <=> op[tx].pc \in Holding /\ op[tx].deal = d

\* What a move loaded under the lock is still what is committed.
RowCurrent(o, row) ==
    o.pc \in Holding =>
      /\ o.previous = row.status
      /\ o.row = IF o.pc = "locked" THEN row ELSE Moved(row, o.user, o.target)

RowsCurrent == \A tx \in Txs : RowCurrent(op[tx], deals[op[tx].deal])

\* Uncommitted rows are of the deal a request works on, or heads of the
\* backfill.
RowOwned(o, r, there) ==
    \/ o.pc \in Recording /\ r.subject = o.deal
    \/ /\ o.pc = "seeding" /\ r.subject \in there
       /\ r.prev = NoRow /\ r.source = "backfill"

RowsOwned == \A tx \in Txs : \A r \in pending[tx] : RowOwned(op[tx], r, created)

CallOwned(o, c) ==
    c.pc # "idle" =>
      o.pc \in Recording /\ c.subject = o.deal /\ c.to = o.row.status

CallsOwned == \A tx \in Txs : CallOwned(op[tx], call[tx])

\* Only the backfill can have overtaken a call: with the head it was to write.
TailCurrent(c, visible, committed) ==
    c.pc \in {"repair", "snapshot", "append"} =>
      \/ c.tail # NoRow /\ \A q \in visible : q.prev # c.tail
      \/ /\ c.tail = NoRow
         /\ Heads(visible, c.subject) = {} \/ SeededHead(committed, c.subject)

TailsCurrent == \A tx \in Txs : TailCurrent(call[tx], Visible(tx), transitions)

\* A move that is done with the log leaves it at its target.
MoveRecorded(o, c, rows) ==
    o.pc = "logging" /\ o.previous # o.target /\ c.pc = "idle" =>
      \E r \in Tails(rows, o.deal) : r.to = o.target

MovesRecorded == \A tx \in Txs : MoveRecorded(op[tx], call[tx], Visible(tx))

DealInv ==
    /\ TypeOK
    /\ LogInv
    /\ OpsPlaced
    /\ SavesApart
    /\ LocksHeld
    /\ RowsCurrent
    /\ RowsOwned
    /\ CallsOwned
    /\ TailsCurrent
    /\ OnlyTheBackfillRaces
    /\ MovesRecorded

-----------------------------------------------------------------------------
(***************************************************************************)
(* The inductive invariant where no generic PATCH carries a status: the    *)
(* log says what the deals say, and every open request builds on that.     *)
(***************************************************************************)
LogOfCreated == \A r \in transitions : r.subject \in created

\* A repeated PATCH records nothing; a save starts its chain.
CallKnown(o, c) ==
    c.pc # "idle" =>
      /\ o.pc = "logging" => o.previous # o.target /\ c.source = "api"
      /\ o.pc = "heading" => c.logged = None /\ c.expected = None /\ c.actor = o.user

CallsKnown == \A tx \in Txs : CallKnown(op[tx], call[tx])

\* An uncommitted head says what its deal will be committed with, or is.
RowKnown(o, r, table) ==
    /\ o.pc = "logging" => o.previous # o.target
    /\ o.pc = "heading" => r.to = o.row.status /\ r.actor = o.user
    /\ o.pc = "seeding" =>
         r.to = table[r.subject].status /\ (r.to = DeleteZillow => r.actor = None)

RowsKnown == \A tx \in Txs : \A r \in pending[tx] : RowKnown(op[tx], r, deals)

\* A writer that is done with the log has added the row it was to add.
OutcomeKnown(o, c, mine) ==
    c.pc = "idle" =>
      /\ o.pc = "logging" /\ o.previous # o.target =>
           \E r \in mine : r.subject = o.deal /\ r.to = o.target /\ r.source = "api"
      /\ o.pc = "heading" /\ o.row.status # None => \E r \in mine : r.subject = o.deal

OutcomesKnown == \A tx \in Txs : OutcomeKnown(op[tx], call[tx], pending[tx])

\* A status the backfill has read is stale only if the deal has a head by now.
SeedKnown(seed, table, rows) ==
    /\ seed.status = table[seed.deal].status \/ Heads(rows, seed.deal) # {}
    /\ seed.status = DeleteZillow => seed.actor = None

SeedsKnown == \A tx \in Txs : \A seed \in op[tx].batch : SeedKnown(seed, deals, transitions)

\* The flag is derived from the move; only a duplicate's head has an actor; a
\* PATCH writes no other columns than the editor's.
OpKnown(o) ==
    /\ o.pc \in {"flushed", "logging"} =>
         o.removal = RemovalFor(o.deal, o.previous, o.target)
    /\ o.pc \in Inserting => o.user = None \/ o.row.status = TemplateGenerated
    /\ o.fields \subseteq EditorFields

OpsKnown == \A tx \in Txs : OpKnown(op[tx])

\* Deals up to last_id are in the log, or in the batch.
Scanned(o, visible, table) ==
    o.pc \in {"reading", "seeding"} =>
      \A d \in Legacy :
        d <= o.last /\ table[d].status # None =>
          \/ Heads(visible, d) # {}
          \/ o.pc = "seeding" /\ \E seed \in o.batch : seed.deal = d

\* Deals saved since the log ships have a head; the others, once a backfill has
\* passed them.
BackfillInv ==
    /\ Legacy \subseteq created
    /\ \A tx \in Txs : Scanned(op[tx], Visible(tx), deals)
    /\ \A d \in created :
         (seeded \/ d \notin Legacy) /\ deals[d].status # None => Heads(transitions, d) # {}

DriftInv ==
    /\ DealInv
    /\ LogOfCreated
    /\ NoDrift
    /\ CallsKnown
    /\ RowsKnown
    /\ OutcomesKnown
    /\ SeedsKnown
    /\ OpsKnown

-----------------------------------------------------------------------------
(***************************************************************************)
(* What the repository says and the code does not do.                      *)
(***************************************************************************)

\* "Mirror the delete_zillow status onto the linked scheduled listing."
RemovalMirrorsStatus ==
    \A l \in Listings :
      removed[l] <=> \E d \in created : /\ ListingOf[d] = l
                                        /\ deals[d].status = DeleteZillow

=============================================================================
