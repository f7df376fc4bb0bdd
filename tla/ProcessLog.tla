------------------------------ MODULE ProcessLog ------------------------------
(***************************************************************************)
(* The append-only status log of app/core/process_log: the tables          *)
(* process_log.transitions and process_log.snapshots, the constraints      *)
(* Postgres enforces on them, and the operations of ProcessLogService.     *)
(*                                                                         *)
(* The service never commits and takes no lock of its own: a caller runs   *)
(* its operations inside a transaction of the caller's.  In this module    *)
(* the callers are arbitrary: any transaction may record any transition of *)
(* any subject, at the isolation level the engine is configured with       *)
(* (READ COMMITTED: a statement sees what is committed, plus what its own  *)
(* transaction wrote).  DealStatus composes the same operations with the   *)
(* callers the repository has.                                             *)
(*                                                                         *)
(* A "subject" stands for the triple (subject_type, subject_id, flow).     *)
(* A transaction that inserts a key another open transaction has inserted  *)
(* waits for it to end, as a Postgres unique index makes it do.            *)
(***************************************************************************)
EXTENDS Integers, FiniteSets

CONSTANTS
    Subjects,       \* subjects whose status is logged
    Statuses,       \* status slugs (plain text, no CHECK on them)
    Payloads,       \* snapshot payloads, told apart by their hash
    Actors,         \* users a change can be attributed to
    CallerSources,  \* the sources the callers of record_transition pass
    Txs,            \* database transactions that can be open at once
    MaxRows,        \* bound: the identity sequence stops here
    None            \* SQL NULL

TransitionSource == {"api", "job", "backfill", "system"}

ASSUME NoneAssumption ==
    /\ None \notin Subjects /\ None \notin Statuses /\ None \notin Payloads
    /\ None \notin Actors /\ None \notin Txs
ASSUME SourcesAssumption == CallerSources \subseteq TransitionSource
ASSUME MaxRowsAssumption == MaxRows \in Nat

VARIABLES
    transitions,       \* committed rows of process_log.transitions
    snapshots,         \* committed rows of process_log.snapshots
    pending,           \* rows inserted by each transaction, uncommitted
    pendingSnapshots,  \* snapshots inserted by each transaction, uncommitted
    nextId,            \* the identity sequence of transitions.id
    call               \* progress of the record_transition of each transaction

logVars == <<transitions, snapshots, pending, pendingSnapshots, nextId, call>>

(***************************************************************************)
(* Rows.  previous_transition_id NULL is NoRow, below every identity       *)
(* value; a snapshot is identified by its (subject, payload_hash) key.     *)
(***************************************************************************)
NoRow == 0

Row == [id       : Nat \ {NoRow},
        subject  : Subjects,
        prev     : Nat,
        from     : Statuses \cup {None},
        to       : Statuses,
        source   : TransitionSource,
        actor    : Actors \cup {None},
        snapshot : Payloads \cup {None}]

Snapshot == Subjects \X Payloads

CallPc == {"idle", "repair", "snapshot", "append", "conflict", "rejected"}

Call == [pc       : CallPc,
         subject  : Subjects \cup {None},
         tail     : Nat,
         logged   : Statuses \cup {None},
         expected : Statuses \cup {None},
         to       : Statuses \cup {None},
         source   : TransitionSource,
         actor    : Actors \cup {None},
         snapshot : Payloads \cup {None}]

NoCall == [pc |-> "idle", subject |-> None, tail |-> NoRow, logged |-> None,
           expected |-> None, to |-> None, source |-> "system",
           actor |-> None, snapshot |-> None]

LogTypeOK ==
    /\ transitions \subseteq Row
    /\ snapshots \subseteq Snapshot
    /\ pending \in [Txs -> SUBSET Row]
    /\ pendingSnapshots \in [Txs -> SUBSET Snapshot]
    /\ nextId \in Nat \ {NoRow}
    /\ call \in [Txs -> Call]

LogInit ==
    /\ transitions = {}
    /\ snapshots = {}
    /\ pending = [tx \in Txs |-> {}]
    /\ pendingSnapshots = [tx \in Txs |-> {}]
    /\ nextId = 1
    /\ call = [tx \in Txs |-> NoCall]

-----------------------------------------------------------------------------
(***************************************************************************)
(* What the repository reads and what the database refuses.                *)
(***************************************************************************)
RowsOf(rows, s) == {r \in rows : r.subject = s}

Heads(rows, s) == {r \in RowsOf(rows, s) : r.prev = NoRow}

\* Mutant: the subject filter is missing.
Tails_AnySubject(rows, s) == {r \in rows : \A q \in rows : q.prev # r.id}

\* get_tail: the rows of the subject that no row follows.
Tails(rows, s) == {r \in RowsOf(rows, s) : \A q \in rows : q.prev # r.id}

\* Mutant: uncommitted rows of others are read.
Visible_Dirty(tx) == transitions \cup UNION {pending[t] : t \in Txs}

Visible(tx) == transitions \cup pending[tx]

\* Mutants: one of the two unique constraints is missing.
SameKey_HeadOnly(r, q) ==
    r.prev = NoRow /\ q.prev = NoRow /\ q.subject = r.subject
SameKey_PreviousOnly(r, q) == r.prev # NoRow /\ q.prev = r.prev

\* uq_transitions_previous and uq_transitions_head.
SameKey(r, q) ==
    \/ r.prev # NoRow /\ q.prev = r.prev
    \/ r.prev = NoRow /\ q.prev = NoRow /\ q.subject = r.subject

\* fk_transitions_previous, ck_transitions_head_has_no_from and
\* ck_transitions_changes_status.
Admissible(r, rows) ==
    /\ (r.prev = NoRow) <=> (r.from = None)
    /\ r.from # r.to
    /\ r.prev # NoRow =>
         \E p \in rows : p.id = r.prev /\ p.subject = r.subject /\ p.to = r.from

\* Mutant: keys of uncommitted rows are not respected.
InsertWaits_Never(tx, r) == FALSE

\* The insert waits for another open transaction that holds the same key.
InsertWaits(tx, r) ==
    \E other \in Txs \ {tx} : \E q \in pending[other] : SameKey(r, q)

SnapshotWaits(tx, snap) ==
    \E other \in Txs \ {tx} : snap \in pendingSnapshots[other]

\* Mutant: an uncommitted snapshot of another transaction is relied on.
StoreSnapshot_Relies(tx, snap) ==
    pendingSnapshots' =
      [pendingSnapshots EXCEPT
         ![tx] = IF SnapshotWaits(tx, snap) THEN @ ELSE @ \cup ({snap} \ snapshots)]

\* INSERT ... ON CONFLICT DO NOTHING of a snapshot.
StoreSnapshot(tx, snap) ==
    /\ ~SnapshotWaits(tx, snap)
    /\ pendingSnapshots' =
         [pendingSnapshots EXCEPT ![tx] = @ \cup ({snap} \ snapshots)]

SnapshotsSeen(tx) == snapshots \cup pendingSnapshots[tx]

(***************************************************************************)
(* insert_transition: flush the row; a violation of one of the two chain   *)
(* keys is a ConcurrentTransitionError, any other is passed on.  After     *)
(* either the database has aborted the transaction.  The identity value    *)
(* is spent whatever the outcome.                                          *)
(***************************************************************************)
InsertTransition(tx, r, done) ==
    /\ nextId <= MaxRows
    /\ ~InsertWaits(tx, r)
    /\ nextId' = nextId + 1
    /\ \/ /\ \E q \in Visible(tx) : SameKey(r, q)
          /\ call' = [call EXCEPT ![tx].pc = "conflict"]
          /\ UNCHANGED pending
       \/ /\ \A q \in Visible(tx) : ~SameKey(r, q)
          /\ ~Admissible(r, Visible(tx))
          /\ call' = [call EXCEPT ![tx].pc = "rejected"]
          /\ UNCHANGED pending
       \/ /\ \A q \in Visible(tx) : ~SameKey(r, q)
          /\ Admissible(r, Visible(tx))
          /\ pending' = [pending EXCEPT ![tx] = @ \cup {r}]
          /\ call' = [call EXCEPT ![tx] = done]
    /\ UNCHANGED <<transitions, snapshots, pendingSnapshots>>

-----------------------------------------------------------------------------
(***************************************************************************)
(* record_transition, one step per database round trip.                    *)
(***************************************************************************)

\* The tail the first query returns: some row no row follows, if any.
TailChoices(rows, s) ==
    IF Tails(rows, s) = {}
    THEN {[id |-> NoRow, to |-> None]}
    ELSE {[id |-> r.id, to |-> r.to] : r \in Tails(rows, s)}

\* Mutant: the snapshot is passed on without being stored.
AfterLink_Unstored(snapshot) == "append"

AfterLink(snapshot) == IF snapshot = None THEN "append" ELSE "snapshot"

\* Mutants: drift is not repaired; a cleared status is repaired like any other;
\* a cleared status ends the call.
Prologue_NoRepair(logged, expected, to, snapshot) ==
    [pc |-> AfterLink(snapshot), from |-> expected]
Prologue_RepairsNull(logged, expected, to, snapshot) ==
    [pc   |-> IF logged = expected THEN AfterLink(snapshot) ELSE "repair",
     from |-> expected]
Prologue_NullReturns(logged, expected, to, snapshot) ==
    CASE logged = expected -> [pc |-> AfterLink(snapshot), from |-> expected]
      [] logged # expected /\ expected # None -> [pc |-> "repair", from |-> expected]
      [] OTHER -> [pc |-> "idle", from |-> None]

\* Where the call goes on once it knows the tail, and from which status: a
\* disagreement is repaired, or adopted if the subject's status was cleared,
\* and then there may be nothing to add.
Prologue(logged, expected, to, snapshot) ==
    CASE logged = expected -> [pc |-> AfterLink(snapshot), from |-> expected]
      [] logged # expected /\ expected # None -> [pc |-> "repair", from |-> expected]
      [] logged # expected /\ expected = None /\ logged # to ->
           [pc |-> AfterLink(snapshot), from |-> logged]
      [] OTHER -> [pc |-> "idle", from |-> None]

\* A no-op is refused (ValueError); otherwise the tail is loaded.
RecordTransition(tx, s, expected, to, source, actor, snapshot) ==
    /\ call[tx].pc = "idle"
    /\ expected # to
    /\ \E tail \in TailChoices(Visible(tx), s) :
         LET stage == Prologue(tail.to, expected, to, snapshot)
         IN call' = IF stage.pc = "idle" THEN call
                    ELSE [call EXCEPT ![tx] =
                            [pc |-> stage.pc, subject |-> s, tail |-> tail.id,
                             logged |-> tail.to, expected |-> stage.from, to |-> to,
                             source |-> source, actor |-> actor,
                             snapshot |-> snapshot]]
    /\ UNCHANGED <<transitions, snapshots, pending, pendingSnapshots, nextId>>

\* Mutant: the repair row is not taken as the new tail.
RepairDrift_KeepsTail(tx) ==
    LET c == call[tx]
        r == [id |-> nextId, subject |-> c.subject, prev |-> c.tail,
              from |-> c.logged, to |-> c.expected, source |-> "system",
              actor |-> None, snapshot |-> None]
    IN /\ c.pc = "repair"
       /\ InsertTransition(tx, r, [c EXCEPT !.pc = AfterLink(c.snapshot)])

\* The "drift repair" row that bridges a gap in the log.
RepairDrift(tx) ==
    LET c == call[tx]
        r == [id |-> nextId, subject |-> c.subject, prev |-> c.tail,
              from |-> c.logged, to |-> c.expected, source |-> "system",
              actor |-> None, snapshot |-> None]
    IN /\ c.pc = "repair"
       /\ InsertTransition(tx, r,
            [c EXCEPT !.pc = AfterLink(c.snapshot), !.tail = nextId,
                      !.logged = c.expected])

\* _upsert_snapshot: ON CONFLICT DO NOTHING, then the existing row's id.
UpsertSnapshot(tx) ==
    /\ call[tx].pc = "snapshot"
    /\ StoreSnapshot(tx, <<call[tx].subject, call[tx].snapshot>>)
    /\ call' = [call EXCEPT ![tx].pc = "append"]
    /\ UNCHANGED <<transitions, snapshots, pending, nextId>>

\* The real row; the call returns.
AppendTransition(tx) ==
    LET c == call[tx]
        r == [id |-> nextId, subject |-> c.subject, prev |-> c.tail,
              from |-> c.expected, to |-> c.to, source |-> c.source,
              actor |-> c.actor, snapshot |-> c.snapshot]
    IN /\ c.pc = "append"
       /\ InsertTransition(tx, r, NoCall)

(***************************************************************************)
(* seed_heads: two statements for a batch of subjects, whose rows are      *)
(* inserted one after the other.  The first upserts the snapshots; the     *)
(* second inserts the heads, skipping the subjects that have one.          *)
(***************************************************************************)
SeedSnapshot(tx, s, payload) ==
    /\ call[tx].pc = "idle"
    /\ StoreSnapshot(tx, <<s, payload>>)
    /\ UNCHANGED <<transitions, snapshots, pending, nextId, call>>

\* Mutant: subjects that have a head are not skipped.
SeedHead_Always(tx, s, to, actor, payload) ==
    LET r == [id |-> nextId, subject |-> s, prev |-> NoRow, from |-> None,
              to |-> to, source |-> "backfill", actor |-> actor,
              snapshot |-> payload]
    IN /\ call[tx].pc = "idle" /\ nextId <= MaxRows
       /\ pending' = [pending EXCEPT ![tx] = @ \cup {r}]
       /\ nextId' = nextId + 1
       /\ UNCHANGED <<transitions, snapshots, pendingSnapshots, call>>

SeedHead(tx, s, to, actor, payload) ==
    LET r == [id |-> nextId, subject |-> s, prev |-> NoRow, from |-> None,
              to |-> to, source |-> "backfill", actor |-> actor,
              snapshot |-> payload]
    IN /\ call[tx].pc = "idle"
       /\ payload # None => <<s, payload>> \in SnapshotsSeen(tx)
       /\ nextId <= MaxRows
       /\ ~InsertWaits(tx, r)
       /\ pending' = [pending EXCEPT
                        ![tx] = IF Heads(Visible(tx), s) = {} THEN @ \cup {r} ELSE @]
       /\ nextId' = nextId + 1
       /\ UNCHANGED <<transitions, snapshots, pendingSnapshots, call>>

-----------------------------------------------------------------------------
(***************************************************************************)
(* The end of a caller's transaction.                                      *)
(***************************************************************************)
CommitLog(tx) ==
    /\ call[tx].pc = "idle"
    /\ transitions' = transitions \cup pending[tx]
    /\ snapshots' = snapshots \cup pendingSnapshots[tx]
    /\ pending' = [pending EXCEPT ![tx] = {}]
    /\ pendingSnapshots' = [pendingSnapshots EXCEPT ![tx] = {}]
    /\ UNCHANGED <<nextId, call>>

RollbackLog(tx) ==
    /\ pending' = [pending EXCEPT ![tx] = {}]
    /\ pendingSnapshots' = [pendingSnapshots EXCEPT ![tx] = {}]
    /\ call' = [call EXCEPT ![tx] = NoCall]
    /\ UNCHANGED <<transitions, snapshots, nextId>>

\* A step inside a record_transition that a caller has begun.
ContinueRecord(tx) == RepairDrift(tx) \/ UpsertSnapshot(tx) \/ AppendTransition(tx)

AnyRecord(tx) ==
    \E s \in Subjects, expected \in Statuses \cup {None}, to \in Statuses,
       source \in CallerSources, actor \in Actors \cup {None},
       snapshot \in Payloads \cup {None} :
         RecordTransition(tx, s, expected, to, source, actor, snapshot)

AnySeed(tx) ==
    \E s \in Subjects :
      \/ \E payload \in Payloads : SeedSnapshot(tx, s, payload)
      \/ \E to \in Statuses, actor \in Actors \cup {None},
            payload \in Payloads \cup {None} : SeedHead(tx, s, to, actor, payload)

LogNext ==
    \E tx \in Txs :
      \/ AnyRecord(tx)
      \/ ContinueRecord(tx)
      \/ AnySeed(tx)
      \/ CommitLog(tx)
      \/ RollbackLog(tx)

LogSpec == LogInit /\ [][LogNext]_logVars

-----------------------------------------------------------------------------
(***************************************************************************)
(* Properties.                                                             *)
(***************************************************************************)

\* The composite self-FK and the head CHECK: every committed row is a head
\* without a from_status, or follows an earlier row of its own subject whose
\* to_status is its from_status.
ChainLinked ==
    \A r \in transitions :
      /\ (r.prev = NoRow) <=> (r.from = None)
      /\ r.from # r.to
      /\ r.prev # NoRow =>
           \E p \in transitions :
             /\ p.id = r.prev /\ p.id < r.id
             /\ p.subject = r.subject /\ p.to = r.from

\* However transactions interleave, no committed row has two successors and
\* no subject has two heads.
NoFork ==
    \A r, q \in transitions :
      r.prev = q.prev /\ (r.prev # NoRow \/ r.subject = q.subject) => r = q

\* get_chain sorts by id and the analytics take the highest id for the latest
\* row: any later row of a subject is reached from an earlier one through a
\* direct successor that lies between them.
IdOrderIsChainOrder ==
    \A r, q \in transitions :
      r.subject = q.subject /\ r.id < q.id =>
        \E n \in transitions :
          n.subject = r.subject /\ n.prev = r.id /\ n.id <= q.id

\* get_tail uses scalar(): a subject with history has exactly one row that no
\* row follows, in the committed table and in what every transaction sees.
OneTail ==
    \A s \in Subjects :
      /\ \A r, q \in Tails(transitions, s) : r = q
      /\ \A tx \in Txs : \A r, q \in Tails(Visible(tx), s) : r = q

\* A conflict on a chain key is the only constraint violation the service can
\* run into: the rows it builds always satisfy the FK and the CHECKs, also
\* when it repairs drift or follows a tail the subject's status has left.
OnlyRacesFail == \A tx \in Txs : call[tx].pc # "rejected"

\* upsert_snapshot always finds the row it returns: a row never points to a
\* snapshot that its reader cannot see, whoever inserted it first.
SnapshotsPresent ==
    /\ \A r \in transitions : r.snapshot # None => <<r.subject, r.snapshot>> \in snapshots
    /\ \A tx \in Txs : \A r \in pending[tx] :
         r.snapshot # None => <<r.subject, r.snapshot>> \in SnapshotsSeen(tx)

-----------------------------------------------------------------------------
(***************************************************************************)
(* The inductive invariant behind the properties above.  It speaks of all  *)
(* rows, uncommitted ones included: at any moment they form one chain per  *)
(* subject, of which a single transaction may hold an uncommitted suffix.  *)
(***************************************************************************)
AllRows == transitions \cup UNION {pending[tx] : tx \in Txs}

\* Identity values are unique and not yet handed out.
IdsUnique ==
    /\ \A r \in AllRows : r.id < nextId
    /\ \A r, q \in AllRows : r.id = q.id => r = q

LinkedIn(r, rows) ==
    /\ (r.prev = NoRow) <=> (r.from = None)
    /\ r.from # r.to
    /\ r.prev # NoRow =>
         \E p \in rows : /\ p.id = r.prev /\ p.id < r.id
                         /\ p.subject = r.subject /\ p.to = r.from

\* A row is linked to rows its writer can see, down to the head.
RowsLinked ==
    /\ \A r \in transitions : LinkedIn(r, transitions)
    /\ \A tx \in Txs : \A r \in pending[tx] : LinkedIn(r, Visible(tx))

RowsHeaded ==
    /\ \A r \in transitions : Heads(transitions, r.subject) # {}
    /\ \A tx \in Txs : \A r \in pending[tx] : Heads(Visible(tx), r.subject) # {}

KeysUnique == \A r, q \in AllRows : SameKey(r, q) => r = q

RowsChained ==
    \A r, q \in AllRows :
      r.subject = q.subject /\ r.id < q.id =>
        \E n \in AllRows : n.subject = r.subject /\ n.prev = r.id /\ n.id <= q.id

\* The uncommitted rows of a subject belong to one transaction and follow all
\* its committed rows.
OneWriter ==
    /\ \A tx \in Txs : \A r \in pending[tx], q \in transitions :
         r.subject = q.subject => q.id < r.id
    /\ \A tx, other \in Txs : tx # other =>
         \A r \in pending[tx], q \in pending[other] : r.subject # q.subject

ChainInv ==
    /\ LogTypeOK
    /\ IdsUnique
    /\ RowsLinked
    /\ RowsHeaded
    /\ KeysUnique
    /\ RowsChained
    /\ OneWriter

\* A record_transition in progress knows the row it is going to follow.
CallLinked(c, rows) ==
    c.pc \in {"repair", "snapshot", "append"} =>
      /\ c.subject \in Subjects /\ c.to \in Statuses
      /\ c.expected # c.to
      /\ \/ c.tail = NoRow /\ c.logged = None
         \/ \E p \in rows : p.id = c.tail /\ p.subject = c.subject /\ p.to = c.logged
      /\ c.pc = "repair" => c.expected # None /\ c.expected # c.logged
      /\ c.pc # "repair" => c.expected = c.logged
      /\ c.pc = "snapshot" => c.snapshot # None

CallsLinked == \A tx \in Txs : CallLinked(call[tx], Visible(tx))

\* Snapshots are in place before the row that points to them.
CallsHaveSnapshot ==
    \A tx \in Txs :
      call[tx].pc = "append" /\ call[tx].snapshot # None =>
        <<call[tx].subject, call[tx].snapshot>> \in SnapshotsSeen(tx)

LogInv ==
    /\ ChainInv
    /\ CallsLinked
    /\ OnlyRacesFail
    /\ CallsHaveSnapshot
    /\ SnapshotsPresent

=============================================================================
