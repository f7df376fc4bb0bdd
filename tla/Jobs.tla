-------------------------------- MODULE Jobs --------------------------------
(***************************************************************************)
(* The jobs table and the background tasks that work through it: a trigger *)
(* stores a queued row and schedules run_batch_job, which opens a session  *)
(* of its own, saves a draft deal for each recent listing and records the  *)
(* outcome on the row.  A statement may fail and the process may be        *)
(* restarted, which forgets every scheduled task and keeps every row.      *)
(***************************************************************************)
EXTENDS Nulls, FiniteSetsExt, SequencesExt, Integers
CONSTANTS
    Triggers,      \* job -> [type, key, since, limit]
    Listings,       \* the listings: a set of [zpid, url, market, preset, active, created, data]
    Underwritten,  \* the deals before: a set of [zpid, url, by]
    MaxFaults,     \* bound: statements that fail
    MaxRestarts    \* bound: restarts of the process

\* A row of jobs, and the report it holds.
EntryStatuses == {"saved", "skipped_existing", "skipped_no_purchase_price", "failed"}
Report == Seq([zpid : Int, status : EntryStatuses])
JobRow == [status : {"queued", "running", "succeeded", "failed"}, found : Nat,
           results : Report, error : {"raised", "expired", None}]

\* NULL is no row, zpid is the primary key of the listings, a limit is a number.
ASSUME JobsAssumption ==
    /\ None \notin JobRow
    /\ IsFiniteSet(Listings)
    /\ \A x, y \in Listings : x.zpid = y.zpid => x = y
    /\ \A x \in Listings : x.zpid \in Int /\ x.created \in Int
    /\ \A j \in DOMAIN Triggers : Triggers[j].limit = None \/ Triggers[j].limit \in Nat

VARIABLES
    jobs,       \* the rows: job -> None or [status, found, results, error]
    task,       \* the background task of each job: [at, todo, results, rate, conn, pending]
    saved,      \* the committed deals
    faults, restarts,
    lost        \* history: the jobs a restart or a failed status write hit

jobVars == <<jobs, task, saved, faults, restarts, lost>>
----------------------------------------------------------------------------
Batch(j) == Triggers[j].type

\* get_active_since, get_active_since_by_market and get_active_since_by_preset.
Newer(a, b) == a.created > b.created \/ (a.created = b.created /\ a.zpid < b.zpid)
Sought(j) ==
    LET t == Triggers[j]
    IN  {x \in Listings :
            /\ x.active /\ x.created >= t.since
            /\ t.type = "batch_prepare_by_market" => x.market = t.key
            /\ t.type = "batch_prepare_by_preset" => x.preset = t.key}
\* The newest first, up to the limit.
Rank(j, x) == Cardinality({y \in Sought(j) : Newer(y, x)})
FoundBy(j) ==
    LET limit == Triggers[j].limit
        sought == Cardinality(Sought(j))
        count == IF limit = None \/ sought <= limit THEN sought ELSE limit
    IN  [i \in 1 .. count |-> CHOOSE x \in Sought(j) : Rank(j, x) = i - 1]

\* _find_existing: a deal with the zpid, or one made from the listing's URL.
ExistingFor(x) == {d \in saved : d.zpid = x.zpid \/ (x.url # None /\ d.url = x.url)}

\* batch_all copies the zpids before the loop; the others read them off the rows.
CopiesZpids(j) == Batch(j) = "batch_prepare_all"

Idle == [at |-> "none", todo |-> <<>>, results |-> <<>>, rate |-> "unset",
         conn |-> "none", pending |-> {}]
RolledBack(t) == [t EXCEPT !.conn = "none", !.pending = {}]
Unpinned(t) == RolledBack(t)
Entry(x, status) == [zpid |-> x.zpid, status |-> status]

JobsInit ==
    /\ jobs = [j \in DOMAIN Triggers |-> None]
    /\ task = [j \in DOMAIN Triggers |-> Idle]
    /\ saved = Underwritten
    /\ faults = 0 /\ restarts = 0 /\ lost = {}

Fault == faults < MaxFaults /\ faults' = faults + 1
Set(j, t) == task' = [task EXCEPT ![j] = t]
\* An UPDATE of the row by id: it matches nothing when the row is not there.
Mark(j, fields) ==
    jobs' = [jobs EXCEPT ![j] = IF @ = None THEN None
        ELSE [f \in DOMAIN @ |-> IF f \in DOMAIN fields THEN fields[f] ELSE @[f]]]
----------------------------------------------------------------------------
Enqueue_TaskFirst(j) ==
    \/ /\ jobs[j] = None /\ task[j].at = "none" /\ j \notin lost
       /\ Set(j, [task[j] EXCEPT !.at = "start"]) /\ UNCHANGED jobs
    \/ /\ jobs[j] = None /\ task[j].at # "none"
       /\ jobs' = [jobs EXCEPT ![j] =
                      [status |-> "queued", found |-> 0, results |-> <<>>, error |-> None]]
       /\ UNCHANGED task
\* _enqueue, up to its commit: the row is durable before the task is scheduled.
Enqueue(j) ==
    /\ jobs[j] = None
    /\ jobs' = [jobs EXCEPT ![j] =
                   [status |-> "queued", found |-> 0, results |-> <<>>, error |-> None]]
    /\ Set(j, [task[j] EXCEPT !.at = "start"])

\* mark_running is outside the try: its failure ends the task.
Start(j) ==
    /\ task[j].at = "start"
    /\ \/ /\ Mark(j, [status |-> "running"])
          /\ Set(j, [task[j] EXCEPT !.at = "warm"])
          /\ UNCHANGED <<faults, lost>>
       \/ /\ Fault /\ Set(j, [Idle EXCEPT !.at = "gone"])
          /\ lost' = lost \cup {j} /\ UNCHANGED jobs

\* get_30y_fixed_rate: a rate is kept for the batch, a failed fetch is not.
RateAfter_Uncached(rate) == {"set", "unset"}
RateAfter(rate) == IF rate = "set" THEN {"set"} ELSE {"set", "unset"}

\* The fetch before the first query; no transaction is open.
Warm(j) ==
    /\ task[j].at = "warm"
    /\ \E rate \in RateAfter(task[j].rate) : Set(j, [task[j] EXCEPT !.at = "list", !.rate = rate])
    /\ UNCHANGED <<jobs, faults, lost>>

ListListings(j) ==
    /\ task[j].at = "list"
    /\ \/ /\ Set(j, [task[j] EXCEPT !.at = "look", !.conn = "open", !.todo = FoundBy(j)])
          /\ UNCHANGED faults
       \/ Fault /\ Set(j, [task[j] EXCEPT !.at = "raised", !.conn = "aborted"])
    /\ UNCHANGED <<jobs, lost>>

NextListing(j, status) ==
    [task[j] EXCEPT !.todo = Tail(@), !.at = "look",
                    !.results = Append(@, Entry(Head(task[j].todo), status))]

\* The first half of PrepareAndSaveUnderwritingJob.run.
LookUp(j) ==
    /\ task[j].at = "look" /\ task[j].todo # <<>>
    /\ LET x == Head(task[j].todo)
           open == [task[j] EXCEPT !.conn = "open"]
       IN  \/ /\ \/ /\ ExistingFor(x) # {}
                    /\ Set(j, [NextListing(j, "skipped_existing") EXCEPT !.conn = "open"])
                 \/ /\ ExistingFor(x) = {}
                    /\ Set(j, [open EXCEPT !.at = "prepare"])
              /\ UNCHANGED faults
           \/ Fault /\ Set(j, [open EXCEPT !.at = "failed", !.conn = "aborted"])
    /\ UNCHANGED <<jobs, lost>>

\* Its second half, up to the save.  The rate is asked for with the transaction open.
Prepare(j) ==
    /\ task[j].at = "prepare"
    /\ LET x == Head(task[j].todo)
       IN  \E rate \in RateAfter(task[j].rate) :
             Set(j, CASE x.data = "broken"   -> [task[j] EXCEPT !.at = "failed", !.rate = rate]
                      [] x.data = "unpriced" -> [NextListing(j, "skipped_no_purchase_price")
                                                    EXCEPT !.rate = rate]
                      [] OTHER               -> [task[j] EXCEPT !.at = "save", !.rate = rate])
    /\ UNCHANGED <<jobs, faults, lost>>

SaveListing_Flush(j) ==
    /\ task[j].at = "save"
    /\ LET x == Head(task[j].todo)
       IN  Set(j, [NextListing(j, "saved") EXCEPT
                      !.pending = @ \cup {[zpid |-> x.zpid, url |-> x.url, by |-> j]}])
    /\ UNCHANGED <<jobs, saved, faults, lost>>
\* SaveUnderwritingService.save commits the deal on its own.
SaveListing(j) ==
    /\ task[j].at = "save"
    /\ LET x == Head(task[j].todo)
       IN  \/ /\ saved' = saved \cup task[j].pending
                                \cup {[zpid |-> x.zpid, url |-> x.url, by |-> j]}
              /\ Set(j, Unpinned(NextListing(j, "saved"))) /\ UNCHANGED faults
           \/ Fault /\ Set(j, [task[j] EXCEPT !.at = "failed", !.conn = "aborted"])
                    /\ UNCHANGED saved
    /\ UNCHANGED <<jobs, lost>>

\* The handler of a failed listing.  The rollback expires the loaded rows: reading the
\* zpid for the entry then raises, out of the loop.
FailListing(j) ==
    /\ task[j].at = "failed"
    /\ Set(j, IF CopiesZpids(j) THEN RolledBack(NextListing(j, "failed"))
                                ELSE [RolledBack(task[j]) EXCEPT !.at = "expired"])
    /\ UNCHANGED <<jobs, faults, lost>>

\* mark_succeeded, inside the try.
Succeed(j) ==
    /\ task[j].at = "look" /\ task[j].todo = <<>>
    /\ \/ /\ Mark(j, [status |-> "succeeded", found |-> Len(FoundBy(j)),
                      results |-> task[j].results])
          /\ saved' = saved \cup task[j].pending
          /\ Set(j, [Idle EXCEPT !.at = "gone"]) /\ UNCHANGED faults
       \/ Fault /\ Set(j, [task[j] EXCEPT !.at = "raised", !.conn = "aborted"])
                /\ UNCHANGED <<jobs, saved>>
    /\ UNCHANGED lost

Fail_NoRollback(j) ==
    /\ task[j].at \in {"raised", "expired"}
    /\ IF task[j].conn = "aborted" THEN UNCHANGED jobs
       ELSE Mark(j, [status |-> "failed", error |-> task[j].at])
    /\ Set(j, [Idle EXCEPT !.at = "gone"])
    /\ UNCHANGED <<faults, lost>>
\* The handler of run_batch_job: roll back, then mark_failed, which nothing catches.
Fail(j) ==
    /\ task[j].at \in {"raised", "expired"}
    /\ \/ /\ Mark(j, [status |-> "failed", error |-> task[j].at])
          /\ UNCHANGED <<faults, lost>>
       \/ Fault /\ lost' = lost \cup {j} /\ UNCHANGED jobs
    /\ Set(j, [Idle EXCEPT !.at = "gone"])

\* The process ends and starts again: the tasks lived in its memory only.
Restart ==
    /\ restarts < MaxRestarts /\ restarts' = restarts + 1
    /\ lost' = lost \cup {j \in DOMAIN task : task[j].at \notin {"none", "gone"}}
    /\ task' = [j \in DOMAIN task |->
                   IF j \in lost' THEN [Idle EXCEPT !.at = "gone"] ELSE task[j]]
    /\ UNCHANGED <<jobs, saved, faults>>

TaskStep(j) ==
    \/ SaveListing(j) \/ Succeed(j)
    \/ (Start(j) \/ Warm(j) \/ ListListings(j) \/ LookUp(j) \/ Prepare(j)
            \/ FailListing(j) \/ Fail(j)) /\ UNCHANGED saved
JobsNext ==
    \/ Restart
    \/ \E j \in DOMAIN Triggers :
          \/ Enqueue(j) /\ UNCHANGED <<saved, faults, lost, restarts>>
          \/ TaskStep(j) /\ UNCHANGED restarts

JobsSpec == JobsInit /\ [][JobsNext]_jobVars
----------------------------------------------------------------------------
Ended(j) == jobs[j] # None /\ jobs[j].status \in {"succeeded", "failed"}

\* What an entry of a report says of the listing it is for is so.
Told(j, i, entry) ==
    /\ entry.zpid = FoundBy(j)[i].zpid
    /\ entry.status = "saved" => \E d \in saved : d.zpid = entry.zpid /\ d.by = j
    /\ entry.status = "skipped_existing" => ExistingFor(FoundBy(j)[i]) # {}

\* A job that reports success accounts for every listing it found, in their order, and each
\* deal it claims to have saved, or to have found there, is committed; so the rollback of one
\* listing never takes back another's deal.
ReportsAreTrue ==
    \A j \in DOMAIN jobs : Ended(j) /\ jobs[j].status = "succeeded" =>
        LET report == jobs[j].results
        IN  /\ Len(report) = jobs[j].found
            /\ \A i \in DOMAIN report : Told(j, i, report[i])

\* A row stays queued or running for ever only when a restart or a failure of the status
\* write itself hit its job: an aborted transaction alone never leaves it so.
OnlyLostJobsStick ==
    \A j \in DOMAIN jobs :
        task[j].at = "gone" /\ ~Ended(j) => j \in lost

\* Whatever a job has committed, its row tells that the job began: no deal appears under a
\* job a poller still sees as queued or cannot see.
DealsComeFromBegunJobs ==
    \A d \in saved \ Underwritten : jobs[d.by] # None /\ jobs[d.by].status # "queued"

\* Once the rate is in, the batch never waits for FRED again, so no transaction is held open
\* across that call unless every fetch before it failed.
RateIsKept == [][\A j \in DOMAIN task :
    task[j].rate = "set" /\ task[j].at \notin {"gone"} /\ task'[j].at \notin {"gone"}
        => task'[j].rate = "set"]_task

\* The handler's comment says it rolls back "so the remaining listings run on a clean
\* session": a failed listing alone never ends a batch.
RemainingListingsRun ==
    \A j \in DOMAIN jobs : Ended(j) => jobs[j].error # "expired"

\* Every job accepted ends, unless a restart or a failed status write hits it.
EveryJobEnds == \A j \in DOMAIN Triggers : (jobs[j] # None) ~> (Ended(j) \/ j \in lost)

JobsTyped ==
    /\ DOMAIN jobs = DOMAIN Triggers /\ DOMAIN task = DOMAIN Triggers
    /\ \A j \in DOMAIN Triggers :
         /\ DOMAIN task[j] = DOMAIN Idle
         /\ task[j].pending = {}
         /\ jobs[j] \in JobRow \cup {None}

\* The row of a job follows its task, and outlives it with another status only if lost.
RowFollows(j) ==
    /\ jobs[j] = None <=> task[j].at = "none"
    /\ task[j].at = "start" => jobs[j].status = "queued"
    /\ task[j].at \notin {"none", "start", "gone"} => jobs[j].status = "running"
    /\ task[j].at = "gone" /\ ~Ended(j) => j \in lost
    /\ j \in lost => task[j].at = "gone"

\* The entries written and the listings left make up what was found, in its order.
Continues(done, todo, found) ==
    /\ done \in Report /\ todo \in Seq(Listings)
    /\ Len(done) + Len(todo) = Len(found)
    /\ \A i \in DOMAIN todo : todo[i] = found[Len(done) + i]

\* The report so far is true, and what is left to do continues it.
Working == {"look", "prepare", "save", "failed"}
ReportSoFar(j) ==
    /\ task[j].at \in {"none", "start", "warm", "list"} => task[j].results = <<>>
    /\ task[j].at \in Working =>
         /\ Continues(task[j].results, task[j].todo, FoundBy(j))
         /\ \A i \in DOMAIN task[j].results : Told(j, i, task[j].results[i])
    /\ task[j].at \in Working \ {"look"} => task[j].todo # <<>>

\* The inductive invariant of the jobs.
JobsInv ==
    /\ JobsTyped
    /\ \A j \in DOMAIN Triggers : RowFollows(j) /\ ReportSoFar(j)
    /\ ReportsAreTrue
    /\ \A d \in saved \ Underwritten : d.by \in DOMAIN Triggers
    /\ DealsComeFromBegunJobs

\* A job's row and its deals tell the same story, whatever fails and whenever the process
\* restarts, and the rate is fetched once. (run_batch_job and the three batches)
BatchSafety ==
    /\ []ReportsAreTrue
    /\ []OnlyLostJobsStick
    /\ []DealsComeFromBegunJobs
    /\ RateIsKept
=============================================================================
