----------------------------- MODULE MCLiveness -----------------------------
(***************************************************************************)
(* Two components that must make progress, each in behaviours of its own:  *)
(* discussions and batch jobs.  They share no lock, so their interleavings *)
(* add nothing; "active" says which one this behaviour is about, and the   *)
(* other stays at its initial state.                                       *)
(***************************************************************************)
EXTENDS MCDiscussions

CONSTANTS
    Active,                         \* the components this instance steps
    MaxFaults, MaxRestarts          \* of Jobs

VARIABLES active, jobs, task, saved, faults, restarts, lost

\* A batch over all listings and one over those of a market: one that is saved, one
\* whose data cannot be read and one that is underwritten already.
Listing(zpid, data) ==
    [zpid |-> zpid, url |-> zpid, market |-> 7, preset |-> 7, active |-> TRUE,
     created |-> 1, data |-> data]
BatchTriggers ==
    <<[type |-> "batch_prepare_all", key |-> None, since |-> 1, limit |-> None],
      [type |-> "batch_prepare_by_market", key |-> 7, since |-> 1, limit |-> None]>>

Batches == INSTANCE Jobs WITH
    Triggers <- BatchTriggers,
    Listings <- {Listing(1, "ok"), Listing(2, "broken"), Listing(3, "ok")},
    Underwritten <- {[zpid |-> 3, url |-> None, by |-> 0]}

jobVars == <<jobs, task, saved, faults, restarts, lost>>
liveVars == <<active, vars, jobVars>>

LiveInit == active \in Active /\ Init /\ Batches!JobsInit

\* A step of one component is a step of the whole while that component is active.
Talking(A) == active = "discussions" /\ A /\ UNCHANGED <<active, jobVars>>
Batching(A) == active = "jobs" /\ A /\ UNCHANGED <<active, vars>>

LiveNext == Talking(Next) \/ Batching(Batches!JobsNext)

(***************************************************************************)
(* The fairness of each component: an open request and the coroutine of a  *)
(* job go on.  Nothing has to arrive, fail or be restarted.                *)
(***************************************************************************)
LiveSpec ==
    /\ LiveInit /\ [][LiveNext]_liveVars
    /\ \A tx \in Txs : WF_liveVars(Talking(Proceed(tx)))
    /\ \A j \in DOMAIN BatchTriggers :
         WF_liveVars(Batching(Batches!TaskStep(j) /\ UNCHANGED restarts))

\* Every job accepted ends (run_batch_job), unless a restart or a failed status write hits it.
EveryJobEnds == Batches!EveryJobEnds
=============================================================================
