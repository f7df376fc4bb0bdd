------------------------------ MODULE DealLedger ------------------------------
(***************************************************************************)
(* What the deal-status write path promises when every writer goes through *)
(* the log: a deal changes status and gains the matching history in one    *)
(* atomic step.  A deal older than the log gains its current status as the *)
(* first entry, by the backfill or by its first change.                    *)
(***************************************************************************)
EXTENDS Sequences

CONSTANTS Deals, Statuses, None

VARIABLES status, history

Init ==
    /\ status \in [Deals -> Statuses \cup {None}]
    /\ history = [d \in Deals |-> <<>>]

\* The history of d once its present status is in it.
Caught(d) ==
    IF history[d] = <<>> /\ status[d] # None THEN <<status[d]>> ELSE history[d]

Change(d, s) ==
    /\ s # status[d]
    /\ status' = [status EXCEPT ![d] = s]
    /\ history' = [history EXCEPT ![d] = Append(Caught(d), s)]

Seed(ds) ==
    /\ history' = [d \in Deals |-> IF d \in ds THEN Caught(d) ELSE history[d]]
    /\ UNCHANGED status

Next ==
    \/ \E d \in Deals, s \in Statuses : Change(d, s)
    \/ \E ds \in SUBSET Deals : Seed(ds)

Spec == Init /\ [][Next]_<<status, history>>

=============================================================================
