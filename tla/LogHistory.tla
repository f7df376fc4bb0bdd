------------------------------ MODULE LogHistory ------------------------------
(***************************************************************************)
(* The log as its readers see it: get_chain returns the committed rows of  *)
(* a subject ordered by id, and their to_status is the subject's history.  *)
(***************************************************************************)
EXTENDS ProcessLog

\* Rows have their place among others by id.
Place(rows, r) == Cardinality({q \in rows : q.id < r.id}) + 1

\* get_chain: ORDER BY id.
InOrder(rows) ==
    [i \in 1 .. Cardinality(rows) |-> CHOOSE r \in rows : Place(rows, r) = i]

StatusesOf(rows) == [i \in DOMAIN InOrder(rows) |-> InOrder(rows)[i].to]

\* What the chain of a subject reads as: its statuses, oldest first.
HistoryOf(s) == StatusesOf(RowsOf(transitions, s))

History == INSTANCE StatusHistory WITH history <- [s \in Subjects |-> HistoryOf(s)]

\* The committed log is an append-only status history.
ImplementsHistory == History!Spec

=============================================================================
