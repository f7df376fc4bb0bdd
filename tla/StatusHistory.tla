----------------------------- MODULE StatusHistory -----------------------------
(***************************************************************************)
(* What the process log promises its readers: one history of statuses per  *)
(* subject, to which commits only ever append, and in which no status is   *)
(* followed by itself.                                                     *)
(***************************************************************************)
EXTENDS Sequences, SequencesExt, Integers

CONSTANTS Subjects, Statuses

VARIABLE history    \* the statuses each subject went through, oldest first

Init == history = [s \in Subjects |-> <<>>]

NoRepeats(h) == \A i \in 1 .. Len(h) - 1 : h[i] # h[i + 1]

\* A commit: some histories grow at their end.
Append_ ==
    \A s \in Subjects :
      /\ IsPrefix(history[s], history'[s])
      /\ NoRepeats(history'[s])

Spec == Init /\ [][Append_]_history

=============================================================================
