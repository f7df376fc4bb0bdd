----------------------------- MODULE MCProcessLog -----------------------------
(***************************************************************************)
(* Model-checking instance of ProcessLog: arbitrary callers.               *)
(***************************************************************************)
EXTENDS LogHistory, TLC

TxSymmetry == Permutations(Txs)
Symmetry == Permutations(Txs) \cup Permutations(Subjects)
PayloadSymmetry == Permutations(Txs) \cup Permutations(Payloads)

=============================================================================
