---------------------------- MODULE MCDiscussions ----------------------------
(***************************************************************************)
(* Model-checking instances of Discussions.                                *)
(***************************************************************************)
EXTENDS Discussions, TLC

AllSymmetry == Permutations(Txs) \cup Permutations(Deals) \cup Permutations(Users)

=============================================================================
