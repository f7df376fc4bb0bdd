------------------------------- MODULE Nulls -------------------------------
(* The absent value: NULL of a column, None of a field. *)
CONSTANT None
=============================================================================
