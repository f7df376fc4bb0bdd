-------------------------------- MODULE Markets --------------------------------
(***************************************************************************)
(* Markets, realtors and presets beside the opex tables.                   *)
(***************************************************************************)
EXTENDS OpexTables, MarketRecords

\* Opex tables, markets and realtors together: the parts OpexSafety and RecordSafety name,
\* about the rows every underwriting of a market is computed from.
MarketSafety == OpexSafety /\ RecordSafety
=============================================================================
