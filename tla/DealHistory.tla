------------------------------ MODULE DealHistory ------------------------------
(***************************************************************************)
(* The deal-status write path and its log as one ledger.                   *)
(***************************************************************************)
EXTENDS DealStatus, LogHistory

Ledger == INSTANCE DealLedger WITH
    Deals <- Subjects,
    status <- [d \in Subjects |-> deals[d].status],
    history <- [d \in Subjects |-> HistoryOf(d)]

\* Deal and log together behave like the ledger.
ImplementsLedger == Ledger!Spec

-----------------------------------------------------------------------------
(***************************************************************************)
(* Where no generic PATCH carries a status, an open request adds to the    *)
(* log what its own change accounts for, and nothing else.                 *)
(***************************************************************************)
Calling == {"repair", "snapshot", "append"}

\* The log agrees with the deal, or has nothing of it to disagree with.
CallExplained(o, c) ==
    o.pc = "logging" /\ c.pc \in Calling =>
      c.expected = o.previous /\ (c.pc = "repair" => c.logged = None)

\* A move adds its row, once, after a head for a deal that had none.
RowExplained(o, c, r) ==
    /\ o.pc = "heading" => r.from = None
    /\ o.pc = "logging" =>
         \/ r.source = "system" /\ r.from = None /\ r.to = o.previous
         \/ /\ r.source = "api" /\ r.from = o.previous /\ r.to = o.target
            /\ c.pc = "idle"

RowsExplained(o, c, mine) ==
    /\ \A r \in mine : RowExplained(o, c, r)
    /\ \A r, q \in mine :
         o.pc = "logging" /\ r.source = "api" /\ q.source = "api" => r = q

Explained(o, c, mine) == CallExplained(o, c) /\ RowsExplained(o, c, mine)

LogExplained == \A tx \in Txs : Explained(op[tx], call[tx], pending[tx])

\* A deal that is not saved yet has no status.
UnsavedBlank == \A d \in Subjects \ created : deals[d].status = None

LedgerInv == DriftInv /\ LogExplained /\ UnsavedBlank

=============================================================================
