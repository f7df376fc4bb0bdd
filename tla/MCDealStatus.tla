----------------------------- MODULE MCDealStatus -----------------------------
(***************************************************************************)
(* Model-checking instances of DealStatus.                                 *)
(***************************************************************************)
EXTENDS DealHistory, TLC

CONSTANTS l1, l2

TxSymmetry == Permutations(Txs)
TxActorSymmetry == Permutations(Txs) \cup Permutations(Actors)

\* Deals of any status nobody works on, those that can only reach a status by
\* a move, and deals of one status with any analyst.
UnassignedDeals == [status : Statuses \cup {None}, analyst : {None}, approver : {None}]
NewDeals == [status : {TemplateGenerated, None}, analyst : {None}, approver : {None}]
TemplateDeals == [status : {TemplateGenerated}, analyst : Actors \cup {None},
                  approver : {None}]

\* Manual deals: no linked listing.
Unlinked == [d \in Subjects |-> None]

\* Each deal has a listing of its own.
OwnListing == [d \in Subjects |-> IF d = 1 THEN l1 ELSE l2]

\* Every deal is a version of the same listing.
SameListing == [d \in Subjects |-> l1]

=============================================================================
