-------------------------- MODULE MCTurnAdmission --------------------------
(***************************************************************************)
(* TurnAdmission for the model checker: of the turns named, at most        *)
(* MaxArrivals come.  Arriving is not a fair step, so the bound takes no   *)
(* fair step away: the other turns simply never come.                      *)
(***************************************************************************)
EXTENDS TurnAdmission

CONSTANT MaxArrivals   \* bound of the model: turns that come in one run

FewArrive == Cardinality({t \in Turns : turn[t].pc # "new"}) <= MaxArrivals

=============================================================================
