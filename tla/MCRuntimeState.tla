--------------------------- MODULE MCRuntimeState ---------------------------
(***************************************************************************)
(* RuntimeState for the model checker: every kind of fault may happen, but *)
(* at most MaxFaults of them in one run.  No fault is a fair step, so the  *)
(* bound takes no fair step away.                                          *)
(***************************************************************************)
EXTENDS RuntimeState

CONSTANT MaxFaults   \* bound of the model: faults of any kind in one run

Faults == used.evictions + used.failures + used.loads + used.cancels
            + used.restarts + used.shutdowns

FewFaults == Faults <= MaxFaults

=============================================================================
