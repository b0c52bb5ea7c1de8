-------------------------- MODULE MCCoreExecution --------------------------
(***************************************************************************)
(* CoreExecution for the model checker: runs whose ordered history stays   *)
(* within MaxEvents events.  No step of a subscriber lengthens the history, *)
(* so the bound takes no fair step away.                                   *)
(***************************************************************************)
EXTENDS CoreExecution

CONSTANT MaxEvents   \* bound of the model: events in the history of a run

ShortHistory == Len(session.events) <= MaxEvents

=============================================================================
