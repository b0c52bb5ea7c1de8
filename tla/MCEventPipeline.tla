-------------------------- MODULE MCEventPipeline --------------------------
(***************************************************************************)
(* EventPipeline for the model checker: the talkers' handlers and agents   *)
(* yield as often as Most, with a result or without; those of the other    *)
(* events, which run beside them, end without a yield.                     *)
(***************************************************************************)
EXTENDS EventPipeline

CONSTANTS
    Talkers,   \* events whose handlers and agent yield
    Most       \* bound of the model: their yields

YieldsOf == [e \in Events |-> IF e \in Talkers THEN Most ELSE 0]

=============================================================================
