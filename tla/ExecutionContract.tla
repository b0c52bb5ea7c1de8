------------------------- MODULE ExecutionContract -------------------------
(***************************************************************************)
(* What the Core Head promises about one execution, whoever calls it and in *)
(* whatever order: it runs once, every keyed fact about it is established  *)
(* at most once and never withdrawn, it ends at most once and with one     *)
(* outcome, and nothing is established after the end.                      *)
(***************************************************************************)
CONSTANTS
    Reports,   \* the keyed facts a running execution may establish
    Begun,     \* the fact that establishes that it runs
    Completed, \* the outcome only a running execution can have
    Aborts     \* the outcomes any unfinished execution can have

VARIABLES
    phase,  \* pending, running or ended
    facts   \* the keyed facts established so far

contractVars == <<phase, facts>>

ContractInit == phase = "pending" /\ facts = {}

Begin ==
    /\ phase = "pending"
    /\ phase' = "running"
    /\ facts' = facts \cup {Begun}

Report(f) ==
    /\ phase = "running" /\ f \notin facts
    /\ facts' = facts \cup {f}
    /\ UNCHANGED phase

(* An artifact that is reported together with the completion comes with it. *)
EndCompleted(fs) ==
    /\ phase = "running"
    /\ phase' = "ended"
    /\ facts' = facts \cup fs \cup {Completed}

EndAborted(outcome) ==
    /\ phase # "ended"
    /\ phase' = "ended"
    /\ facts' = facts \cup {outcome}

ContractNext ==
    \/ Begin
    \/ \E f \in Reports : Report(f)
    \/ EndCompleted({}) \/ \E f \in Reports : EndCompleted({f})
    \/ \E outcome \in Aborts : EndAborted(outcome)

ContractSpec == ContractInit /\ [][ContractNext]_contractVars

=============================================================================
