-------------------------- MODULE MCCodexSessions --------------------------
(***************************************************************************)
(* CodexSessions for the model checker: a discard is not called while the  *)
(* failure of a process waits to be read, nor a process lost while one is  *)
(* under way.  Neither call nor crash is a fair step, so the bound takes   *)
(* no fair step away.                                                      *)
(***************************************************************************)
EXTENDS CodexSessions

OneTrouble ==
    janitor \in {"idle", "done"} \/ \A s \in Runs : NoRun \notin {inbox[s][i] : i \in DOMAIN inbox[s]}

=============================================================================
