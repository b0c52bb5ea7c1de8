-------------------------- MODULE MCCronRevisions --------------------------
(***************************************************************************)
(* CronRevisions for the model checker: at most MaxChanges reschedules and *)
(* shutdowns in one run.  Neither is a fair step, so the bound takes no    *)
(* fair step away.                                                         *)
(***************************************************************************)
EXTENDS CronRevisions

CONSTANT MaxChanges   \* bound of the model: reschedules and shutdowns together

FewChanges == row.rev + stops <= MaxChanges

=============================================================================
