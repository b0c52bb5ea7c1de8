----------------------------- MODULE CoreLedger -----------------------------
(***************************************************************************)
(* Settlement of one execution in the Core execution ledger: the claim of  *)
(* the head (CoreExecutionHead.settle_ledger), the three attempts of       *)
(* CoreExecutionLedger.append, and the insertion in the database, whose    *)
(* execution_id column is unique.  The tasks that may settle (the turn     *)
(* that finished, the handlers of its failure, its cancellation and its    *)
(* deadline) run concurrently: append awaits.                              *)
(***************************************************************************)
EXTENDS Naturals

CONSTANTS
    Settlers,     \* tasks that try to settle the execution
    MaxAttempts,  \* attempts of one append (3 in the code)
    None          \* no terminal event, no row

Endings        == {"completed", "failed", "cancelled"}
LedgerStatuses == Endings \cup {"aborted"}

(* What is written: the status, and whether the execution had a terminal   *)
(* event when the record was prepared (history, kept for the properties).  *)
Records == [status : LedgerStatuses, evident : BOOLEAN]

ASSUME MaxAttemptsAssumption == MaxAttempts \in Nat \ {0}
ASSUME NoneAssumption == None \notin Endings \cup Records

VARIABLES
    terminal,  \* kind of the execution's terminal event, or None
    settled,   \* CoreExecutionHead._ledger_settled
    settler,   \* the settling tasks
    row        \* the execution's row in core_execution_records, or None

ledgerVars == <<terminal, settled, settler, row>>

(* ledger_status: what the row says of a terminal event.                   *)
LedgerStatus(kind, userAborted) ==
    IF kind = "cancelled" /\ userAborted THEN "aborted" ELSE kind

(* Slips the runs must notice are written before the operator they distort, *)
(* under names that begin with "Slip"; no operator of the model uses them.  *)

(* prepare_ledger_preparation: the terminal event wins; the fallback is    *)
(* for executions that ended before one could be recorded.                 *)
Preparations ==
    IF terminal = None
    THEN [status : LedgerStatuses, evident : {FALSE}]
    ELSE [status : {LedgerStatus(terminal, aborted) : aborted \in BOOLEAN}, evident : {TRUE}]

(* A settler: idle, appending (an attempt is at the database), in backoff  *)
(* between attempts, or returned with a result.                            *)
Idle == [pc |-> "idle", attempt |-> 0, record |-> None, result |-> None]

Busy(t) == settler[t].pc \in {"appending", "backoff"}

Returned(t, result) ==
    [settler EXCEPT ![t] =
        [pc |-> "returned", attempt |-> 0, record |-> None, result |-> result]]

-----------------------------------------------------------------------------
LedgerInit ==
    /\ terminal = None
    /\ settled = FALSE
    /\ settler = [t \in Settlers |-> Idle]
    /\ row = None

(* The Core Head records the one terminal event (module CoreExecution).    *)
End(kind) ==
    /\ terminal = None
    /\ terminal' = kind
    /\ UNCHANGED <<settled, settler, row>>

(* settle_ledger finds the claim taken: it returns None at once.           *)
SettleRefused(t) ==
    /\ ~Busy(t)
    /\ settled
    /\ settler' = Returned(t, "already")
    /\ UNCHANGED <<terminal, settled, row>>

(* settle_ledger claims the slot and awaits the append.                    *)
SettleClaimed(t) ==
    /\ ~Busy(t)
    /\ ~settled
    /\ settled' = TRUE
    /\ \E p \in Preparations :
          settler' = [settler EXCEPT ![t] =
                        [pc |-> "appending", attempt |-> 1, record |-> p, result |-> None]]
    /\ UNCHANGED <<terminal, row>>

(* The insertion writes over a row that is there.                          *)
SlipAppendReturns(t) ==
    /\ settler[t].pc = "appending"
    /\ row' = settler[t].record
    /\ settler' = Returned(t, "inserted")
    /\ UNCHANGED <<terminal, settled>>

(* The insertion commits, or meets the unique column and returns False.    *)
AppendReturns(t) ==
    /\ settler[t].pc = "appending"
    /\ row' = IF row = None THEN settler[t].record ELSE row
    /\ settler' = Returned(t, IF row = None THEN "inserted" ELSE "duplicate")
    /\ UNCHANGED <<terminal, settled>>

(* OperationalError: the transaction is rolled back and tried again later. *)
AppendBusy(t) ==
    /\ settler[t].pc = "appending"
    /\ settler[t].attempt < MaxAttempts
    /\ settler' = [settler EXCEPT ![t].pc = "backoff"]
    /\ UNCHANGED <<terminal, settled, row>>

Retry(t) ==
    /\ settler[t].pc = "backoff"
    /\ settler' = [settler EXCEPT ![t].pc = "appending", ![t].attempt = @ + 1]
    /\ UNCHANGED <<terminal, settled, row>>

(* OperationalError at the last attempt: the claim is released, the error  *)
(* raised.                                                                 *)
AppendFails(t) ==
    /\ settler[t].pc = "appending"
    /\ settler[t].attempt = MaxAttempts
    /\ settled' = FALSE
    /\ settler' = Returned(t, "raised")
    /\ UNCHANGED <<terminal, row>>

SlipCancelKeepsClaim(t) ==
    /\ Busy(t)
    /\ settler' = Returned(t, "raised")
    /\ \/ UNCHANGED row
       \/ settler[t].pc = "appending" /\ row = None /\ row' = settler[t].record
    /\ UNCHANGED <<terminal, settled>>

(* The task is cancelled while it awaits: an attempt under way may have    *)
(* been committed or not, and the claim is released either way.            *)
CancelSettler(t) ==
    /\ Busy(t)
    /\ settled' = FALSE
    /\ settler' = Returned(t, "raised")
    /\ \/ UNCHANGED row
       \/ settler[t].pc = "appending" /\ row = None /\ row' = settler[t].record
    /\ UNCHANGED terminal

SettlerStep(t) ==
    \/ SettleRefused(t) \/ SettleClaimed(t)
    \/ AppendReturns(t) \/ AppendBusy(t) \/ Retry(t) \/ AppendFails(t) \/ CancelSettler(t)

LedgerNext ==
    \/ \E kind \in Endings : End(kind)
    \/ \E t \in Settlers : SettlerStep(t)

LedgerSpec == LedgerInit /\ [][LedgerNext]_ledgerVars

(* The database answers every attempt, one way or the other, and a backoff *)
(* ends; nobody is obliged to settle.                                      *)
LedgerFairSpec ==
    LedgerSpec /\ \A t \in Settlers :
              WF_ledgerVars(AppendReturns(t) \/ AppendBusy(t) \/ AppendFails(t) \/ Retry(t))

-----------------------------------------------------------------------------
LedgerTypeOK ==
    /\ terminal \in Endings \cup {None}
    /\ settled \in BOOLEAN
    /\ settler \in [Settlers ->
                      [pc : {"idle", "appending", "backoff", "returned"},
                       attempt : 0..MaxAttempts,
                       record : Records \cup {None},
                       result : {None, "inserted", "duplicate", "already", "raised"}]]
    /\ row \in Records \cup {None}

(* The claim excludes: two tasks never append for one execution, although  *)
(* it is released by every failure and taken again by whoever comes next.  *)
OneAppender == \A t, u \in Settlers : Busy(t) /\ Busy(u) => t = u

(* The slot is never left claimed by nobody: it is taken exactly while a   *)
(* task appends or after the row was stored, so a failed attempt can       *)
(* always be made good by a later one.                                     *)
ClaimIsHeldOrStored ==
    /\ \A t \in Settlers : Busy(t) => settled
    /\ settled => row # None \/ \E t \in Settlers : Busy(t)

(* The row of an execution that had ended when it was prepared says how it *)
(* ended, even when it is stored by a retry after other outcomes of the    *)
(* same turn were reported (a terminal event wins over the fallback).      *)
StoredIsEvident ==
    row # None /\ row.evident =>
        terminal # None /\ row.status \in {LedgerStatus(terminal, a) : a \in BOOLEAN}

(* A stored row is never replaced, whatever is retried after an insertion  *)
(* that was committed but whose answer was lost.                           *)
RowIsFinal == [][row # None => row' = row]_ledgerVars

(* Every settlement returns: the attempts are bounded.                     *)
SettlementReturns == \A t \in Settlers : Busy(t) ~> ~Busy(t)

(* What settle_ledger says of its None result: "another caller already     *)
(* settled this execution".                                                *)
AlreadyMeansStored ==
    \A t \in Settlers : settler[t].result = "already" => row # None

=============================================================================
