--------------------------- MODULE TurnAdmission ---------------------------
(***************************************************************************)
(* Admission of turns to one Personal session runtime                      *)
(* (src/astrbot/core/interaction/personal_runtime.py): the gate that runs  *)
(* one turn at a time, the follow-up messages handed to the running Core   *)
(* execution, the interruption of that execution by a new message, and the *)
(* lease whose release opens the gate again.                               *)
(*                                                                         *)
(* A turn is a task of the event loop.  Code between two awaits is one     *)
(* step; every place where admit() or release() may sleep is a pc value.   *)
(*                                                                         *)
(* Slips the runs must notice are written before the operator they distort, *)
(* under names that begin with "Slip"; no operator of the model uses them. *)
(***************************************************************************)
EXTENDS Naturals, FiniteSets

CONSTANTS
    Messages,    \* platform messages: wait for the gate, interrupt a running Core
    Candidates,  \* stale group candidates: may follow up, never wait for the gate
    Internal,    \* runtime observation turns: wait like a message, never interrupt
    Delayed,     \* delayed plugin deliveries: give way to every waiting turn
    NoTurn

Turns == Messages \cup Candidates \cup Internal \cup Delayed

ASSUME KindsDisjointAssumption ==
    /\ Messages \cap (Candidates \cup Internal \cup Delayed) = {}
    /\ Candidates \cap (Internal \cup Delayed) = {}
    /\ Internal \cap Delayed = {}
ASSUME NoTurnAssumption == NoTurn \notin Turns
ASSUME TurnsAssumption  == IsFiniteSet(Turns)

VARIABLES
    turn,     \* per turn: pc, follow-up order (0: none) and ticket, outcome
    gate,     \* _TurnAdmissionGate: _active, _normal_waiters
    woken,    \* turns that a notify_all of the gate's condition has woken
    follow,   \* _FollowUpCoordinator: next_order, next_turn, statuses
    runtime   \* active turn, its Core execution, and what blocks cleanup

vars == <<turn, gate, woken, follow, runtime>>

-----------------------------------------------------------------------------
Orders == 1..Cardinality(Turns)

Normal(t) == t \in Messages \cup Internal

(* The turns that hold the gate: admitted, or acquired and backing out.    *)
Holding(t) == turn[t].pc \in {"active", "closing", "closed", "backout"}

Queued(t) == turn[t].pc = "queued"

(* cleanup_blocked, or has_blocked_output_target for another runtime of    *)
(* the same audience ("neighbour").                                        *)
Blocked(r) == r.cleanup \/ r.abort \/ r.abortUnknown \/ r.resourceUnknown \/ r.neighbour

Go(t, pc)          == [turn EXCEPT ![t].pc = pc]
Settle(t, outcome) == [turn EXCEPT ![t].pc = "settled", ![t].outcome = outcome]

-----------------------------------------------------------------------------
(* _FollowUpCoordinator: operators on its record.                          *)

(* _advance: skip every order that is consumed or finished.                *)
Advanced(f) ==
    LET done(o)  == f.status[o] \in {"consumed", "finished"}
        ready    == {n \in f.nextTurn..f.nextOrder :
                        \A o \in f.nextTurn..(n - 1) : done(o)}
        nextTurn == CHOOSE n \in ready : \A m \in ready : m <= n
    IN  [f EXCEPT !.nextTurn = nextTurn,
                  !.status = [o \in Orders |-> IF o < nextTurn THEN "none" ELSE f.status[o]]]

Marked(f, o, status) ==
    IF f.status[o] \in {"none", "finished"} THEN Advanced(f)
    ELSE Advanced([f EXCEPT !.status[o] = status])

Captured(f) == [f EXCEPT !.nextOrder = @ + 1, !.status[f.nextOrder] = "pending"]

(* finalize: an order that was activated is finished; one that was not and *)
(* is not yet marked counts as consumed.                                   *)
Finalized(f, t) ==
    IF turn[t].order = 0 THEN f
    ELSE Marked(f, turn[t].order, IF turn[t].activated THEN "finished" ELSE "consumed")

(* cancel_input reaches the body only while the execution is not terminal. *)
Withdrawn(t) ==
    IF turn[t].ticket = "pending" /\ runtime.core = "running" THEN "withdrawn"
    ELSE turn[t].ticket

-----------------------------------------------------------------------------
Fresh == [pc |-> "new", order |-> 0, activated |-> FALSE, ticket |-> "none", outcome |-> "none"]

Init ==
    /\ turn = [t \in Turns |-> Fresh]
    /\ gate = [active |-> FALSE, normalWaiters |-> 0]
    /\ woken = {}
    /\ follow = [nextOrder |-> 1, nextTurn |-> 1, status |-> [o \in Orders |-> "none"]]
    /\ runtime = [activeTurn |-> NoTurn, core |-> "none", abort |-> FALSE,
                  abortUnknown |-> FALSE, cleanup |-> FALSE, resourceUnknown |-> FALSE,
                  neighbour |-> FALSE]

(* admit refuses at once while earlier work is not known to be gone.       *)
ArriveBlocked(t) ==
    /\ turn[t].pc = "new"
    /\ Blocked(runtime)
    /\ turn' = Settle(t, "blocked")
    /\ UNCHANGED <<gate, woken, follow, runtime>>

(* The first half of acquire: a normal turn counts itself as a waiter; the *)
(* predicate is then evaluated for the first time (Acquire).               *)
Enqueued(t) == [gate EXCEPT !.normalWaiters = IF Normal(t) THEN @ + 1 ELSE @]

Interruptible ==
    /\ runtime.activeTurn # NoTurn
    /\ turn[runtime.activeTurn].pc = "active"
    /\ runtime.core = "running"

ArriveQueue(t) ==
    /\ turn[t].pc = "new" /\ t \notin Candidates
    /\ ~Blocked(runtime)
    /\ ~(t \in Messages /\ Interruptible)
    /\ turn' = Go(t, "queued")
    /\ gate' = Enqueued(t)
    /\ woken' = woken \cup {t}
    /\ UNCHANGED <<follow, runtime>>

(* _interrupt_active_core_turn_for_new_input: cancel the Core, cancel the  *)
(* turn's task and ask the platform to take back what it shows.            *)
ArriveInterrupt(t) ==
    /\ turn[t].pc = "new" /\ t \in Messages
    /\ ~Blocked(runtime)
    /\ Interruptible
    /\ turn' = Go(t, "aborting")
    /\ runtime' = [runtime EXCEPT !.core = "cancelled", !.abort = TRUE, !.abortUnknown = TRUE]
    /\ UNCHANGED <<gate, woken, follow>>

(* asyncio.wait ends, with the abort or with its time limit.               *)
AbortAwaited(t) ==
    /\ turn[t].pc = "aborting"
    /\ turn' = Go(t, "queued")
    /\ gate' = Enqueued(t)
    /\ woken' = woken \cup {t}
    /\ UNCHANGED <<follow, runtime>>

(* try_capture: the running body takes the message, or declines it (other  *)
(* actor, nothing to say, stopping).                                       *)
ArriveCaptured(t) ==
    /\ turn[t].pc = "new" /\ t \in Candidates
    /\ ~Blocked(runtime)
    /\ runtime.core = "running"
    /\ turn' = [turn EXCEPT ![t].pc = "captured", ![t].order = follow.nextOrder,
                            ![t].ticket = "pending"]
    /\ follow' = Captured(follow)
    /\ UNCHANGED <<gate, woken, runtime>>

ArriveUncaptured(t) ==
    /\ turn[t].pc = "new" /\ t \in Candidates
    /\ ~Blocked(runtime)
    /\ turn' = Go(t, "trying")
    /\ UNCHANGED <<gate, woken, follow, runtime>>

-----------------------------------------------------------------------------
(* Follow-ups: prepare, its monitor task, and the deadline.                *)

(* _monitor_ticket marks a consumed ticket before its turn notices.        *)
MonitorConsumed(t) ==
    /\ turn[t].pc = "captured" /\ turn[t].ticket = "consumed"
    /\ follow' = Marked(follow, turn[t].order, "consumed")
    /\ UNCHANGED <<turn, gate, woken, runtime>>

PrepareConsumed(t) ==
    /\ turn[t].pc = "captured" /\ turn[t].ticket = "consumed"
    /\ follow' = Marked(follow, turn[t].order, "consumed")
    /\ turn' = Settle(t, "consumed")
    /\ UNCHANGED <<gate, woken, runtime>>

(* The execution ended without it: the message becomes a turn of its own,  *)
(* in the order of capture.                                                *)
PrepareReturned(t) ==
    /\ turn[t].pc = "captured" /\ turn[t].ticket = "returned"
    /\ follow' = [follow EXCEPT !.status[turn[t].order] = "active"]
    /\ turn' = Go(t, "ordered")
    /\ UNCHANGED <<gate, woken, runtime>>

(* A capture that came back does not wait for those before it.             *)
SlipActivateAtOnce(t) ==
    /\ turn[t].pc = "ordered"
    /\ turn' = [turn EXCEPT ![t].pc = "trying", ![t].activated = TRUE]
    /\ UNCHANGED <<gate, woken, follow, runtime>>

ActivateInOrder(t) ==
    /\ turn[t].pc = "ordered"
    /\ follow.nextTurn = turn[t].order
    /\ turn' = [turn EXCEPT ![t].pc = "trying", ![t].activated = TRUE]
    /\ UNCHANGED <<gate, woken, follow, runtime>>

(* A waiter that gives up does not tell the others.                        *)
SlipNoNotify(t) ==
    /\ t \notin Delayed
    /\ turn[t].pc \in {"captured", "ordered", "queued"}
    /\ follow' = Finalized(follow, t)
    /\ turn' = [turn EXCEPT ![t].pc = "settled", ![t].outcome = "timeout",
                            ![t].ticket = Withdrawn(t)]
    /\ gate' = [gate EXCEPT !.normalWaiters = IF Queued(t) THEN @ - 1 ELSE @]
    /\ woken' = woken \ {t}
    /\ UNCHANGED runtime

(* The turn's deadline expires while it waits (deadline.enforce around the *)
(* queue): the capture is finalized, the waiter uncounted.                 *)
QueueDeadline(t) ==
    /\ t \notin Delayed
    /\ turn[t].pc \in {"captured", "ordered", "queued"}
    /\ follow' = Finalized(follow, t)
    /\ turn' = [turn EXCEPT ![t].pc = "settled", ![t].outcome = "timeout",
                            ![t].ticket = Withdrawn(t)]
    /\ gate' = [gate EXCEPT !.normalWaiters = IF Queued(t) THEN @ - 1 ELSE @]
    /\ woken' = IF Queued(t) THEN {u \in Turns : Queued(u) /\ u # t} ELSE woken
    /\ UNCHANGED runtime

-----------------------------------------------------------------------------
(* The gate.                                                               *)

MayPass(t) == ~gate.active /\ (t \in Delayed => gate.normalWaiters = 0)

(* The runtime is not looked at again after the wait.                      *)
SlipAdmitted(t) ==
    /\ turn' = Go(t, "active")
    /\ runtime' = [runtime EXCEPT !.activeTurn = t, !.core = "none"]

(* What follows the acquisition without an await: a turn of a blocked      *)
(* runtime backs out, any other becomes the active turn.                   *)
Admitted(t) ==
    IF Blocked(runtime)
    THEN turn' = Go(t, "backout") /\ UNCHANGED runtime
    ELSE /\ turn' = Go(t, "active")
         /\ runtime' = [runtime EXCEPT !.activeTurn = t, !.core = "none"]

(* A woken waiter takes the gate; a normal one uncounts itself and wakes   *)
(* the others.                                                             *)
Acquire(t) ==
    /\ Queued(t) /\ t \in woken
    /\ MayPass(t)
    /\ gate' = [active |-> TRUE,
                normalWaiters |-> gate.normalWaiters - (IF Normal(t) THEN 1 ELSE 0)]
    /\ woken' = IF Normal(t) THEN {u \in Turns : Queued(u) /\ u # t} ELSE woken \ {t}
    /\ Admitted(t)
    /\ UNCHANGED follow

(* A woken waiter finds its predicate false and sleeps again.              *)
SleepAgain(t) ==
    /\ Queued(t) /\ t \in woken
    /\ ~MayPass(t)
    /\ woken' = woken \ {t}
    /\ UNCHANGED <<turn, gate, follow, runtime>>

TryAcquire(t) ==
    /\ turn[t].pc = "trying"
    /\ ~gate.active /\ gate.normalWaiters = 0
    /\ gate' = [gate EXCEPT !.active = TRUE]
    /\ Admitted(t)
    /\ UNCHANGED <<woken, follow>>

SkipBusy(t) ==
    /\ turn[t].pc = "trying"
    /\ gate.active \/ gate.normalWaiters > 0
    /\ follow' = Finalized(follow, t)
    /\ turn' = Settle(t, "busy")
    /\ UNCHANGED <<gate, woken, runtime>>

(* notify instead of notify_all.                                           *)
SlipGateReleased ==
    /\ gate' = [gate EXCEPT !.active = FALSE]
    /\ LET queue == {u \in Turns : Queued(u)}
       IN  woken' \in IF queue = {} THEN {woken} ELSE {woken \cup {u} : u \in queue}

GateReleased ==
    /\ gate' = [gate EXCEPT !.active = FALSE]
    /\ woken' = {u \in Turns : Queued(u)}

(* The turn backs out and leaves the gate shut.                            *)
SlipBackOut(t) ==
    /\ turn[t].pc = "backout"
    /\ follow' = Finalized(follow, t)
    /\ turn' = Settle(t, "blocked")
    /\ UNCHANGED <<gate, woken, runtime>>

BackOut(t) ==
    /\ turn[t].pc = "backout"
    /\ follow' = Finalized(follow, t)
    /\ turn' = Settle(t, "blocked")
    /\ GateReleased
    /\ UNCHANGED runtime

-----------------------------------------------------------------------------
(* The active turn: its Core execution (module CoreExecution) and lease.   *)

Tickets(from, to) ==
    [t \in Turns |-> IF turn[t].ticket = from THEN [turn[t] EXCEPT !.ticket = to] ELSE turn[t]]

CoreStarts(t) ==
    /\ runtime.activeTurn = t /\ turn[t].pc = "active"
    /\ runtime.core = "none"
    /\ runtime' = [runtime EXCEPT !.core = "running"]
    /\ UNCHANGED <<turn, gate, woken, follow>>

(* _consume_follow_up_notice: a tool result carries every pending message. *)
CoreConsumes ==
    /\ runtime.core = "running"
    /\ \E t \in Turns : turn[t].ticket = "pending"
    /\ turn' = Tickets("pending", "consumed")
    /\ UNCHANGED <<gate, woken, follow, runtime>>

(* _resolve_unconsumed_follow_ups at the end of a run, also of one that    *)
(* noticed the stop request.                                               *)
CoreFinishes ==
    /\ runtime.core \in {"running", "cancelled"}
    /\ runtime' = [runtime EXCEPT !.core = "gone"]
    /\ turn' = Tickets("pending", "returned")
    /\ UNCHANGED <<gate, woken, follow>>

(* The task is cancelled inside the body (interruption, deadline, error):  *)
(* it unwinds without resolving its tickets, and nobody else will.         *)
CoreTornDown ==
    /\ runtime.core \in {"running", "cancelled"}
    /\ runtime' = [runtime EXCEPT !.core = "gone"]
    /\ turn' = Tickets("pending", "stranded")
    /\ UNCHANGED <<gate, woken, follow>>

(* PersonalTurnLease.release, up to the first await of scope.close().      *)
ReleaseLease(t) ==
    /\ turn[t].pc = "active"
    /\ runtime.core \in {"none", "gone"}
    /\ follow' = Finalized(follow, t)
    /\ turn' = Go(t, "closing")
    /\ UNCHANGED <<gate, woken, runtime>>

(* The scope is closed; tasks that did not end are tracked, and a resource *)
(* whose cleanup failed is remembered.                                     *)
ScopeClosed(t) ==
    /\ turn[t].pc = "closing"
    /\ \E pending, unknown \in BOOLEAN :
          runtime' = [runtime EXCEPT !.cleanup = @ \/ pending,
                                     !.resourceUnknown = @ \/ unknown]
    /\ turn' = Go(t, "closed")
    /\ UNCHANGED <<gate, woken, follow>>

(* The last block: settle the turn and open the gate.                      *)
LeaseReleased(t) ==
    /\ turn[t].pc = "closed"
    /\ runtime' = IF runtime.activeTurn = t
                  THEN [runtime EXCEPT !.activeTurn = NoTurn, !.core = "none"] ELSE runtime
    /\ turn' = Settle(t, "ran")
    /\ GateReleased
    /\ UNCHANGED follow

-----------------------------------------------------------------------------
(* What blocks the runtime, and what frees it.                             *)

AbortConfirmed ==
    /\ runtime.abort
    /\ runtime' = [runtime EXCEPT !.abort = FALSE, !.abortUnknown = FALSE]
    /\ UNCHANGED <<turn, gate, woken, follow>>

AbortFailed ==
    /\ runtime.abort
    /\ runtime' = [runtime EXCEPT !.abort = FALSE]
    /\ UNCHANGED <<turn, gate, woken, follow>>

(* A tracked cleanup task ends; a failed executor cleanup is remembered.   *)
CleanupEnds ==
    /\ runtime.cleanup
    /\ \E unknown \in BOOLEAN :
          runtime' = [runtime EXCEPT !.cleanup = FALSE, !.resourceUnknown = @ \/ unknown]
    /\ UNCHANGED <<turn, gate, woken, follow>>

NeighbourChanges ==
    /\ runtime' = [runtime EXCEPT !.neighbour = ~@]
    /\ UNCHANGED <<turn, gate, woken, follow>>

-----------------------------------------------------------------------------
Arrive(t) ==
    \/ ArriveBlocked(t) \/ ArriveQueue(t) \/ ArriveInterrupt(t)
    \/ ArriveCaptured(t) \/ ArriveUncaptured(t)

Proceed(t) ==
    \/ AbortAwaited(t)
    \/ PrepareConsumed(t) \/ PrepareReturned(t) \/ ActivateInOrder(t)
    \/ Acquire(t) \/ SleepAgain(t) \/ TryAcquire(t) \/ SkipBusy(t) \/ BackOut(t)
    \/ ReleaseLease(t) \/ ScopeClosed(t) \/ LeaseReleased(t)

CoreEnds == CoreFinishes \/ CoreTornDown

Next ==
    \/ \E t \in Turns :
          Arrive(t) \/ Proceed(t) \/ MonitorConsumed(t) \/ QueueDeadline(t) \/ CoreStarts(t)
    \/ CoreConsumes \/ CoreEnds
    \/ AbortConfirmed \/ AbortFailed \/ CleanupEnds \/ NeighbourChanges

Spec == Init /\ [][Next]_vars

(* The loop runs every task that can run, timers fire, and a Core run ends *)
(* at the latest when its turn's deadline cancels it.  Nothing else is     *)
(* assumed: the platform need not confirm an abort, cleanup need not end.  *)
FairSpec ==
    /\ Spec
    /\ \A t \in Turns : WF_vars(Proceed(t)) /\ WF_vars(QueueDeadline(t))
    /\ WF_vars(CoreEnds)

-----------------------------------------------------------------------------
(* Properties.                                                             *)

Pcs == {"new", "aborting", "captured", "ordered", "queued", "trying", "backout",
        "active", "closing", "closed", "settled"}

TypeOK ==
    /\ turn \in [Turns -> [pc : Pcs, order : 0..Cardinality(Turns), activated : BOOLEAN,
                 ticket  : {"none", "pending", "consumed", "returned", "withdrawn", "stranded"},
                 outcome : {"none", "blocked", "consumed", "timeout", "busy", "ran"}]]
    /\ gate \in [active : BOOLEAN, normalWaiters : 0..Cardinality(Turns)]
    /\ woken \subseteq Turns
    /\ follow \in [nextOrder : 1..(Cardinality(Turns) + 1),
                   nextTurn  : 1..(Cardinality(Turns) + 1),
                   status    : [Orders -> {"none", "pending", "active", "consumed", "finished"}]]
    /\ runtime \in [activeTurn : Turns \cup {NoTurn},
                    core : {"none", "running", "cancelled", "gone"},
                    abort : BOOLEAN, abortUnknown : BOOLEAN, cleanup : BOOLEAN,
                    resourceUnknown : BOOLEAN, neighbour : BOOLEAN]

(* The gate is shut exactly while one turn holds it: no second turn gets   *)
(* in, and no way out of admit() or release() leaves it shut behind it.    *)
OneTurnAtATime ==
    /\ gate.active <=> \E t \in Turns : Holding(t)
    /\ \A t, u \in Turns : Holding(t) /\ Holding(u) => t = u

(* _normal_waiters counts the normal turns inside acquire(), on every way  *)
(* out of it; a leftover count would starve delayed and candidate turns.   *)
WaitersCounted == gate.normalWaiters = Cardinality({t \in Turns : Queued(t) /\ Normal(t)})

(* A turn that could pass the open gate is never left asleep: while one    *)
(* exists, a turn that can pass is awake.                                  *)
NoLostWakeup ==
    (\E t \in Turns : Queued(t) /\ MayPass(t)) =>
        \E t \in woken : Queued(t) /\ MayPass(t)

(* A turn becomes active only on a clean runtime: whatever happened while  *)
(* it waited, no earlier Core execution, unconfirmed abort or unfinished   *)
(* cleanup is left (the check before the wait may be stale).               *)
StartsClean ==
    [][\A t \in Turns : turn[t].pc # "active" /\ turn'[t].pc = "active" =>
          /\ ~Blocked(runtime)
          /\ runtime.activeTurn = NoTurn /\ runtime.core = "none"]_vars

(* Delayed deliveries and group candidates never overtake a waiting turn.  *)
NormalFirst ==
    [][\A t \in Delayed \cup Candidates : ~Holding(t) /\ Holding(t)' =>
          \A u \in Turns : Normal(u) => ~Queued(u)]_vars

(* A message handed to the running body is not answered twice: once its    *)
(* ticket is consumed the message never becomes a turn of its own.         *)
HandledOnce ==
    \A t \in Turns : turn[t].ticket = "consumed" =>
        turn[t].pc \in {"captured", "settled"} /\ turn[t].outcome # "ran"

(* A body consumes a message only while that message's turn still waits    *)
(* for the answer: a withdrawn message is not acted upon later.            *)
ConsumedWhileWaiting ==
    [][\A t \in Turns : turn[t].ticket # "consumed" /\ turn'[t].ticket = "consumed" =>
          turn[t].pc = "captured"]_vars

(* Follow-ups that come back become turns in the order of their capture:   *)
(* when one is activated, every earlier one is consumed or over.           *)
FollowUpOrder ==
    \A t, u \in Turns :
        turn[t].activated /\ 0 < turn[u].order /\ turn[u].order < turn[t].order =>
            turn[u].ticket = "consumed" \/ turn[u].pc \in {"closing", "closed", "settled"}

(* No way out leaves an order behind: when no captured turn is in flight   *)
(* the coordinator is empty (is_idle), so that the runtime can be evicted. *)
FollowUpsDrain ==
    (\A t \in Turns : turn[t].order > 0 => turn[t].pc = "settled") =>
        \A o \in Orders : follow.status[o] = "none"

(* Every turn that arrives is settled: run, skipped, refused or timed out, *)
(* though nobody need confirm an abort or finish a cleanup.                *)
EveryTurnSettles == \A t \in Turns : turn[t].pc # "new" ~> turn[t].pc = "settled"

(* What docs/Yakumo/dev/internal-executor-replacement-implementation-      *)
(* guide.md asks of a body: a refusal, a cancellation or a close resolves  *)
(* every waiting ticket.  The native body resolves them only where a run   *)
(* ends by itself; a body torn down by its task leaves them pending.       *)
NoTicketOutlivesCore == \A t \in Turns : turn[t].ticket # "stranded"

=============================================================================
