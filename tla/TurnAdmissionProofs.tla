------------------------ MODULE TurnAdmissionProofs ------------------------
(***************************************************************************)
(* Theorems about the admission of turns (module TurnAdmission), for every *)
(* set of messages, candidates, internal turns and delayed deliveries.     *)
(***************************************************************************)
EXTENDS TurnAdmission, Integers, FiniteSetTheorems, WellFoundedInduction, TLAPS

TurnStates ==
    [pc : Pcs, order : Nat, activated : BOOLEAN,
     ticket  : {"none", "pending", "consumed", "returned", "withdrawn", "stranded"},
     outcome : {"none", "blocked", "consumed", "timeout", "busy", "ran"}]

Gates == [active : BOOLEAN, normalWaiters : Int]

Runtimes ==
    [activeTurn : Turns \cup {NoTurn}, core : {"none", "running", "cancelled", "gone"},
     abort : BOOLEAN, abortUnknown : BOOLEAN, cleanup : BOOLEAN,
     resourceUnknown : BOOLEAN, neighbour : BOOLEAN]

(* The types the argument needs; of the coordinator's record only the next  *)
(* order matters, and the woken turns play no part in it.                  *)
Types ==
    /\ turn \in [Turns -> TurnStates] /\ gate \in Gates /\ runtime \in Runtimes
    /\ "nextOrder" \in DOMAIN follow /\ follow.nextOrder \in Nat

(* The active turn holds the gate, and a Core execution exists only for an *)
(* active turn.                                                            *)
Owned ==
    /\ runtime.activeTurn = NoTurn => runtime.core = "none"
    /\ runtime.activeTurn # NoTurn =>
          \/ turn[runtime.activeTurn].pc = "active"
          \/ /\ turn[runtime.activeTurn].pc \in {"closing", "closed"}
             /\ runtime.core \in {"none", "gone"}

(* A ticket that was not returned belongs to a message that waits or is    *)
(* settled; it is pending only while the body it was given to may answer,  *)
(* and only a cancelled body keeps the ticket of a settled message.        *)
TicketsOwned ==
    \A t \in Turns :
        /\ turn[t].outcome = "ran" => turn[t].pc = "settled"
        /\ turn[t].ticket \notin {"none", "returned"} =>
              turn[t].pc \in {"captured", "settled"} /\ turn[t].outcome # "ran"
        /\ turn[t].ticket = "pending" => runtime.core \in {"running", "cancelled"}
        /\ turn[t].ticket = "pending" /\ turn[t].pc # "captured" => runtime.core = "cancelled"

AdmissionInv == Types /\ OneTurnAtATime /\ Owned /\ TicketsOwned

-----------------------------------------------------------------------------
(* What Go and Settle do to the turns, turn by turn.                       *)
LEMMA GoTurns ==
    ASSUME turn \in [Turns -> TurnStates], NEW t \in Turns, NEW pc \in Pcs
    PROVE  /\ Go(t, pc) \in [Turns -> TurnStates]
           /\ Go(t, pc)[t].pc = pc /\ Go(t, pc)[t].ticket = turn[t].ticket
           /\ Go(t, pc)[t].outcome = turn[t].outcome
           /\ \A u \in Turns : u # t => Go(t, pc)[u] = turn[u]
  BY DEF Go, TurnStates

LEMMA SettleTurns ==
    ASSUME turn \in [Turns -> TurnStates], NEW t \in Turns,
           NEW outcome \in {"none", "blocked", "consumed", "timeout", "busy", "ran"}
    PROVE  /\ Settle(t, outcome) \in [Turns -> TurnStates]
           /\ Settle(t, outcome)[t].pc = "settled"
           /\ Settle(t, outcome)[t].ticket = turn[t].ticket
           /\ Settle(t, outcome)[t].outcome = outcome
           /\ \A u \in Turns : u # t => Settle(t, outcome)[u] = turn[u]
  BY SMTT(20), ZenonT(30) DEF Settle, TurnStates, Pcs

(* A turn without the gate that moves without taking it, while the runtime *)
(* stays as it is or loses its Core to a cancellation.                     *)
LEMMA MoveOutside ==
    ASSUME AdmissionInv, NEW t \in Turns,
           turn' \in [Turns -> TurnStates],
           \A u \in Turns : u # t => turn'[u] = turn[u],
           ~Holding(t), ~Holding(t)',
           turn'[t].outcome = "ran" => turn'[t].pc = "settled",
           turn'[t].ticket \notin {"none", "returned"} =>
               turn'[t].pc \in {"captured", "settled"} /\ turn'[t].outcome # "ran",
           turn'[t].ticket = "pending" => runtime.core \in {"running", "cancelled"},
           turn'[t].ticket = "pending" /\ turn'[t].pc # "captured" => runtime.core = "cancelled",
           gate' \in Gates, gate'.active = gate.active,
           "nextOrder" \in DOMAIN follow', follow'.nextOrder \in Nat,
           runtime' = runtime
    PROVE  AdmissionInv'
  <1>1. Types'
    BY DEF AdmissionInv, Types
  <1>2. \A u \in Turns : Holding(u)' <=> Holding(u)
    BY DEF Holding
  <1>3. OneTurnAtATime'
    BY <1>2 DEF AdmissionInv, OneTurnAtATime
  <1>4. Owned'
    BY DEF AdmissionInv, Types, Runtimes, Owned, Holding
  <1>5. TicketsOwned'
    BY DEF AdmissionInv, TicketsOwned
  <1> QED BY <1>1, <1>3, <1>4, <1>5 DEF AdmissionInv

(* The coordinator never takes back an order it gave.                      *)
LEMMA OrdersGiven ==
    ASSUME NEW f, "nextOrder" \in DOMAIN f, f.nextOrder \in Nat
    PROVE  /\ \A o, status : "nextOrder" \in DOMAIN Marked(f, o, status)
                             /\ Marked(f, o, status).nextOrder \in Nat
           /\ \A t : "nextOrder" \in DOMAIN Finalized(f, t) /\ Finalized(f, t).nextOrder \in Nat
           /\ \A o, status : "nextOrder" \in DOMAIN [f EXCEPT !.status[o] = status]
                             /\ [f EXCEPT !.status[o] = status].nextOrder \in Nat
           /\ "nextOrder" \in DOMAIN Captured(f) /\ Captured(f).nextOrder \in Nat
  <1>1. ASSUME NEW g, "nextOrder" \in DOMAIN g, g.nextOrder \in Nat
        PROVE  "nextOrder" \in DOMAIN Advanced(g) /\ Advanced(g).nextOrder \in Nat
    BY <1>1 DEF Advanced
  <1>2. \A o, status : "nextOrder" \in DOMAIN [f EXCEPT !.status[o] = status]
                       /\ [f EXCEPT !.status[o] = status].nextOrder \in Nat
    OBVIOUS
  <1>3. \A o, status : "nextOrder" \in DOMAIN Marked(f, o, status)
                       /\ Marked(f, o, status).nextOrder \in Nat
    BY <1>1, <1>2 DEF Marked
  <1>4. \A t : "nextOrder" \in DOMAIN Finalized(f, t) /\ Finalized(f, t).nextOrder \in Nat
    BY <1>3 DEF Finalized
  <1>5. "nextOrder" \in DOMAIN Captured(f) /\ Captured(f).nextOrder \in Nat
    BY DEF Captured
  <1> QED BY <1>2, <1>3, <1>4, <1>5

LEMMA EnqueuedGate ==
    ASSUME gate \in Gates, NEW t \in Turns
    PROVE  Enqueued(t) \in Gates /\ Enqueued(t).active = gate.active
  BY DEF Enqueued, Gates

LEMMA ArriveSteps ==
    ASSUME AdmissionInv, NEW t \in Turns, Arrive(t)
    PROVE  AdmissionInv'
  <1>1. /\ turn \in [Turns -> TurnStates] /\ gate \in Gates /\ runtime \in Runtimes
        /\ "nextOrder" \in DOMAIN follow /\ follow.nextOrder \in Nat
    BY DEF AdmissionInv, Types
  <1>2. turn[t].pc = "new"
    BY DEF Arrive, ArriveBlocked, ArriveQueue, ArriveInterrupt, ArriveCaptured, ArriveUncaptured
  <1>3. ~Holding(t) /\ turn[t].ticket \in {"none", "returned"} /\ turn[t].outcome # "ran"
    BY <1>2 DEF Holding, AdmissionInv, TicketsOwned
  <1>4. CASE ArriveBlocked(t)
    BY <1>1, <1>3, <1>4, SettleTurns, MoveOutside DEF ArriveBlocked, Holding
  <1>5. CASE ArriveQueue(t)
    <2>1. turn' = Go(t, "queued") /\ gate' = Enqueued(t) /\ follow' = follow /\ runtime' = runtime
      BY <1>5 DEF ArriveQueue
    <2>2. gate' \in Gates /\ gate'.active = gate.active
      BY <1>1, <2>1, EnqueuedGate
    <2>3. "queued" \in Pcs
      BY DEF Pcs
    <2> QED BY <1>1, <1>3, <2>1, <2>2, <2>3, GoTurns, MoveOutside DEF Holding
  <1>6. CASE ArriveInterrupt(t)
    <2> DEFINE a == runtime.activeTurn
    <2>1. /\ a \in Turns /\ turn[a].pc = "active" /\ a # t /\ runtime.core = "running"
          /\ turn' = Go(t, "aborting") /\ gate' = gate /\ follow' = follow
          /\ runtime' = [runtime EXCEPT !.core = "cancelled", !.abort = TRUE, !.abortUnknown = TRUE]
      BY <1>1, <1>2, <1>6 DEF ArriveInterrupt, Interruptible, Runtimes
    <2>2. runtime' \in Runtimes /\ runtime'.core = "cancelled" /\ runtime'.activeTurn = a
      BY <1>1, <2>1 DEF Runtimes
    <2>3. /\ turn' \in [Turns -> TurnStates] /\ turn'[t].pc = "aborting"
          /\ turn'[t].ticket = turn[t].ticket /\ turn'[t].outcome = turn[t].outcome
          /\ \A u \in Turns : u # t => turn'[u] = turn[u]
      BY <1>1, <2>1, GoTurns DEF Pcs
    <2> HIDE DEF a
    <2>4. OneTurnAtATime'
      BY <1>3, <2>1, <2>3 DEF AdmissionInv, OneTurnAtATime, Holding
    <2>5. Owned'
      BY <2>1, <2>2, <2>3, NoTurnAssumption DEF Owned
    <2>6. TicketsOwned'
      BY <1>3, <2>2, <2>3 DEF AdmissionInv, TicketsOwned
    <2> QED BY <1>1, <2>1, <2>2, <2>3, <2>4, <2>5, <2>6 DEF AdmissionInv, Types
  <1>7. CASE ArriveCaptured(t)
    <2>1. /\ turn' \in [Turns -> TurnStates]
          /\ turn'[t].pc = "captured" /\ turn'[t].outcome = turn[t].outcome
          /\ turn'[t].ticket = "pending"
          /\ \A u \in Turns : u # t => turn'[u] = turn[u]
      <3> DEFINE s == [turn[t] EXCEPT !.pc = "captured", !.order = follow.nextOrder,
                                      !.ticket = "pending"]
      <3>1. turn' = [turn EXCEPT ![t] = s]
        BY <1>1, <1>7 DEF ArriveCaptured
      <3>2. turn[t] \in TurnStates
        BY <1>1
      <3>3. s \in TurnStates /\ s.pc = "captured" /\ s.outcome = turn[t].outcome
            /\ s.ticket = "pending"
        BY <1>1, <3>2 DEF TurnStates, Pcs
      <3> HIDE DEF s
      <3> QED BY <1>1, <3>1, <3>3
    <2>2. "nextOrder" \in DOMAIN follow' /\ follow'.nextOrder \in Nat
      BY <1>1, <1>7, OrdersGiven DEF ArriveCaptured
    <2>3. gate' = gate /\ runtime' = runtime /\ runtime.core = "running"
      BY <1>7 DEF ArriveCaptured
    <2> QED BY <1>1, <1>3, <2>1, <2>2, <2>3, MoveOutside DEF Holding
  <1>8. CASE ArriveUncaptured(t)
    <2>1. turn' = Go(t, "trying") /\ gate' = gate /\ follow' = follow /\ runtime' = runtime
      BY <1>8 DEF ArriveUncaptured
    <2>2. "trying" \in Pcs
      BY DEF Pcs
    <2> QED BY <1>1, <1>3, <2>1, <2>2, GoTurns, MoveOutside DEF Holding
  <1> QED BY <1>4, <1>5, <1>6, <1>7, <1>8 DEF Arrive

(* Steps of a turn that waits: nobody takes or leaves the gate.            *)
LEMMA WaitSteps ==
    ASSUME AdmissionInv, NEW t \in Turns,
           \/ AbortAwaited(t) \/ PrepareConsumed(t) \/ PrepareReturned(t) \/ ActivateInOrder(t)
           \/ SleepAgain(t) \/ SkipBusy(t) \/ MonitorConsumed(t)
    PROVE  AdmissionInv'
  <1>1. /\ turn \in [Turns -> TurnStates] /\ gate \in Gates /\ runtime \in Runtimes
        /\ "nextOrder" \in DOMAIN follow /\ follow.nextOrder \in Nat
    BY DEF AdmissionInv, Types
  <1>2. /\ turn[t].outcome = "ran" => turn[t].pc = "settled"
        /\ turn[t].ticket \notin {"none", "returned"} =>
              turn[t].pc \in {"captured", "settled"} /\ turn[t].outcome # "ran"
        /\ turn[t].ticket = "pending" => runtime.core \in {"running", "cancelled"}
        /\ turn[t].ticket = "pending" /\ turn[t].pc # "captured" => runtime.core = "cancelled"
    BY DEF AdmissionInv, TicketsOwned
  <1>3. CASE AbortAwaited(t)
    <2>1. /\ turn[t].pc = "aborting" /\ turn' = Go(t, "queued") /\ gate' = Enqueued(t)
          /\ follow' = follow /\ runtime' = runtime
      BY <1>3 DEF AbortAwaited
    <2>2. gate' \in Gates /\ gate'.active = gate.active
      BY <1>1, <2>1, EnqueuedGate
    <2>3. "queued" \in Pcs
      BY DEF Pcs
    <2> QED BY <1>1, <1>2, <2>1, <2>2, <2>3, GoTurns, MoveOutside DEF Holding
  <1>4. CASE PrepareConsumed(t)
    <2>1. /\ turn[t].pc = "captured" /\ turn[t].ticket = "consumed"
          /\ turn' = Settle(t, "consumed") /\ gate' = gate /\ runtime' = runtime
          /\ "nextOrder" \in DOMAIN follow' /\ follow'.nextOrder \in Nat
      BY <1>1, <1>4, OrdersGiven DEF PrepareConsumed
    <2> QED BY <1>1, <1>2, <2>1, SettleTurns, MoveOutside DEF Holding
  <1>5. CASE PrepareReturned(t)
    <2>1. /\ turn[t].pc = "captured" /\ turn[t].ticket = "returned"
          /\ turn' = Go(t, "ordered") /\ gate' = gate /\ runtime' = runtime
          /\ "nextOrder" \in DOMAIN follow' /\ follow'.nextOrder \in Nat
      BY <1>1, <1>5, OrdersGiven DEF PrepareReturned
    <2>2. "ordered" \in Pcs
      BY DEF Pcs
    <2> QED BY <1>1, <1>2, <2>1, <2>2, GoTurns, MoveOutside DEF Holding
  <1>6. CASE ActivateInOrder(t)
    <2>1. /\ turn[t].pc = "ordered" /\ gate' = gate /\ follow' = follow /\ runtime' = runtime
          /\ turn' = [turn EXCEPT ![t].pc = "trying", ![t].activated = TRUE]
      BY <1>6 DEF ActivateInOrder
    <2>2. /\ turn' \in [Turns -> TurnStates] /\ turn'[t].pc = "trying"
          /\ turn'[t].outcome = turn[t].outcome /\ turn'[t].ticket = turn[t].ticket
          /\ \A u \in Turns : u # t => turn'[u] = turn[u]
      <3> DEFINE s == [turn[t] EXCEPT !.pc = "trying", !.activated = TRUE]
      <3>1. turn' = [turn EXCEPT ![t] = s]
        BY <1>1, <2>1
      <3>2. s \in TurnStates /\ s.pc = "trying" /\ s.outcome = turn[t].outcome
            /\ s.ticket = turn[t].ticket
        BY <1>1 DEF TurnStates, Pcs
      <3> HIDE DEF s
      <3> QED BY <1>1, <3>1, <3>2
    <2> QED BY <1>1, <1>2, <2>1, <2>2, MoveOutside DEF Holding
  <1>7. CASE SleepAgain(t)
    <2>1. /\ turn[t].pc = "queued" /\ turn' = turn /\ gate' = gate
          /\ follow' = follow /\ runtime' = runtime
      BY <1>7 DEF SleepAgain, Queued
    <2> QED BY <1>1, <1>2, <2>1, MoveOutside DEF Holding
  <1>8. CASE SkipBusy(t)
    <2>1. /\ turn[t].pc = "trying" /\ turn' = Settle(t, "busy") /\ gate' = gate
          /\ runtime' = runtime
          /\ "nextOrder" \in DOMAIN follow' /\ follow'.nextOrder \in Nat
      BY <1>1, <1>8, OrdersGiven DEF SkipBusy
    <2> QED BY <1>1, <1>2, <2>1, SettleTurns, MoveOutside DEF Holding
  <1>9. CASE MonitorConsumed(t)
    <2>1. /\ turn[t].pc = "captured" /\ turn' = turn /\ gate' = gate /\ runtime' = runtime
          /\ "nextOrder" \in DOMAIN follow' /\ follow'.nextOrder \in Nat
      BY <1>1, <1>9, OrdersGiven DEF MonitorConsumed
    <2> QED BY <1>1, <1>2, <2>1, MoveOutside DEF Holding
  <1> QED BY <1>3, <1>4, <1>5, <1>6, <1>7, <1>8, <1>9

(* A deadline in the queue: the ticket is withdrawn from a running body;   *)
(* only a cancelled one keeps it.                                          *)
LEMMA DeadlineStep ==
    ASSUME AdmissionInv, NEW t \in Turns, QueueDeadline(t)
    PROVE  AdmissionInv'
  <1>1. /\ turn \in [Turns -> TurnStates] /\ gate \in Gates /\ runtime \in Runtimes
        /\ "nextOrder" \in DOMAIN follow /\ follow.nextOrder \in Nat
    BY DEF AdmissionInv, Types
  <1>2. /\ turn[t].ticket = "pending" => runtime.core \in {"running", "cancelled"}
        /\ turn[t].pc \in {"captured", "ordered", "queued"} /\ runtime' = runtime
        /\ "nextOrder" \in DOMAIN follow' /\ follow'.nextOrder \in Nat
    BY <1>1, OrdersGiven DEF AdmissionInv, TicketsOwned, QueueDeadline
  <1>3. gate' \in Gates /\ gate'.active = gate.active
    BY <1>1 DEF QueueDeadline, Gates
  <1>4. /\ Withdrawn(t) \in {"none", "pending", "consumed", "returned", "withdrawn", "stranded"}
        /\ Withdrawn(t) = "pending" => turn[t].ticket = "pending" /\ runtime.core # "running"
    BY <1>1 DEF Withdrawn, TurnStates
  <1> DEFINE w == Withdrawn(t)
             s == [turn[t] EXCEPT !.pc = "settled", !.outcome = "timeout", !.ticket = w]
  <1>5. turn' = [turn EXCEPT ![t] = s]
    BY <1>1 DEF QueueDeadline
  <1> HIDE DEF w
  <1>6. s \in TurnStates /\ s.pc = "settled" /\ s.outcome = "timeout" /\ s.ticket = w
    BY <1>1, <1>4 DEF TurnStates, Pcs, w
  <1> HIDE DEF s
  <1>7. /\ turn' \in [Turns -> TurnStates] /\ turn'[t] = s
        /\ \A u \in Turns : u # t => turn'[u] = turn[u]
    BY <1>1, <1>5, <1>6
  <1> QED BY <1>1, <1>2, <1>3, <1>4, <1>6, <1>7, MoveOutside DEF Holding, w

(* Taking the gate: nobody holds it, so there is no active turn, no Core   *)
(* execution and no pending ticket.                                        *)
LEMMA GateOpen ==
    ASSUME AdmissionInv, ~gate.active
    PROVE  /\ \A u \in Turns : ~Holding(u)
           /\ runtime.activeTurn = NoTurn /\ runtime.core = "none"
           /\ \A u \in Turns : turn[u].ticket # "pending"
  <1>1. \A u \in Turns : ~Holding(u)
    BY DEF AdmissionInv, OneTurnAtATime
  <1>2. runtime.activeTurn = NoTurn
    BY <1>1 DEF AdmissionInv, Owned, Types, Runtimes, Holding
  <1> QED BY <1>1, <1>2 DEF AdmissionInv, Owned, TicketsOwned

LEMMA EnterSteps ==
    ASSUME AdmissionInv, NEW t \in Turns, Acquire(t) \/ TryAcquire(t)
    PROVE  AdmissionInv'
  <1>1. /\ turn \in [Turns -> TurnStates] /\ gate \in Gates /\ runtime \in Runtimes
        /\ "nextOrder" \in DOMAIN follow /\ follow.nextOrder \in Nat
    BY DEF AdmissionInv, Types
  <1>2. ~gate.active /\ turn[t].pc \in {"queued", "trying"} /\ Admitted(t) /\ follow' = follow
    BY DEF Acquire, TryAcquire, Queued, MayPass
  <1>3. gate' \in Gates /\ gate'.active = TRUE
    <2>1. CASE Acquire(t)
      <3> DEFINE n == gate.normalWaiters - (IF Normal(t) THEN 1 ELSE 0)
      <3>1. n \in Int /\ gate' = [active |-> TRUE, normalWaiters |-> n]
        BY <1>1, <2>1 DEF Acquire, Gates
      <3> HIDE DEF n
      <3> QED BY <3>1 DEF Gates
    <2>2. CASE TryAcquire(t)
      BY <1>1, <2>2 DEF TryAcquire, Gates
    <2> QED BY <2>1, <2>2
  <1>4. turn[t].ticket \in {"none", "returned"} /\ turn[t].outcome # "ran"
    BY <1>2 DEF AdmissionInv, TicketsOwned
  <1>5. \E pc \in {"active", "backout"} :
           /\ turn' = Go(t, pc)
           /\ \/ pc = "backout" /\ runtime' = runtime
              \/ pc = "active" /\ runtime' = [runtime EXCEPT !.activeTurn = t, !.core = "none"]
    BY <1>2 DEF Admitted
  <1>6. PICK pc \in {"active", "backout"} :
           /\ turn' = Go(t, pc)
           /\ \/ pc = "backout" /\ runtime' = runtime
              \/ pc = "active" /\ runtime' = [runtime EXCEPT !.activeTurn = t, !.core = "none"]
    BY <1>5
  <1>7. pc \in Pcs
    BY DEF Pcs
  <1>8. /\ turn' \in [Turns -> TurnStates] /\ turn'[t].pc = pc
        /\ turn'[t].ticket = turn[t].ticket /\ turn'[t].outcome = turn[t].outcome
        /\ \A u \in Turns : u # t => turn'[u] = turn[u]
    BY <1>1, <1>6, <1>7, GoTurns
  <1>9. /\ runtime' \in Runtimes /\ runtime'.core = "none"
        /\ runtime'.activeTurn # NoTurn => runtime'.activeTurn = t /\ pc = "active"
    BY <1>1, <1>2, <1>6, GateOpen, NoTurnAssumption DEF Runtimes
  <1>10. OneTurnAtATime'
    BY <1>2, <1>3, <1>8, GateOpen DEF OneTurnAtATime, Holding
  <1>11. Owned'
    BY <1>8, <1>9 DEF Owned
  <1>12. TicketsOwned'
    BY <1>2, <1>4, <1>8, <1>9, GateOpen DEF AdmissionInv, TicketsOwned
  <1> QED BY <1>1, <1>2, <1>3, <1>8, <1>9, <1>10, <1>11, <1>12 DEF AdmissionInv, Types

(* Leaving the gate: its only holder settles, and with the active turn     *)
(* goes the last of its Core execution.                                    *)
LEMMA LeaveSteps ==
    ASSUME AdmissionInv, NEW t \in Turns, BackOut(t) \/ LeaseReleased(t)
    PROVE  AdmissionInv'
  <1>1. /\ turn \in [Turns -> TurnStates] /\ gate \in Gates /\ runtime \in Runtimes
        /\ "nextOrder" \in DOMAIN follow /\ follow.nextOrder \in Nat
    BY DEF AdmissionInv, Types
  <1>2. /\ turn[t].pc \in {"backout", "closed"}
        /\ gate' \in Gates /\ gate'.active = FALSE
        /\ "nextOrder" \in DOMAIN follow' /\ follow'.nextOrder \in Nat
    BY <1>1, OrdersGiven DEF BackOut, LeaseReleased, GateReleased, Gates
  <1>3. \A u \in Turns : u # t => ~Holding(u)
    BY <1>2 DEF AdmissionInv, OneTurnAtATime, Holding
  <1>4. turn[t].ticket \in {"none", "returned"}
    BY <1>2 DEF AdmissionInv, TicketsOwned
  <1>5. PICK outcome \in {"blocked", "ran"} : turn' = Settle(t, outcome)
    BY DEF BackOut, LeaseReleased
  <1>6. /\ turn' \in [Turns -> TurnStates] /\ turn'[t].pc = "settled"
        /\ turn'[t].ticket = turn[t].ticket
        /\ \A u \in Turns : u # t => turn'[u] = turn[u]
    BY <1>1, <1>5, SettleTurns
  <1>7. runtime.activeTurn \in {NoTurn, t}
    BY <1>1, <1>3 DEF AdmissionInv, Owned, Runtimes, Holding
  <1>8. runtime.core \in {"none", "gone"}
    BY <1>2, <1>7 DEF AdmissionInv, Owned
  <1>9. runtime' \in Runtimes /\ runtime'.activeTurn = NoTurn /\ runtime'.core = "none"
    <2>1. CASE BackOut(t)
      <3>1. turn[t].pc = "backout" /\ runtime' = runtime
        BY <2>1 DEF BackOut
      <3>2. runtime.activeTurn = NoTurn
        BY <1>7, <3>1 DEF AdmissionInv, Owned
      <3> QED BY <1>1, <3>1, <3>2 DEF AdmissionInv, Owned
    <2>2. CASE LeaseReleased(t)
      <3>1. runtime' = IF runtime.activeTurn = t
                       THEN [runtime EXCEPT !.activeTurn = NoTurn, !.core = "none"] ELSE runtime
        BY <2>2 DEF LeaseReleased
      <3>2. CASE runtime.activeTurn = t
        BY <1>1, <3>1, <3>2 DEF Runtimes
      <3>3. CASE runtime.activeTurn # t
        BY <1>1, <1>7, <3>1, <3>3 DEF AdmissionInv, Owned
      <3> QED BY <3>2, <3>3
    <2> QED BY <2>1, <2>2
  <1>10. OneTurnAtATime'
    BY <1>2, <1>3, <1>6 DEF OneTurnAtATime, Holding
  <1>11. Owned'
    BY <1>9 DEF Owned
  <1>12. TicketsOwned'
    BY <1>4, <1>6, <1>8 DEF AdmissionInv, TicketsOwned
  <1> QED BY <1>1, <1>2, <1>6, <1>9, <1>10, <1>11, <1>12 DEF AdmissionInv, Types

(* The turn that holds the gate goes on without giving it up.              *)
LEMMA HeldSteps ==
    ASSUME AdmissionInv, NEW t \in Turns, CoreStarts(t) \/ ReleaseLease(t) \/ ScopeClosed(t)
    PROVE  AdmissionInv'
  <1>1. /\ turn \in [Turns -> TurnStates] /\ gate \in Gates /\ runtime \in Runtimes
        /\ "nextOrder" \in DOMAIN follow /\ follow.nextOrder \in Nat
    BY DEF AdmissionInv, Types
  <1>2. /\ turn[t].pc \in {"active", "closing"} /\ gate' = gate
        /\ "nextOrder" \in DOMAIN follow' /\ follow'.nextOrder \in Nat
    BY <1>1, OrdersGiven DEF CoreStarts, ReleaseLease, ScopeClosed
  <1>3. turn[t].ticket \in {"none", "returned"} /\ turn[t].outcome # "ran"
    BY <1>2 DEF AdmissionInv, TicketsOwned
  <1>4. CASE CoreStarts(t)
    <2>1. /\ turn' = turn /\ runtime.activeTurn = t /\ turn[t].pc = "active"
          /\ runtime.core = "none"
          /\ runtime' \in Runtimes /\ runtime'.activeTurn = t /\ runtime'.core = "running"
      BY <1>1, <1>4 DEF CoreStarts, Runtimes
    <2>2. OneTurnAtATime'
      BY <1>2, <2>1 DEF AdmissionInv, OneTurnAtATime, Holding
    <2>3. Owned'
      BY <2>1, NoTurnAssumption DEF Owned
    <2>4. TicketsOwned'
      BY <2>1 DEF AdmissionInv, TicketsOwned
    <2> QED BY <1>1, <1>2, <2>1, <2>2, <2>3, <2>4 DEF AdmissionInv, Types
  <1>5. CASE ReleaseLease(t) \/ ScopeClosed(t)
    <2>1. PICK pc \in {"closing", "closed"} : turn' = Go(t, pc)
      BY <1>5 DEF ReleaseLease, ScopeClosed
    <2>2. /\ turn' \in [Turns -> TurnStates] /\ turn'[t].pc = pc
          /\ turn'[t].ticket = turn[t].ticket /\ turn'[t].outcome = turn[t].outcome
          /\ \A u \in Turns : u # t => turn'[u] = turn[u]
      BY <1>1, <2>1, GoTurns DEF Pcs
    <2>3. /\ runtime' \in Runtimes /\ runtime'.activeTurn = runtime.activeTurn
          /\ runtime'.core = runtime.core
      BY <1>1, <1>5 DEF ReleaseLease, ScopeClosed, Runtimes
    <2>4. runtime.activeTurn = t => runtime.core \in {"none", "gone"}
      BY <1>5 DEF ReleaseLease, ScopeClosed, AdmissionInv, Owned
    <2>5. \A u \in Turns : Holding(u)' <=> Holding(u)
      BY <1>2, <2>2 DEF Holding
    <2>6. OneTurnAtATime'
      BY <1>2, <2>5 DEF AdmissionInv, OneTurnAtATime
    <2>7. Owned'
      BY <1>1, <2>2, <2>3, <2>4 DEF AdmissionInv, Owned, Runtimes
    <2>8. TicketsOwned'
      BY <1>3, <2>2, <2>3 DEF AdmissionInv, TicketsOwned
    <2> QED BY <1>1, <1>2, <2>2, <2>3, <2>6, <2>7, <2>8 DEF AdmissionInv, Types
  <1> QED BY <1>4, <1>5

(* What the body does with the tickets it was given.                       *)
LEMMA CoreSteps ==
    ASSUME AdmissionInv, CoreConsumes \/ CoreEnds
    PROVE  AdmissionInv'
  <1>1. /\ turn \in [Turns -> TurnStates] /\ gate \in Gates /\ runtime \in Runtimes
        /\ "nextOrder" \in DOMAIN follow /\ follow.nextOrder \in Nat
    BY DEF AdmissionInv, Types
  <1>2. runtime.core \in {"running", "cancelled"} /\ gate' = gate /\ follow' = follow
    BY DEF CoreConsumes, CoreEnds, CoreFinishes, CoreTornDown
  <1>3. /\ runtime' \in Runtimes /\ runtime'.activeTurn = runtime.activeTurn
        /\ runtime'.core \in {runtime.core, "gone"}
    BY <1>1 DEF CoreConsumes, CoreEnds, CoreFinishes, CoreTornDown, Runtimes
  <1>4. PICK to \in {"consumed", "returned", "stranded"} : turn' = Tickets("pending", to)
    BY DEF CoreConsumes, CoreEnds, CoreFinishes, CoreTornDown
  <1>5. /\ turn' \in [Turns -> TurnStates]
        /\ \A u \in Turns : /\ turn'[u].pc = turn[u].pc /\ turn'[u].outcome = turn[u].outcome
                            /\ turn[u].ticket = "pending" => turn'[u].ticket = to
                            /\ turn[u].ticket # "pending" => turn'[u] = turn[u]
    BY <1>1, <1>4 DEF Tickets, TurnStates
  <1>6. \A u \in Turns : Holding(u)' <=> Holding(u)
    BY <1>5 DEF Holding
  <1>7. OneTurnAtATime'
    BY <1>2, <1>6 DEF AdmissionInv, OneTurnAtATime
  <1>8. Owned'
    BY <1>1, <1>2, <1>3, <1>5 DEF AdmissionInv, Owned, Runtimes
  <1>9. TicketsOwned'
    BY <1>5 DEF AdmissionInv, TicketsOwned
  <1> QED BY <1>1, <1>2, <1>3, <1>5, <1>7, <1>8, <1>9 DEF AdmissionInv, Types

(* What blocks the runtime comes and goes beside the turns.                *)
LEMMA OtherSteps ==
    ASSUME AdmissionInv,
           \/ AbortConfirmed \/ AbortFailed \/ CleanupEnds \/ NeighbourChanges
           \/ UNCHANGED vars
    PROVE  AdmissionInv'
  <1>1. runtime \in Runtimes /\ turn' = turn /\ gate' = gate /\ follow' = follow
    BY DEF AdmissionInv, Types, AbortConfirmed, AbortFailed, CleanupEnds, NeighbourChanges, vars
  <1>2. /\ runtime' \in Runtimes /\ runtime'.activeTurn = runtime.activeTurn
        /\ runtime'.core = runtime.core
    BY <1>1 DEF AbortConfirmed, AbortFailed, CleanupEnds, NeighbourChanges, vars, Runtimes
  <1>3. OneTurnAtATime' /\ Owned' /\ TicketsOwned'
    BY <1>1, <1>2 DEF AdmissionInv, OneTurnAtATime, Holding, Owned, TicketsOwned
  <1> QED BY <1>1, <1>2, <1>3 DEF AdmissionInv, Types

LEMMA AdmissionInit == Init => AdmissionInv
  <1> SUFFICES ASSUME Init PROVE AdmissionInv
    OBVIOUS
  <1>1. Types
    BY DEF Init, Types, TurnStates, Gates, Runtimes, Fresh, Pcs
  <1>2. OneTurnAtATime /\ Owned /\ TicketsOwned
    BY DEF Init, Fresh, OneTurnAtATime, Holding, Owned, TicketsOwned
  <1> QED BY <1>1, <1>2 DEF AdmissionInv

LEMMA AdmissionStep == AdmissionInv /\ [Next]_vars => AdmissionInv'
  <1> SUFFICES ASSUME AdmissionInv, [Next]_vars PROVE AdmissionInv'
    OBVIOUS
  <1> QED BY ArriveSteps, WaitSteps, DeadlineStep, EnterSteps, LeaveSteps, HeldSteps,
             CoreSteps, OtherSteps DEF Next, Proceed

LEMMA Admission == Spec => []AdmissionInv
  BY AdmissionInit, AdmissionStep, PTL DEF Spec

-----------------------------------------------------------------------------
(* At most one turn holds the gate, and it is shut exactly while one does. *)
THEOREM OneTurnAtATimeHolds == Spec => []OneTurnAtATime
  BY Admission, PTL DEF AdmissionInv

(* A consumed message never becomes a turn of its own.                     *)
THEOREM HandledOnceHolds == Spec => []HandledOnce
  <1>1. AdmissionInv => HandledOnce
    BY DEF AdmissionInv, TicketsOwned, HandledOnce
  <1> QED BY <1>1, Admission, PTL

(* A body consumes only messages whose turn still waits.                   *)
THEOREM ConsumedWhileWaitingHolds == Spec => ConsumedWhileWaiting
  <1> DEFINE A == \A t \in Turns : turn[t].ticket # "consumed" /\ turn'[t].ticket = "consumed" =>
                     turn[t].pc = "captured"
  <1>1. AdmissionInv /\ [Next]_vars => [A]_vars
    <2> SUFFICES ASSUME AdmissionInv, Next, NEW u \in Turns,
                        turn[u].ticket # "consumed", turn'[u].ticket = "consumed"
                 PROVE  turn[u].pc = "captured"
      OBVIOUS
    <2>1. turn \in [Turns -> TurnStates]
      BY DEF AdmissionInv, Types
    <2>2. CASE CoreConsumes
      BY <2>1, <2>2 DEF CoreConsumes, Tickets, AdmissionInv, TicketsOwned
    <2>3. ASSUME NEW to \in {"returned", "stranded"}, turn' = Tickets("pending", to)
          PROVE  FALSE
      <3>1. turn'[u] = IF turn[u].ticket = "pending" THEN [turn[u] EXCEPT !.ticket = to]
                       ELSE turn[u]
        BY <2>3 DEF Tickets
      <3> QED BY <2>1, <3>1 DEF TurnStates
    <2>4. ASSUME NEW t \in Turns, NEW pc \in Pcs, turn' = Go(t, pc)
          PROVE  FALSE
      BY <2>1, <2>4, GoTurns
    <2>5. ASSUME NEW t \in Turns, NEW outcome, turn' = Settle(t, outcome)
          PROVE  FALSE
      BY <2>1, <2>5 DEF Settle, TurnStates
    <2>6. CASE turn' = turn
      BY <2>6
    <2>7. ASSUME NEW t \in Turns, ArriveCaptured(t)
          PROVE  FALSE
      BY <2>1, <2>7 DEF ArriveCaptured, TurnStates
    <2>8. ASSUME NEW t \in Turns, ActivateInOrder(t)
          PROVE  FALSE
      BY <2>1, <2>8 DEF ActivateInOrder, TurnStates
    <2>9. ASSUME NEW t \in Turns, QueueDeadline(t)
          PROVE  FALSE
      BY <2>1, <2>9 DEF QueueDeadline, Withdrawn, TurnStates
    <2>10. ASSUME NEW t \in Turns, Admitted(t)
           PROVE  FALSE
      BY <2>4, <2>10 DEF Admitted, Pcs
    <2> QED
      BY <2>2, <2>3, <2>4, <2>5, <2>6, <2>7, <2>8, <2>9, <2>10
         DEF Next, Arrive, Proceed, CoreStarts, MonitorConsumed,
             ArriveBlocked, ArriveQueue, ArriveInterrupt, ArriveUncaptured, AbortAwaited,
             PrepareConsumed, PrepareReturned, Acquire, SleepAgain, TryAcquire, SkipBusy, BackOut,
             ReleaseLease, ScopeClosed, LeaseReleased, CoreEnds, CoreFinishes, CoreTornDown,
             AbortConfirmed, AbortFailed, CleanupEnds, NeighbourChanges, Pcs
  <1> QED BY <1>1, Admission, PTL DEF Spec, ConsumedWhileWaiting

(* A turn becomes active only on a clean runtime.                          *)
THEOREM StartsCleanHolds == Spec => StartsClean
  <1> DEFINE A == \A t \in Turns : turn[t].pc # "active" /\ turn'[t].pc = "active" =>
                     /\ ~Blocked(runtime)
                     /\ runtime.activeTurn = NoTurn /\ runtime.core = "none"
  <1>1. AdmissionInv /\ [Next]_vars => [A]_vars
    <2> SUFFICES ASSUME AdmissionInv, Next, NEW u \in Turns,
                        turn[u].pc # "active", turn'[u].pc = "active"
                 PROVE  /\ ~Blocked(runtime)
                        /\ runtime.activeTurn = NoTurn /\ runtime.core = "none"
      OBVIOUS
    <2>1. turn \in [Turns -> TurnStates]
      BY DEF AdmissionInv, Types
    <2>2. CASE CoreConsumes \/ CoreEnds
      BY <2>1, <2>2 DEF CoreConsumes, CoreEnds, CoreFinishes, CoreTornDown, Tickets, TurnStates
    <2>3. ASSUME NEW t \in Turns, NEW pc \in Pcs \ {"active"}, turn' = Go(t, pc)
          PROVE  FALSE
      BY <2>1, <2>3, GoTurns
    <2>4. ASSUME NEW t \in Turns, NEW outcome, turn' = Settle(t, outcome)
          PROVE  FALSE
      BY <2>1, <2>4 DEF Settle, TurnStates
    <2>5. CASE turn' = turn
      BY <2>5
    <2>6. ASSUME NEW t \in Turns, ArriveCaptured(t) \/ ActivateInOrder(t) \/ QueueDeadline(t)
          PROVE  FALSE
      BY <2>1, <2>6 DEF ArriveCaptured, ActivateInOrder, QueueDeadline, TurnStates
    <2>7. ASSUME NEW t \in Turns, Acquire(t) \/ TryAcquire(t)
          PROVE  /\ ~Blocked(runtime)
                 /\ runtime.activeTurn = NoTurn /\ runtime.core = "none"
      <3>1. ~gate.active /\ Admitted(t)
        BY <2>7 DEF Acquire, TryAcquire, MayPass
      <3>2. ~Blocked(runtime)
        BY <2>3, <3>1 DEF Admitted, Pcs
      <3> QED BY <3>1, <3>2, GateOpen
    <2> QED
      BY <2>2, <2>3, <2>4, <2>5, <2>6, <2>7
         DEF Next, Arrive, Proceed, CoreStarts, MonitorConsumed,
             ArriveBlocked, ArriveQueue, ArriveInterrupt, ArriveUncaptured, AbortAwaited,
             PrepareConsumed, PrepareReturned, SleepAgain, SkipBusy, BackOut,
             ReleaseLease, ScopeClosed, LeaseReleased,
             AbortConfirmed, AbortFailed, CleanupEnds, NeighbourChanges, Pcs
  <1> QED BY <1>1, Admission, PTL DEF Spec, StartsClean

(* A set of naturals with a bound has a greatest member.                   *)
LEMMA GreatestMember ==
    ASSUME NEW S \in SUBSET Nat, S # {}, NEW b \in Nat, \A n \in S : n <= b
    PROVE  \E m \in S : \A n \in S : n <= m
  <1> DEFINE D == {k \in Nat : b - k \in S}
             R == OpToRel(<, Nat)
  <1>1. \A n \in S : n \in Nat /\ b - n \in D
    <2> TAKE n \in S
    <2>1. n \in Nat /\ b - n \in Nat /\ b - (b - n) = n
      OBVIOUS
    <2> QED BY <2>1
  <1>2. IsWellFoundedOn(R, Nat)
    BY NatLessThanWellFounded
  <1>3. \A x, y \in Nat : <<y, x>> \in R <=> y < x
    BY DEF OpToRel
  <1>4. D \subseteq Nat /\ \A k \in D : b - k \in S
    OBVIOUS
  <1> HIDE DEF D, R
  <1>5. PICK d \in D : \A e \in D : <<e, d>> \notin R
    BY <1>1, <1>2, <1>4, WFMin
  <1>6. d \in Nat /\ \A e \in D : e \in Nat /\ ~(e < d)
    BY <1>3, <1>4, <1>5
  <1>7. ASSUME NEW n \in S
        PROVE  n <= b - d
    <2>1. n \in Nat /\ b - n \in Nat /\ ~(b - n < d)
      BY <1>1, <1>4, <1>6
    <2> QED BY <1>6, <2>1
  <1> QED BY <1>4, <1>5, <1>7

(* Which turns queue after a step that sends no turn to the gate's queue   *)
(* or takes one out of it.                                                 *)
LEMMA QueueKept ==
    ASSUME turn \in [Turns -> TurnStates], NEW t \in Turns,
           \/ ArriveBlocked(t) \/ ArriveInterrupt(t) \/ ArriveCaptured(t) \/ ArriveUncaptured(t)
           \/ PrepareConsumed(t) \/ PrepareReturned(t) \/ ActivateInOrder(t) \/ SkipBusy(t)
           \/ BackOut(t) \/ ReleaseLease(t) \/ ScopeClosed(t) \/ LeaseReleased(t)
    PROVE  \A u \in Turns : Queued(u)' <=> Queued(u)
  <1>1. turn[t] \in TurnStates /\ ~Queued(t)
    BY DEF ArriveBlocked, ArriveInterrupt, ArriveCaptured, ArriveUncaptured, PrepareConsumed,
       PrepareReturned, ActivateInOrder, SkipBusy, BackOut, ReleaseLease, ScopeClosed,
       LeaseReleased, Queued
  <1>2. ASSUME NEW pc \in {"aborting", "trying", "ordered", "closing", "closed"}, turn' = Go(t, pc)
        PROVE  \A u \in Turns : Queued(u)' <=> Queued(u)
    <2>1. pc \in Pcs /\ pc # "queued"
      BY DEF Pcs
    <2> QED BY <1>1, <1>2, <2>1, GoTurns DEF Queued
  <1>3. CASE \E o \in {"blocked", "consumed", "busy", "ran"} : turn' = Settle(t, o)
    BY <1>1, <1>3, SettleTurns, SMTT(20), ZenonT(30) DEF Queued
  <1>4. CASE ArriveCaptured(t)
    BY <1>1, <1>4 DEF ArriveCaptured, Queued, TurnStates
  <1>5. CASE ActivateInOrder(t)
    BY <1>1, <1>5 DEF ActivateInOrder, Queued, TurnStates
  <1> QED
    BY <1>2, <1>3, <1>4, <1>5
       DEF ArriveBlocked, ArriveInterrupt, ArriveUncaptured, PrepareConsumed,
       PrepareReturned, SkipBusy, BackOut, ReleaseLease, ScopeClosed, LeaseReleased

LEMMA QueueOfCore ==
    ASSUME turn \in [Turns -> TurnStates],
           CoreConsumes \/ CoreFinishes \/ CoreTornDown
    PROVE  \A u \in Turns : Queued(u)' <=> Queued(u)
  BY DEF CoreConsumes, CoreFinishes, CoreTornDown, Tickets, Queued, TurnStates

(* The wakeups: while some turn may pass, one that may is awake.           *)
Awake == woken \subseteq Turns /\ NoLostWakeup

LEMMA SameQueueAwake ==
    ASSUME Awake, gate' = gate, woken' = woken, \A u \in Turns : Queued(u)' <=> Queued(u)
    PROVE  Awake'
  BY DEF Awake, NoLostWakeup, MayPass

LEMMA GateShutAwake ==
    ASSUME gate'.active, woken' \subseteq Turns
    PROVE  Awake'
  BY DEF Awake, NoLostWakeup, MayPass

LEMMA AllWokenAwake ==
    ASSUME woken' \subseteq Turns, \A u \in Turns : Queued(u)' => u \in woken'
    PROVE  Awake'
  BY DEF Awake, NoLostWakeup

LEMMA JoinAwake ==
    ASSUME gate \in Gates, turn \in [Turns -> TurnStates], Awake, NEW t \in Turns,
           turn' = Go(t, "queued"), gate' = Enqueued(t), woken' = woken \cup {t}
    PROVE  Awake'
  <1>1. /\ Queued(t)' /\ \A u \in Turns : u # t => (Queued(u)' <=> Queued(u))
    BY GoTurns DEF Queued, Pcs
  <1>2. CASE gate.active
    BY <1>2, EnqueuedGate, GateShutAwake DEF Awake
  <1>3. CASE ~gate.active /\ t \notin Delayed
    <2>1. MayPass(t)'
      BY <1>3, EnqueuedGate DEF MayPass
    <2> QED
      BY <1>1, <2>1 DEF Awake, NoLostWakeup
  <1>4. CASE ~gate.active /\ t \in Delayed
    <2>1. gate' = gate
      BY <1>4, KindsDisjointAssumption DEF Enqueued, Normal, Gates
    <2>2. \A u : MayPass(u)' <=> MayPass(u)
      BY <2>1 DEF MayPass
    <2>3. ASSUME NEW u \in Turns, Queued(u)', MayPass(u)'
          PROVE  \E v \in woken' : Queued(v)' /\ MayPass(v)'
      <3>1. CASE u = t
        BY <2>3, <3>1
      <3>2. CASE u # t
        <4>1. PICK v \in woken : Queued(v) /\ MayPass(v)
          BY <1>1, <2>2, <2>3, <3>2 DEF Awake, NoLostWakeup
        <4>2. Queued(v)' /\ MayPass(v)' /\ v \in woken'
          BY <1>1, <2>2, <4>1 DEF Awake
        <4> QED BY <4>2
      <3> QED BY <3>1, <3>2
    <2> QED
      BY <2>3 DEF Awake, NoLostWakeup
  <1> QED
    BY <1>2, <1>3, <1>4

LEMMA WakeStep ==
    ASSUME AdmissionInv, Awake, [Next]_vars
    PROVE  Awake'
  <1>1. turn \in [Turns -> TurnStates] /\ gate \in Gates
    BY DEF AdmissionInv, Types
  <1>2. ASSUME NEW t \in Turns,
               \/ ArriveBlocked(t) \/ ArriveInterrupt(t) \/ ArriveCaptured(t) \/ ArriveUncaptured(t)
               \/ PrepareConsumed(t) \/ PrepareReturned(t) \/ ActivateInOrder(t) \/ SkipBusy(t)
               \/ ReleaseLease(t) \/ ScopeClosed(t)
        PROVE  Awake'
    <2>1. \A u \in Turns : Queued(u)' <=> Queued(u)
      BY <1>1, <1>2, QueueKept
    <2>2. gate' = gate /\ woken' = woken
      BY <1>2 DEF ArriveBlocked, ArriveInterrupt, ArriveCaptured, ArriveUncaptured, PrepareConsumed,
         PrepareReturned, ActivateInOrder, SkipBusy, ReleaseLease, ScopeClosed
    <2> QED BY <2>1, <2>2, SameQueueAwake
  <1>3. ASSUME NEW t \in Turns, BackOut(t) \/ LeaseReleased(t)
        PROVE  Awake'
    <2>1. \A u \in Turns : Queued(u)' <=> Queued(u)
      BY <1>1, <1>3, QueueKept
    <2>2. woken' = {u \in Turns : Queued(u)}
      BY <1>3 DEF BackOut, LeaseReleased, GateReleased
    <2> QED BY <2>1, <2>2, AllWokenAwake
  <1>4. ASSUME NEW t \in Turns, ArriveQueue(t) \/ AbortAwaited(t)
        PROVE  Awake'
    BY <1>1, <1>4, JoinAwake DEF ArriveQueue, AbortAwaited
  <1>5. ASSUME NEW t \in Turns, Acquire(t) \/ TryAcquire(t)
        PROVE  Awake'
    <2>1. gate'.active /\ woken' \subseteq Turns
      BY <1>1, <1>5 DEF Acquire, TryAcquire, Gates, Awake
    <2> QED BY <2>1, GateShutAwake
  <1>6. ASSUME NEW t \in Turns, SleepAgain(t)
        PROVE  Awake'
    BY <1>6 DEF SleepAgain, Awake, NoLostWakeup, MayPass, Queued
  <1>7. ASSUME NEW t \in Turns, QueueDeadline(t)
        PROVE  Awake'
    <2>1. ~Queued(t)' /\ \A u \in Turns : u # t => (Queued(u)' <=> Queued(u))
      BY <1>1, <1>7 DEF QueueDeadline, Queued, TurnStates
    <2>2. CASE Queued(t)
      <3>1. woken' = {u \in Turns : Queued(u) /\ u # t}
        BY <1>7, <2>2 DEF QueueDeadline
      <3> QED BY <2>1, <3>1, AllWokenAwake
    <2>3. CASE ~Queued(t)
      <3>1. gate' = gate /\ woken' = woken
        BY <1>1, <1>7, <2>3 DEF QueueDeadline, Gates
      <3> QED BY <2>1, <2>3, <3>1, SameQueueAwake
    <2> QED BY <2>2, <2>3
  <1>8. CASE CoreConsumes \/ CoreFinishes \/ CoreTornDown
    <2>1. gate' = gate /\ woken' = woken
      BY <1>8 DEF CoreConsumes, CoreFinishes, CoreTornDown
    <2> QED BY <1>1, <1>8, <2>1, QueueOfCore, SameQueueAwake
  <1>9. CASE UNCHANGED <<turn, gate, woken>>
    BY <1>9, SameQueueAwake DEF Queued
  <1> QED
    BY <1>2, <1>3, <1>4, <1>5, <1>6, <1>7, <1>8, <1>9
       DEF Next, Arrive, Proceed, CoreEnds, MonitorConsumed, CoreStarts, AbortConfirmed, AbortFailed,
           CleanupEnds, NeighbourChanges, vars

(* A turn that could pass the open gate is never left asleep, on no way    *)
(* into the queue, out of it, or out of the gate (NoLostWakeup).           *)
THEOREM NoWakeupIsLost == Spec => []NoLostWakeup
  <1>1. Init => Awake
    BY DEF Init, Awake, NoLostWakeup, Queued, Fresh
  <1>2. AdmissionInv /\ Awake /\ [Next]_vars => Awake'
    BY WakeStep
  <1>3. Awake => NoLostWakeup
    BY DEF Awake
  <1> QED BY <1>1, <1>2, <1>3, Admission, PTL DEF Spec

(* Orders the coordinator has done with: skipped, or marked as over.       *)
Passed(f) == {o \in Orders : o < f.nextTurn \/ f.status[o] \in {"consumed", "finished"}}

Statuses == {"none", "pending", "active", "consumed", "finished"}

Coordinators ==
    [nextOrder : 1..(Cardinality(Turns) + 1), nextTurn : 1..(Cardinality(Turns) + 1),
     status : [Orders -> Statuses]]

(* A turn whose message the body took, or which has given up the gate.     *)
Over(t) == turn[t].ticket = "consumed" \/ turn[t].pc \in {"closing", "closed", "settled"}

Captives == {t \in Turns : turn[t].order > 0}

(* Orders are given once each, in sequence, to turns that had arrived; the *)
(* next turn never passes one that is not over; and who was activated was  *)
(* the next one then.                                                      *)
FollowInv ==
    /\ follow \in Coordinators
    /\ follow.nextTurn <= follow.nextOrder
    /\ follow.nextOrder = Cardinality(Captives) + 1
    /\ \A t \in Turns :
          /\ turn[t].order < follow.nextOrder
          /\ turn[t].pc = "new" => turn[t].order = 0 /\ ~turn[t].activated
          /\ turn[t].pc = "captured" => turn[t].order # 0
          /\ turn[t].order \in Passed(follow) => Over(t)
          /\ turn[t].activated => turn[t].order <= follow.nextTurn
    /\ \A t, u \in Captives : turn[t].order = turn[u].order => t = u

(* g is f after order o was marked, or done with.                          *)
Marks(f, g, o) ==
    /\ g \in Coordinators /\ g.nextOrder = f.nextOrder
    /\ f.nextTurn <= g.nextTurn /\ g.nextTurn <= g.nextOrder
    /\ Passed(g) \subseteq Passed(f) \cup {o}

LEMMA TurnsCount == Cardinality(Turns) \in Nat
  BY TurnsAssumption, FS_CardinalityType

(* The next turn skips only orders that are done.                          *)
LEMMA AdvancedMarks ==
    ASSUME NEW f \in Coordinators, f.nextTurn <= f.nextOrder
    PROVE  /\ Advanced(f) \in Coordinators /\ Advanced(f).nextOrder = f.nextOrder
           /\ f.nextTurn <= Advanced(f).nextTurn /\ Advanced(f).nextTurn <= f.nextOrder
           /\ Passed(Advanced(f)) \subseteq Passed(f)
  <1> DEFINE done(o) == f.status[o] \in {"consumed", "finished"}
             ready   == {n \in f.nextTurn..f.nextOrder : \A o \in f.nextTurn..(n - 1) : done(o)}
             next    == CHOOSE n \in ready : \A m \in ready : m <= n
             status  == [o \in Orders |-> IF o < next THEN "none" ELSE f.status[o]]
  <1>1. /\ f.nextTurn \in Nat /\ f.nextOrder \in Nat /\ 1 <= f.nextTurn
        /\ f.nextOrder <= Cardinality(Turns) + 1 /\ f.status \in [Orders -> Statuses]
    BY TurnsCount DEF Coordinators
  <1>2. f.nextTurn \in ready /\ ready \in SUBSET Nat /\ \A n \in ready : n <= f.nextOrder
    BY <1>1
  <1> HIDE DEF ready
  <1>3. \E n \in ready : \A m \in ready : m <= n
    BY <1>1, <1>2, GreatestMember
  <1>4. next \in ready
    BY <1>3
  <1> HIDE DEF next
  <1>5. /\ next \in Nat /\ f.nextTurn <= next /\ next <= f.nextOrder
        /\ \A o \in f.nextTurn..(next - 1) : done(o)
    BY <1>1, <1>4 DEF ready
  <1>6. status \in [Orders -> Statuses]
    BY <1>1 DEF Statuses
  <1> HIDE DEF status
  <1>7. Advanced(f) = [f EXCEPT !.nextTurn = next, !.status = status]
    BY DEF Advanced, next, ready, status
  <1> DEFINE N == Cardinality(Turns)
  <1>10. next \in 1..(N + 1) /\ f.nextOrder \in 1..(N + 1)
    BY <1>1, <1>5, TurnsCount DEF Coordinators
  <1> HIDE DEF N
  <1>8. /\ Advanced(f) \in Coordinators /\ Advanced(f).nextTurn = next
        /\ Advanced(f).nextOrder = f.nextOrder /\ Advanced(f).status = status
    BY <1>6, <1>7, <1>10 DEF Coordinators, N
  <1>9. ASSUME NEW o \in Passed(Advanced(f))
        PROVE  o \in Passed(f)
    <2>1. o \in Orders /\ o \in Nat /\ (o < next \/ status[o] \in {"consumed", "finished"})
      BY <1>8, <1>9 DEF Passed, Orders
    <2>2. CASE o < f.nextTurn
      BY <2>1, <2>2 DEF Passed
    <2>3. CASE ~(o < f.nextTurn) /\ o < next
      BY <1>1, <1>5, <2>1, <2>3 DEF Passed
    <2>4. CASE ~(o < next)
      BY <2>1, <2>4 DEF Passed, status
    <2> QED BY <2>2, <2>3, <2>4
  <1> QED BY <1>5, <1>8, <1>9

LEMMA MarkedMarks ==
    ASSUME NEW f \in Coordinators, f.nextTurn <= f.nextOrder, NEW o \in Orders,
           NEW s \in {"consumed", "finished"}
    PROVE  Marks(f, Marked(f, o, s), o)
  <1>1. CASE f.status[o] \in {"none", "finished"}
    BY <1>1, AdvancedMarks DEF Marked, Marks
  <1>2. CASE f.status[o] \notin {"none", "finished"}
    <2> DEFINE g == [f EXCEPT !.status[o] = s]
    <2>1. /\ g \in Coordinators /\ g.nextOrder = f.nextOrder /\ g.nextTurn = f.nextTurn
          /\ \A p \in Orders : p # o => g.status[p] = f.status[p]
      BY DEF Coordinators, Statuses
    <2>2. Marked(f, o, s) = Advanced(g)
      BY <1>2 DEF Marked
    <2> HIDE DEF g
    <2>3. Passed(g) \subseteq Passed(f) \cup {o}
      BY <2>1 DEF Passed
    <2> QED BY <2>1, <2>2, <2>3, AdvancedMarks DEF Marks
  <1> QED BY <1>1, <1>2

LEMMA CapturedHasOrder ==
    ASSUME AdmissionInv, FollowInv, NEW t \in Turns, turn[t].pc = "captured"
    PROVE  turn[t].order \in Orders
  BY TurnsCount DEF AdmissionInv, Types, TurnStates, FollowInv, Coordinators, Orders

LEMMA FinalizedMarks ==
    ASSUME AdmissionInv, FollowInv, NEW t \in Turns
    PROVE  Marks(follow, Finalized(follow, t), turn[t].order)
  <1>1. /\ turn[t].order \in Nat /\ turn[t].order < follow.nextOrder
        /\ follow \in Coordinators /\ follow.nextTurn <= follow.nextOrder
    BY DEF AdmissionInv, Types, TurnStates, FollowInv
  <1>2. CASE turn[t].order = 0
    BY <1>1, <1>2, TurnsCount DEF Finalized, Marks, Coordinators
  <1>3. CASE turn[t].order # 0
    <2>1. turn[t].order \in Orders
      BY <1>1, <1>3, TurnsCount DEF Orders, Coordinators
    <2> QED BY <1>1, <1>3, <2>1, MarkedMarks DEF Finalized
  <1> QED BY <1>2, <1>3

(* A step of turn t, in which its order at most is marked.                 *)
LEMMA FollowKept ==
    ASSUME AdmissionInv, FollowInv, NEW t \in Turns,
           \A u \in Turns :
              /\ turn'[u].order = turn[u].order
              /\ Over(u) => Over(u)'
              /\ turn'[u].pc \in {"new", "captured"} => turn[u].pc = turn'[u].pc
              /\ turn'[u].activated => turn[u].activated \/ turn[u].order = follow.nextTurn,
           follow' = follow \/ (Marks(follow, follow', turn[t].order) /\ Over(t)')
    PROVE  FollowInv'
  <1>1. Captives' = Captives
    BY DEF Captives
  <1>2. \A u \in Turns : turn[u].order \in Nat
    BY DEF AdmissionInv, Types, TurnStates
  <1>3. /\ follow' \in Coordinators /\ follow'.nextTurn <= follow'.nextOrder
        /\ follow'.nextOrder = follow.nextOrder /\ follow.nextTurn <= follow'.nextTurn
        /\ follow'.nextTurn \in Nat /\ follow.nextTurn \in Nat
    BY TurnsCount DEF FollowInv, Marks, Coordinators
  <1>4. ASSUME NEW u \in Turns, turn'[u].order \in Passed(follow')
        PROVE  Over(u)'
    <2>1. turn[u].order \in Passed(follow) \/ (turn[u].order = turn[t].order /\ Over(t)')
      BY <1>4 DEF Marks
    <2>2. CASE turn[u].order \in Passed(follow)
      BY <2>2 DEF FollowInv
    <2>3. CASE turn[u].order = turn[t].order /\ Over(t)'
      <3>1. turn[u].order > 0
        BY <1>2, <1>4, TurnsCount DEF Passed, Orders
      <3>2. u = t
        BY <2>3, <3>1 DEF FollowInv, Captives
      <3> QED BY <2>3, <3>2
    <2> QED BY <2>1, <2>2, <2>3
  <1>5. \A u \in Turns : turn'[u].activated => turn'[u].order <= follow'.nextTurn
    BY <1>2, <1>3 DEF FollowInv
  <1>6. \A u \in Turns : /\ turn'[u].pc = "new" => turn'[u].order = 0 /\ ~turn'[u].activated
                         /\ turn'[u].pc = "captured" => turn'[u].order # 0
    BY TurnsCount DEF FollowInv, Coordinators
  <1>7. \A u \in Turns : turn'[u].order < follow'.nextOrder
    BY <1>3 DEF FollowInv
  <1>8. follow'.nextOrder = Cardinality(Captives') + 1
    BY <1>1, <1>3 DEF FollowInv
  <1>9. \A u, v \in Captives' : turn'[u].order = turn'[v].order => u = v
    BY <1>1 DEF FollowInv, Captives
  <1> QED BY <1>3, <1>4, <1>5, <1>6, <1>7, <1>8, <1>9 DEF FollowInv

(* A message is captured: the next order is its own.                       *)
LEMMA CaptureStep ==
    ASSUME AdmissionInv, FollowInv, NEW t \in Turns, ArriveCaptured(t)
    PROVE  FollowInv'
  <1> DEFINE n == follow.nextOrder
             N == Cardinality(Turns)
  <1>1. /\ turn \in [Turns -> TurnStates] /\ turn[t].pc = "new" /\ turn[t].order = 0
        /\ follow' = Captured(follow)
        /\ turn' = [turn EXCEPT ![t].pc = "captured", ![t].order = n, ![t].ticket = "pending"]
    BY DEF AdmissionInv, Types, FollowInv, ArriveCaptured
  <1>2. /\ n \in 1..(N + 1) /\ follow.nextTurn \in 1..(N + 1) /\ N \in Nat
        /\ follow.status \in [Orders -> Statuses]
    BY TurnsCount DEF FollowInv, Coordinators
  <1>3. /\ \A u \in Turns : u # t => turn'[u] = turn[u]
        /\ turn'[t].order = n /\ turn'[t].pc = "captured" /\ turn'[t].activated = turn[t].activated
    BY <1>1 DEF TurnStates
  <1>4. /\ Captives \subseteq Turns /\ t \notin Captives /\ IsFiniteSet(Captives)
        /\ Captives' = Captives \cup {t}
    <2>1. Captives \subseteq Turns /\ t \notin Captives /\ IsFiniteSet(Captives)
      BY <1>1, TurnsAssumption, FS_Subset DEF Captives
    <2>2. \A u \in Turns : turn'[u].order > 0 <=> u \in Captives \/ u = t
      BY <1>2, <1>3 DEF Captives
    <2> QED BY <2>1, <2>2 DEF Captives
  <1>5. /\ Cardinality(Captives') = Cardinality(Captives) + 1
        /\ Cardinality(Captives') <= N
    <2>1. Cardinality(Captives \cup {t}) = Cardinality(Captives) + 1
      BY <1>4, FS_AddElement
    <2>2. Captives' \subseteq Turns
      BY <1>4
    <2>3. Cardinality(Captives') <= N
      BY <2>2, TurnsAssumption, FS_Subset
    <2> QED BY <1>4, <2>1, <2>3
  <1>6. n \in Orders /\ n + 1 \in 1..(N + 1)
    <2>1. n = Cardinality(Captives) + 1
      BY DEF FollowInv
    <2> QED BY <1>2, <1>5, <2>1 DEF Orders
  <1> HIDE DEF n, N
  <1>7. /\ follow'.nextOrder = n + 1 /\ follow'.nextTurn = follow.nextTurn
        /\ follow'.status[n] = "pending" /\ follow' \in Coordinators
        /\ \A o \in Orders : o # n => follow'.status[o] = follow.status[o]
    <2>1. follow \in Coordinators
      BY DEF FollowInv
    <2>2. follow' = [follow EXCEPT !.nextOrder = n + 1, !.status[n] = "pending"]
      BY <1>1 DEF Captured, n
    <2> QED BY <1>2, <1>6, <2>1, <2>2 DEF Coordinators, Statuses, N
  <1>8. Passed(follow') \subseteq Passed(follow) \ {n}
    BY <1>2, <1>6, <1>7 DEF Passed, FollowInv, n, Orders, N
  <1>9. \A u \in Turns : turn[u].order \in Nat /\ turn[u].order < n
    BY DEF AdmissionInv, Types, TurnStates, FollowInv, n
  <1>10. ASSUME NEW u \in Turns
         PROVE  /\ turn'[u].order < follow'.nextOrder
                /\ turn'[u].pc = "new" => turn'[u].order = 0 /\ ~turn'[u].activated
                /\ turn'[u].pc = "captured" => turn'[u].order # 0
                /\ turn'[u].order \in Passed(follow') => Over(u)'
                /\ turn'[u].activated => turn'[u].order <= follow'.nextTurn
    <2>1. CASE u = t
      <3>1. ~turn[t].activated
        BY <1>1 DEF FollowInv
      <3> QED BY <1>2, <1>3, <1>7, <1>8, <2>1, <3>1 DEF n
    <2>2. CASE u # t
      <3>1. turn'[u] = turn[u]
        BY <1>3, <2>2
      <3> QED BY <1>2, <1>7, <1>8, <1>9, <3>1 DEF FollowInv, Over, n
    <2> QED BY <2>1, <2>2
  <1>11. \A u, v \in Captives' : turn'[u].order = turn'[v].order => u = v
    BY <1>3, <1>4, <1>9 DEF FollowInv, Captives
  <1>12. follow'.nextTurn <= follow'.nextOrder /\ follow'.nextOrder = Cardinality(Captives') + 1
    BY <1>2, <1>5, <1>7 DEF FollowInv, n
  <1> QED BY <1>7, <1>10, <1>11, <1>12 DEF FollowInv

(* What the steps of a turn leave alone.                                   *)
TurnKept(u) ==
    /\ turn'[u].order = turn[u].order /\ turn'[u].activated = turn[u].activated
    /\ Over(u) => Over(u)'
    /\ turn'[u].pc \in {"new", "captured"} => turn[u].pc = turn'[u].pc

LEMMA GoKept ==
    ASSUME AdmissionInv, NEW t \in Turns, NEW pc \in Pcs \ {"new", "captured"}, turn' = Go(t, pc),
           turn[t].pc \in {"closing", "closed", "settled"} => pc \in {"closing", "closed", "settled"}
    PROVE  /\ \A u \in Turns : TurnKept(u)
           /\ pc \in {"closing", "closed", "settled"} => Over(t)'
  <1>1. turn \in [Turns -> TurnStates]
    BY DEF AdmissionInv, Types
  <1>2. \A u \in Turns : u # t => turn'[u] = turn[u]
    BY <1>1, GoTurns
  <1>3. /\ turn'[t].pc = pc /\ turn'[t].order = turn[t].order
        /\ turn'[t].activated = turn[t].activated /\ turn'[t].ticket = turn[t].ticket
    BY <1>1 DEF Go, TurnStates
  <1> QED BY <1>2, <1>3 DEF TurnKept, Over

LEMMA SettleKept ==
    ASSUME AdmissionInv, NEW t \in Turns,
           NEW outcome \in {"blocked", "consumed", "busy", "ran"}, turn' = Settle(t, outcome)
    PROVE  (\A u \in Turns : TurnKept(u)) /\ Over(t)'
  <1>1. turn \in [Turns -> TurnStates]
    BY DEF AdmissionInv, Types
  <1>2. \A u \in Turns : u # t => turn'[u] = turn[u]
    BY <1>1, SettleTurns
  <1>3. /\ turn'[t].pc = "settled" /\ turn'[t].order = turn[t].order
        /\ turn'[t].activated = turn[t].activated
    BY <1>1 DEF Settle, TurnStates
  <1> QED BY <1>2, <1>3 DEF TurnKept, Over

LEMMA KeptFollows ==
    ASSUME AdmissionInv, FollowInv, NEW t \in Turns, \A u \in Turns : TurnKept(u),
           follow' = follow \/ (Marks(follow, follow', turn[t].order) /\ Over(t)')
    PROVE  FollowInv'
  BY FollowKept DEF TurnKept

LEMMA SameFollow ==
    ASSUME AdmissionInv, FollowInv, \A u \in Turns : TurnKept(u), follow' = follow
    PROVE  FollowInv'
  <1>1. CASE Turns # {}
    BY <1>1, KeptFollows
  <1>2. CASE Turns = {}
    BY <1>2 DEF FollowInv, Captives, Passed, Over
  <1> QED BY <1>1, <1>2

LEMMA MarkNothing ==
    ASSUME AdmissionInv, FollowInv, NEW t \in Turns, \A u \in Turns : TurnKept(u),
           follow' \in Coordinators, follow'.nextOrder = follow.nextOrder,
           follow'.nextTurn = follow.nextTurn, Passed(follow') \subseteq Passed(follow)
    PROVE  FollowInv'
  <1>1. Captives' = Captives
    BY DEF Captives, TurnKept
  <1>2. \A u, v \in Captives' : turn'[u].order = turn'[v].order => u = v
    BY <1>1 DEF FollowInv, Captives, TurnKept
  <1>3. ASSUME NEW u \in Turns
        PROVE  /\ turn'[u].order < follow'.nextOrder
               /\ turn'[u].pc = "new" => turn'[u].order = 0 /\ ~turn'[u].activated
               /\ turn'[u].pc = "captured" => turn'[u].order # 0
               /\ turn'[u].order \in Passed(follow') => Over(u)'
               /\ turn'[u].activated => turn'[u].order <= follow'.nextTurn
    BY DEF FollowInv, TurnKept
  <1> QED BY <1>1, <1>2, <1>3 DEF FollowInv

LEMMA FollowInit == Init => FollowInv
  <1> SUFFICES ASSUME Init PROVE FollowInv
    OBVIOUS
  <1>1. Captives = {}
    BY DEF Init, Fresh, Captives
  <1>2. Cardinality(Captives) = 0
    BY <1>1, FS_EmptySet
  <1>3. follow \in Coordinators /\ follow.nextTurn = 1 /\ follow.nextOrder = 1
    BY TurnsCount DEF Init, Coordinators, Statuses
  <1>4. \A t \in Turns : turn[t].order = 0 /\ ~turn[t].activated /\ turn[t].pc = "new"
    BY DEF Init, Fresh
  <1>5. 0 \notin Passed(follow)
    BY TurnsCount DEF Passed, Orders
  <1> QED BY <1>1, <1>2, <1>3, <1>4, <1>5 DEF FollowInv

LEMMA FollowOrdered == AdmissionInv /\ FollowInv => FollowUpOrder
  <1> SUFFICES ASSUME AdmissionInv, FollowInv, NEW t \in Turns, NEW u \in Turns,
                      turn[t].activated, 0 < turn[u].order, turn[u].order < turn[t].order
               PROVE  Over(u)
    BY DEF FollowUpOrder, Over
  <1>1. /\ turn[u].order \in Nat /\ turn[t].order \in Nat /\ turn[t].order < follow.nextOrder
        /\ turn[t].order <= follow.nextTurn
    BY DEF AdmissionInv, Types, TurnStates, FollowInv
  <1>2. /\ follow.nextOrder <= Cardinality(Turns) + 1 /\ follow.nextTurn \in Nat
        /\ follow.nextOrder \in Nat
    BY TurnsCount DEF FollowInv, Coordinators
  <1>3. turn[u].order \in Orders /\ turn[u].order < follow.nextTurn
    BY <1>1, <1>2, TurnsCount DEF Orders
  <1> QED BY <1>3 DEF FollowInv, Passed

LEMMA FollowStep ==
    ASSUME AdmissionInv, FollowInv, [Next]_vars
    PROVE  FollowInv'
  <1>1. /\ turn \in [Turns -> TurnStates] /\ follow \in Coordinators
        /\ follow.nextTurn <= follow.nextOrder
    BY DEF AdmissionInv, Types, FollowInv
  <1>2. ASSUME NEW t \in Turns,
               \/ ArriveQueue(t) \/ ArriveInterrupt(t) \/ ArriveUncaptured(t) \/ AbortAwaited(t)
               \/ Acquire(t) \/ TryAcquire(t) \/ ScopeClosed(t)
        PROVE  FollowInv'
    <2>1. PICK pc \in {"queued", "aborting", "trying", "active", "backout", "closed"} :
             /\ turn' = Go(t, pc) /\ follow' = follow
             /\ turn[t].pc \in {"closing", "closed", "settled"} => pc = "closed"
      BY <1>2 DEF ArriveQueue, ArriveInterrupt, ArriveUncaptured, AbortAwaited, Acquire, TryAcquire,
         Admitted, ScopeClosed, Queued
    <2>2. pc \in Pcs \ {"new", "captured"}
      BY DEF Pcs
    <2> QED BY <2>1, <2>2, GoKept, KeptFollows
  <1>3. ASSUME NEW t \in Turns, ArriveBlocked(t) \/ LeaseReleased(t)
        PROVE  FollowInv'
    <2>1. PICK o \in {"blocked", "ran"} : turn' = Settle(t, o) /\ follow' = follow
      BY <1>3 DEF ArriveBlocked, LeaseReleased
    <2> QED BY <2>1, SettleKept, KeptFollows
  <1>4. ASSUME NEW t \in Turns, SkipBusy(t) \/ BackOut(t)
        PROVE  FollowInv'
    <2>1. PICK o \in {"busy", "blocked"} : turn' = Settle(t, o) /\ follow' = Finalized(follow, t)
      BY <1>4 DEF SkipBusy, BackOut
    <2> QED BY <2>1, SettleKept, FinalizedMarks, KeptFollows
  <1>5. ASSUME NEW t \in Turns, ReleaseLease(t)
        PROVE  FollowInv'
    <2>1. turn' = Go(t, "closing") /\ follow' = Finalized(follow, t) /\ "closing" \in Pcs \ {"new", "captured"}
      BY <1>5 DEF ReleaseLease, Pcs
    <2> QED BY <2>1, GoKept, FinalizedMarks, KeptFollows
  <1>6. ASSUME NEW t \in Turns, MonitorConsumed(t) \/ PrepareConsumed(t)
        PROVE  FollowInv'
    <2>1. turn[t].ticket = "consumed" /\ follow' = Marked(follow, turn[t].order, "consumed")
      BY <1>6 DEF MonitorConsumed, PrepareConsumed
    <2>2. (\A u \in Turns : TurnKept(u)) /\ Over(t)'
      <3>1. CASE PrepareConsumed(t)
        BY <3>1, SettleKept DEF PrepareConsumed
      <3>2. CASE MonitorConsumed(t)
        BY <2>1, <3>2 DEF MonitorConsumed, TurnKept, Over
      <3> QED BY <1>6, <3>1, <3>2
    <2>3. turn[t].order \in Orders
      BY <1>6, CapturedHasOrder DEF MonitorConsumed, PrepareConsumed
    <2> QED BY <1>1, <2>1, <2>2, <2>3, MarkedMarks, KeptFollows
  <1>7. ASSUME NEW t \in Turns, PrepareReturned(t)
        PROVE  FollowInv'
    <2>1. turn' = Go(t, "ordered") /\ turn[t].pc = "captured" /\ "ordered" \in Pcs \ {"new", "captured"}
      BY <1>7 DEF PrepareReturned, Pcs
    <2>2. \A u \in Turns : TurnKept(u)
      BY <2>1, GoKept
    <2>3. follow' = [follow EXCEPT !.status[turn[t].order] = "active"] /\ turn[t].order \in Orders
      BY <1>7, CapturedHasOrder DEF PrepareReturned
    <2>4. /\ follow' \in Coordinators /\ follow'.nextOrder = follow.nextOrder
          /\ follow'.nextTurn = follow.nextTurn /\ Passed(follow') \subseteq Passed(follow)
      BY <1>1, <2>3 DEF Coordinators, Statuses, Passed
    <2> QED BY <1>1, <2>2, <2>4, MarkNothing
  <1>8. ASSUME NEW t \in Turns, ActivateInOrder(t)
        PROVE  FollowInv'
    <2>1. /\ turn[t].pc = "ordered" /\ follow.nextTurn = turn[t].order /\ follow' = follow
          /\ turn' = [turn EXCEPT ![t].pc = "trying", ![t].activated = TRUE]
      BY <1>8 DEF ActivateInOrder
    <2>2. /\ \A u \in Turns : u # t => turn'[u] = turn[u]
          /\ turn'[t].pc = "trying" /\ turn'[t].order = turn[t].order
          /\ turn'[t].ticket = turn[t].ticket
      BY <1>1, <2>1 DEF TurnStates
    <2>3. \A u \in Turns :
              /\ turn'[u].order = turn[u].order
              /\ Over(u) => Over(u)'
              /\ turn'[u].pc \in {"new", "captured"} => turn[u].pc = turn'[u].pc
              /\ turn'[u].activated => turn[u].activated \/ turn[u].order = follow.nextTurn
      BY <2>1, <2>2 DEF Over
    <2> QED BY <2>1, <2>3, FollowKept
  <1>9. ASSUME NEW t \in Turns, QueueDeadline(t)
        PROVE  FollowInv'
    <2>1. turn' = [turn EXCEPT ![t].pc = "settled", ![t].outcome = "timeout",
                            ![t].ticket = Withdrawn(t)] /\ follow' = Finalized(follow, t)
      BY <1>9 DEF QueueDeadline
    <2>2. /\ \A u \in Turns : u # t => turn'[u] = turn[u]
          /\ turn'[t].pc = "settled" /\ turn'[t].order = turn[t].order
          /\ turn'[t].activated = turn[t].activated
      BY <1>1, <2>1 DEF TurnStates
    <2>3. (\A u \in Turns : TurnKept(u)) /\ Over(t)'
      BY <2>2 DEF TurnKept, Over
    <2> QED BY <2>1, <2>3, FinalizedMarks, KeptFollows
  <1>10. CASE CoreConsumes \/ CoreFinishes \/ CoreTornDown
    <2>1. follow' = follow
      BY <1>10 DEF CoreConsumes, CoreFinishes, CoreTornDown
    <2>2. ASSUME NEW u \in Turns PROVE TurnKept(u)
      BY <1>1, <1>10 DEF CoreConsumes, CoreFinishes, CoreTornDown, Tickets, TurnStates, TurnKept, Over
    <2> QED BY <2>1, <2>2, SameFollow
  <1>11. CASE UNCHANGED <<turn, follow>>
    BY <1>11, SameFollow DEF TurnKept, Over
  <1> QED
    BY <1>2, <1>3, <1>4, <1>5, <1>6, <1>7, <1>8, <1>9, <1>10, <1>11, CaptureStep
       DEF Next, Arrive, Proceed, CoreEnds, CoreStarts, SleepAgain, AbortConfirmed, AbortFailed,
           CleanupEnds, NeighbourChanges, vars

(* Follow-ups that come back become turns in the order of their capture,   *)
(* however their consumption, deadlines and releases interleave            *)
(* (FollowUpOrder).                                                        *)
THEOREM FollowUpsKeepTheirOrder == Spec => []FollowUpOrder
  <1>1. Init => FollowInv
    BY FollowInit
  <1>2. AdmissionInv /\ FollowInv /\ [Next]_vars => FollowInv'
    BY FollowStep
  <1>3. AdmissionInv /\ FollowInv => FollowUpOrder
    BY FollowOrdered
  <1> QED BY <1>1, <1>2, <1>3, Admission, PTL DEF Spec

-----------------------------------------------------------------------------
(* The normal turns in the queue; candidates never come there.             *)
Waiting == {t \in Turns : Queued(t) /\ Normal(t)}

WaitInv ==
    /\ gate.normalWaiters = Cardinality(Waiting)
    /\ \A t \in Candidates : turn[t].pc \notin {"queued", "aborting"}

LEMMA WaitingCounts ==
    /\ Cardinality(Waiting) \in Nat
    /\ \A t \in Waiting : Cardinality(Waiting \ {t}) = Cardinality(Waiting) - 1
    /\ \A t : t \notin Waiting => Cardinality(Waiting \cup {t}) = Cardinality(Waiting) + 1
    /\ Cardinality(Waiting) = 0 => Waiting = {}
  <1>1. IsFiniteSet(Waiting)
    BY TurnsAssumption, FS_Subset DEF Waiting
  <1> QED BY <1>1, FS_CardinalityType, FS_RemoveElement, FS_AddElement, FS_EmptySet

(* A step of t that leaves the others where they are.                      *)
LEMMA WaitMoves ==
    ASSUME WaitInv, turn \in [Turns -> TurnStates], gate \in Gates, NEW t \in Turns,
           \A u \in Turns : u # t => (Queued(u)' <=> Queued(u)),
           \A u \in Candidates : turn'[u].pc \notin {"queued", "aborting"},
           Normal(t) =>
               \/ Queued(t)' /\ Queued(t) /\ gate'.normalWaiters = gate.normalWaiters
               \/ ~Queued(t)' /\ ~Queued(t) /\ gate'.normalWaiters = gate.normalWaiters
               \/ Queued(t)' /\ ~Queued(t) /\ gate'.normalWaiters = gate.normalWaiters + 1
               \/ ~Queued(t)' /\ Queued(t) /\ gate'.normalWaiters = gate.normalWaiters - 1,
           ~Normal(t) => gate'.normalWaiters = gate.normalWaiters
    PROVE  WaitInv'
  <1>1. /\ gate.normalWaiters = Cardinality(Waiting)
        /\ \A u : u \in Waiting <=> u \in Turns /\ Queued(u) /\ Normal(u)
        /\ \A u : u \in Waiting' <=> u \in Turns /\ Queued(u)' /\ Normal(u)
    BY DEF WaitInv, Waiting, Normal
  <1>2. CASE Waiting' = Waiting /\ gate'.normalWaiters = gate.normalWaiters
    BY <1>1, <1>2 DEF WaitInv
  <1>3. CASE t \notin Waiting /\ Waiting' = Waiting \cup {t}
             /\ gate'.normalWaiters = gate.normalWaiters + 1
    <2>1. Cardinality(Waiting \cup {t}) = Cardinality(Waiting) + 1
      BY <1>3, WaitingCounts
    <2> QED BY <1>1, <1>3, <2>1 DEF WaitInv
  <1>4. CASE t \in Waiting /\ Waiting' = Waiting \ {t}
             /\ gate'.normalWaiters = gate.normalWaiters - 1
    <2>1. Cardinality(Waiting \ {t}) = Cardinality(Waiting) - 1
      BY <1>4, WaitingCounts
    <2> QED BY <1>1, <1>4, <2>1 DEF WaitInv
  <1>5. \/ Waiting' = Waiting /\ gate'.normalWaiters = gate.normalWaiters
        \/ t \notin Waiting /\ Waiting' = Waiting \cup {t}
           /\ gate'.normalWaiters = gate.normalWaiters + 1
        \/ t \in Waiting /\ Waiting' = Waiting \ {t}
           /\ gate'.normalWaiters = gate.normalWaiters - 1
    <2>1. CASE ~Normal(t) \/ (Queued(t)' <=> Queued(t))
      <3>1. gate'.normalWaiters = gate.normalWaiters
        BY <2>1
      <3>2. \A u : u \in Waiting' <=> u \in Waiting
        BY <1>1, <2>1
      <3> QED BY <3>1, <3>2
    <2>2. CASE Normal(t) /\ Queued(t)' /\ ~Queued(t)
      <3>1. \A u : u \in Waiting' <=> u \in Waiting \/ u = t
        BY <1>1, <2>2
      <3> QED BY <1>1, <2>2, <3>1
    <2>3. CASE Normal(t) /\ ~Queued(t)' /\ Queued(t)
      <3>1. \A u : u \in Waiting' <=> u \in Waiting /\ u # t
        BY <1>1, <2>3
      <3> QED BY <1>1, <2>3, <3>1
    <2> QED BY <2>1, <2>2, <2>3
  <1> QED BY <1>2, <1>3, <1>4, <1>5

(* Steps that leave the queue alone.                                       *)
LEMMA WaitStays ==
    ASSUME WaitInv, \A u \in Turns : Queued(u)' <=> Queued(u),
           \A u \in Candidates : turn'[u].pc # "aborting",
           gate'.normalWaiters = gate.normalWaiters
    PROVE  WaitInv'
  <1>1. Waiting' = Waiting
    BY DEF Waiting, Normal
  <1>2. \A u \in Candidates : u \in Turns
    BY DEF Turns
  <1> QED BY <1>1, <1>2 DEF WaitInv, Queued

LEMMA WaitStep ==
    ASSUME AdmissionInv, WaitInv, [Next]_vars
    PROVE  WaitInv'
  <1>1. turn \in [Turns -> TurnStates] /\ gate \in Gates
    BY DEF AdmissionInv, Types
  <1>2. \A u \in Candidates : u \in Turns /\ ~Normal(u) /\ u \notin Messages
                              /\ turn[u].pc \notin {"queued", "aborting"}
    BY KindsDisjointAssumption DEF Turns, Normal, WaitInv
  <1>3. ASSUME NEW t \in Turns,
               \/ ArriveBlocked(t) \/ ArriveInterrupt(t) \/ ArriveCaptured(t) \/ ArriveUncaptured(t)
               \/ PrepareConsumed(t) \/ PrepareReturned(t) \/ ActivateInOrder(t) \/ SkipBusy(t)
               \/ BackOut(t) \/ ReleaseLease(t) \/ ScopeClosed(t) \/ LeaseReleased(t)
        PROVE  WaitInv'
    <2>1. \A u \in Turns : Queued(u)' <=> Queued(u)
      BY <1>1, <1>3, QueueKept
    <2>2. gate'.normalWaiters = gate.normalWaiters
      BY <1>1, <1>3
         DEF Gates, GateReleased, ArriveBlocked, ArriveInterrupt, ArriveCaptured, ArriveUncaptured,
             PrepareConsumed, PrepareReturned, ActivateInOrder, SkipBusy, BackOut, ReleaseLease,
             ScopeClosed, LeaseReleased
    <2>3. \A u \in Candidates : turn'[u].pc # "aborting"
      <3>1. \A u \in Turns : turn'[u].pc = "aborting" => u \in Messages \/ turn[u].pc = "aborting"
        BY <1>1, <1>3, SMTT(20), ZenonT(30)
           DEF TurnStates, Go, Settle, ArriveBlocked, ArriveInterrupt, ArriveCaptured,
               ArriveUncaptured, PrepareConsumed, PrepareReturned, ActivateInOrder, SkipBusy,
               BackOut, ReleaseLease, ScopeClosed, LeaseReleased
      <3> QED BY <1>2, <3>1
    <2> QED BY <2>1, <2>2, <2>3, WaitStays
  <1>4. ASSUME NEW t \in Turns, ArriveQueue(t) \/ AbortAwaited(t)
        PROVE  WaitInv'
    <2>1. turn' = Go(t, "queued") /\ gate' = Enqueued(t) /\ ~Queued(t) /\ t \notin Candidates
      BY <1>2, <1>4 DEF ArriveQueue, AbortAwaited, Queued
    <2>2. Queued(t)' /\ \A u \in Turns : u # t => (Queued(u)' <=> Queued(u))
      BY <1>1, <2>1, GoTurns DEF Queued, Pcs
    <2>3. \A u \in Candidates : turn'[u] = turn[u]
      BY <1>1, <1>2, <2>1, GoTurns DEF Pcs
    <2>4. gate'.normalWaiters = IF Normal(t) THEN gate.normalWaiters + 1 ELSE gate.normalWaiters
      BY <1>1, <2>1 DEF Enqueued, Gates
    <2> QED BY <1>1, <1>2, <2>1, <2>2, <2>3, <2>4, WaitMoves
  <1>5. ASSUME NEW t \in Turns, Acquire(t)
        PROVE  WaitInv'
    <2>1. /\ Queued(t) /\ (turn' = Go(t, "backout") \/ turn' = Go(t, "active"))
          /\ gate'.normalWaiters = gate.normalWaiters - (IF Normal(t) THEN 1 ELSE 0)
      BY <1>5 DEF Acquire, Admitted
    <2>2. ~Queued(t)' /\ \A u \in Turns : u # t => turn'[u] = turn[u]
      BY <1>1, <2>1, GoTurns DEF Queued, Pcs
    <2>3. t \notin Candidates /\ gate.normalWaiters \in Int
      BY <1>1, <1>2, <2>1 DEF Queued, Gates
    <2>4. \A u \in Candidates : turn'[u] = turn[u]
      BY <1>2, <2>2, <2>3
    <2>5. \A u \in Turns : u # t => (Queued(u)' <=> Queued(u))
      BY <2>2 DEF Queued
    <2>6. gate'.normalWaiters = IF Normal(t) THEN gate.normalWaiters - 1 ELSE gate.normalWaiters
      BY <2>1, <2>3
    <2> QED BY <1>1, <1>2, <2>1, <2>2, <2>4, <2>5, <2>6, WaitMoves
  <1>6. ASSUME NEW t \in Turns, TryAcquire(t)
        PROVE  WaitInv'
    <2>1. /\ turn[t].pc = "trying" /\ (turn' = Go(t, "backout") \/ turn' = Go(t, "active"))
          /\ gate'.normalWaiters = gate.normalWaiters
      BY <1>1, <1>6 DEF TryAcquire, Admitted, Gates
    <2>2. /\ \A u \in Turns : u # t => turn'[u] = turn[u]
          /\ turn'[t].pc \in {"backout", "active"}
      BY <1>1, <2>1, GoTurns DEF Pcs
    <2>3. \A u \in Turns : Queued(u)' <=> Queued(u)
      BY <2>1, <2>2 DEF Queued
    <2>4. \A u \in Candidates : turn'[u].pc # "aborting"
      BY <1>2, <2>2
    <2> QED BY <2>1, <2>3, <2>4, WaitStays
  <1>7. ASSUME NEW t \in Turns, QueueDeadline(t)
        PROVE  WaitInv'
    <2>1. /\ turn[t].pc \in {"captured", "ordered", "queued"} /\ t \notin Delayed
          /\ gate'.normalWaiters = IF Queued(t) THEN gate.normalWaiters - 1 ELSE gate.normalWaiters
      BY <1>1, <1>7 DEF QueueDeadline, Gates
    <2>2. turn'[t].pc = "settled" /\ \A u \in Turns : u # t => turn'[u] = turn[u]
      BY <1>1, <1>7 DEF QueueDeadline, TurnStates
    <2>3. \A u \in Candidates : turn'[u].pc \notin {"queued", "aborting"}
      BY <1>2, <2>2
    <2>4. ~Queued(t)' /\ \A u \in Turns : u # t => (Queued(u)' <=> Queued(u))
      BY <2>2 DEF Queued
    <2>5. ~Normal(t) => ~Queued(t)
      BY <1>2, <2>1 DEF Normal, Turns, Queued
    <2> QED BY <1>1, <2>1, <2>3, <2>4, <2>5, WaitMoves
  <1>8. CASE CoreConsumes \/ CoreFinishes \/ CoreTornDown
    <2>1. gate' = gate
      BY <1>8 DEF CoreConsumes, CoreFinishes, CoreTornDown
    <2>2. \A u \in Turns : turn'[u].pc = turn[u].pc
      BY <1>1, <1>8 DEF CoreConsumes, CoreFinishes, CoreTornDown, Tickets, TurnStates
    <2> QED BY <1>1, <1>2, <1>8, <2>1, <2>2, QueueOfCore, WaitStays
  <1>9. CASE UNCHANGED <<turn, gate>> \/ \E t \in Turns : SleepAgain(t)
    BY <1>2, <1>9, WaitStays DEF Queued, SleepAgain
  <1> QED
    BY <1>3, <1>4, <1>5, <1>6, <1>7, <1>8, <1>9
       DEF Next, Arrive, Proceed, CoreEnds, MonitorConsumed, CoreStarts, AbortConfirmed, AbortFailed,
           CleanupEnds, NeighbourChanges, vars

LEMMA WaitHolds == Spec => []WaitInv
  <1>1. Init => WaitInv
    <2> SUFFICES ASSUME Init PROVE WaitInv
      OBVIOUS
    <2>1. \A t \in Turns : turn[t].pc = "new"
      BY DEF Init, Fresh
    <2>2. Waiting = {} /\ gate.normalWaiters = 0
      BY <2>1 DEF Waiting, Queued, Init
    <2>3. Cardinality({}) = 0
      BY FS_EmptySet
    <2> QED BY <2>1, <2>2, <2>3 DEF WaitInv, Turns
  <1>2. AdmissionInv /\ WaitInv /\ [Next]_vars => WaitInv'
    BY WaitStep
  <1> QED BY <1>1, <1>2, Admission, PTL DEF Spec

(* _normal_waiters counts the normal turns in acquire(), on every way out. *)
THEOREM WaitersAreCounted == Spec => []WaitersCounted
  <1>1. WaitInv => WaitersCounted
    BY DEF WaitInv, Waiting, WaitersCounted
  <1> QED BY <1>1, WaitHolds, PTL

(* Delayed deliveries and group candidates never overtake a waiting turn.  *)
THEOREM NormalTurnsComeFirst == Spec => NormalFirst
  <1>1. ASSUME AdmissionInv, WaitInv, [Next]_vars,
               NEW t \in Delayed \cup Candidates, ~Holding(t), Holding(t)',
               NEW u \in Turns, Normal(u)
        PROVE  ~Queued(u)
    <2>1. turn \in [Turns -> TurnStates] /\ t \in Turns
      BY <1>1 DEF AdmissionInv, Types, Turns
    <2>2. Acquire(t) \/ TryAcquire(t)
      <3>1. ASSUME NEW v \in Turns, NEW pc \in Pcs, turn' = Go(v, pc),
                   pc \in {"active", "backout", "closing", "closed"} => Acquire(v) \/ TryAcquire(v) \/ Holding(v)
            PROVE  Acquire(t) \/ TryAcquire(t)
        BY <1>1, <2>1, <3>1, GoTurns DEF Holding
      <3>2. ASSUME NEW v \in Turns, \A w \in Turns : w # v => turn'[w].pc = turn[w].pc,
                   turn'[v].pc \in {"captured", "trying", "settled"}
            PROVE  FALSE
        BY <1>1, <2>1, <3>2 DEF Holding
      <3>3. ~\A w \in Turns : turn'[w].pc = turn[w].pc
        BY <1>1, <2>1 DEF Holding
      <3>4. CASE \E v \in Turns : ArriveBlocked(v) \/ PrepareConsumed(v) \/ SkipBusy(v)
                                  \/ BackOut(v) \/ LeaseReleased(v)
        <4>1. PICK v \in Turns, outcome \in {"blocked", "consumed", "busy", "ran"} :
                turn' = Settle(v, outcome)
          BY <3>4 DEF ArriveBlocked, PrepareConsumed, SkipBusy, BackOut, LeaseReleased
        <4>2. turn'[v].pc = "settled" /\ \A w \in Turns : w # v => turn'[w] = turn[w]
          BY <2>1, <4>1, SettleTurns
        <4> QED BY <3>2, <4>2
      <3>5. CASE \E v \in Turns : ArriveCaptured(v) \/ ActivateInOrder(v) \/ QueueDeadline(v)
        BY <2>1, <3>2, <3>5 DEF ArriveCaptured, ActivateInOrder, QueueDeadline, TurnStates
      <3>6. CASE \E v \in Turns : Acquire(v) \/ TryAcquire(v)
        BY <3>1, <3>6 DEF Acquire, TryAcquire, Admitted, Pcs
      <3>7. CASE \E v \in Turns : ReleaseLease(v) \/ ScopeClosed(v)
        BY <3>1, <3>7 DEF ReleaseLease, ScopeClosed, Holding, Pcs
      <3>8. CASE \E v \in Turns : ArriveQueue(v) \/ ArriveInterrupt(v) \/ ArriveUncaptured(v)
                                  \/ AbortAwaited(v) \/ PrepareReturned(v)
        BY <3>1, <3>8
           DEF ArriveQueue, ArriveInterrupt, ArriveUncaptured, AbortAwaited, PrepareReturned, Pcs
      <3>9. CASE CoreConsumes \/ CoreFinishes \/ CoreTornDown
        BY <2>1, <3>3, <3>9 DEF CoreConsumes, CoreFinishes, CoreTornDown, Tickets, TurnStates
      <3>10. CASE UNCHANGED turn
        BY <3>3, <3>10
      <3> QED
        BY <1>1, <3>4, <3>5, <3>6, <3>7, <3>8, <3>9, <3>10
           DEF Next, Arrive, Proceed, CoreEnds, MonitorConsumed, CoreStarts, AbortConfirmed,
               AbortFailed, CleanupEnds, NeighbourChanges, SleepAgain, vars
    <2>3. gate.normalWaiters = 0
      BY <1>1, <2>2 DEF Acquire, TryAcquire, MayPass, WaitInv, Queued
    <2>4. Waiting = {}
      BY <1>1, <2>3, WaitingCounts DEF WaitInv
    <2> QED BY <1>1, <2>4 DEF Waiting
  <1>2. AdmissionInv /\ WaitInv /\ [Next]_vars =>
          [\A t \in Delayed \cup Candidates : ~Holding(t) /\ Holding(t)' =>
              \A u \in Turns : Normal(u) => ~Queued(u)]_vars
    BY <1>1
  <1> QED BY <1>2, Admission, WaitHolds, PTL DEF Spec, NormalFirst

=============================================================================
