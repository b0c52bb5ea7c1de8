----------------------------- MODULE RateLimit -----------------------------
(***************************************************************************)
(* The rate limit of one session (pipeline/rate_limit_check/stage.py).     *)
(*                                                                         *)
(* Events of a session enter the stage as tasks of their own and take the  *)
(* lock of the session in the order of their arrival.  The holder drops    *)
(* the time stamps that have left the window and then passes, is discarded *)
(* or sleeps, with the lock held, until the oldest stamp has left the      *)
(* window.  The policy is the one in the configuration of the event's own  *)
(* turn, so it may differ between two events of a session.                 *)
(***************************************************************************)
EXTENDS Naturals, Sequences, FiniteSets, SequencesExt, TLC

CONSTANTS
    SessionEvents,     \* the events of the session
    Window,     \* the length of the window, rate_limit.time
    Caps,       \* the limits a configuration may hold, rate_limit.count
    Strategies, \* the strategies it may hold
    MaxClock,   \* the clock passes it only while an event sleeps
    Prompt      \* a task that is ready runs before the clock moves on

ASSUME WindowAssumption == Window \in Nat
ASSUME CapsAssumption == Caps \subseteq Nat
ASSUME StrategiesAssumption == Strategies \subseteq {"stall", "discard"}
ASSUME MaxClockAssumption == MaxClock \in Nat
ASSUME PromptAssumption == Prompt \in BOOLEAN

VARIABLES
    clock,   \* datetime.now(), in ticks
    phase,   \* where each event is
    rule,    \* the policy in the configuration of each event's turn
    line,    \* the lock's holder and its waiters, in order
    arrived, \* the events that have come, in order
    until,   \* when the stage expects the next slot for an event it held up
    passed,  \* the slots that were taken, in order
    oldest   \* the index in passed of the first time stamp in the deque

limitVars == <<clock, phase, rule, line, arrived, until, passed, oldest>>

Policies == [cap : Caps, strategy : Strategies]
NoRule == [cap |-> 0, strategy |-> "none"]
Phase == {"new", "waiting", "asleep", "passed", "discarded", "gone"}
Slot == [at : Nat, cap : Nat \ {0}]

LimitTypeOK ==
    /\ clock \in Nat
    /\ phase \in [SessionEvents -> Phase]
    /\ rule \in [SessionEvents -> Policies \cup {NoRule}]
    /\ line \in Seq(SessionEvents)
    /\ arrived \in Seq(SessionEvents)
    /\ until \in [SessionEvents -> Nat]
    /\ passed \in Seq(Slot)
    /\ oldest \in 1..(Len(passed) + 1)

LimitInit ==
    /\ clock = 0
    /\ phase = [e \in SessionEvents |-> "new"]
    /\ rule = [e \in SessionEvents |-> NoRule]
    /\ line = <<>>
    /\ arrived = <<>>
    /\ until = [e \in SessionEvents |-> 0]
    /\ passed = <<>>
    /\ oldest = 1

-----------------------------------------------------------------------------
(* A stamp on the edge of the window is still in it.                       *)
SlipExpired(slot) == slot.at + Window <= clock
Expired(slot) == slot.at + Window < clock

(* _remove_expired_timestamps: the deque loses stamps from its left end    *)
(* until one is in the window; f is the first one left.                    *)
SlipCleaned(f) == f = oldest
Cleaned(f) ==
    /\ \A i \in oldest..(f - 1) : Expired(passed[i])
    /\ f <= Len(passed) => ~Expired(passed[f])

Left(f) == Len(passed) + 1 - f

(* The next slot is expected 0.3 s after the oldest stamp leaves.          *)
SlipNextSlot(f) == passed[f].at + Window
NextSlot(f) == passed[f].at + Window + 1

Stamp(e) == [at |-> clock, cap |-> rule[e].cap]

Stamped(e) == IF rule[e].cap = 0 THEN passed ELSE Append(passed, Stamp(e))

(* asyncio.Lock serves its waiters first come, first served; a sleeper     *)
(* keeps it.                                                               *)
Kept == line
Released == Tail(line)

Arrive(e) ==
    /\ phase[e] = "new"
    /\ phase' = [phase EXCEPT ![e] = "waiting"]
    /\ \E policy \in Policies : rule' = [rule EXCEPT ![e] = policy]
    /\ line' = Append(line, e)
    /\ arrived' = Append(arrived, e)
    /\ UNCHANGED <<clock, until, passed, oldest>>

(* The holder has just taken the lock, or its sleep is over.               *)
LockReady(e) ==
    /\ line # <<>>
    /\ e = Head(line)
    /\ phase[e] = "asleep" => until[e] <= clock

Pass(e, f) ==
    /\ rule[e].cap = 0 \/ Left(f) < rule[e].cap
    /\ passed' = Stamped(e)
    /\ phase' = [phase EXCEPT ![e] = "passed"]
    /\ line' = Released
    /\ UNCHANGED until

Holds(e, f) == rule[e].cap # 0 /\ Left(f) >= rule[e].cap

Stall(e, f) ==
    /\ Holds(e, f)
    /\ rule[e].strategy = "stall"
    /\ phase' = [phase EXCEPT ![e] = "asleep"]
    /\ until' = [until EXCEPT ![e] = NextSlot(f)]
    /\ line' = Kept
    /\ UNCHANGED passed

Discard(e, f) ==
    /\ Holds(e, f)
    /\ rule[e].strategy = "discard"
    /\ phase' = [phase EXCEPT ![e] = "discarded"]
    /\ until' = [until EXCEPT ![e] = NextSlot(f)]
    /\ line' = Released
    /\ UNCHANGED passed

Check(e) ==
    /\ LockReady(e)
    /\ \E f \in oldest..(Len(passed) + 1) :
         /\ Cleaned(f)
         /\ oldest' = f
         /\ Pass(e, f) \/ Stall(e, f) \/ Discard(e, f)
    /\ UNCHANGED <<clock, rule, arrived>>

(* The event's task is cancelled while it waits or sleeps: it leaves the   *)
(* line, or the lock, without a stamp.                                     *)
Cancel(e) ==
    /\ phase[e] \in {"waiting", "asleep"}
    /\ phase' = [phase EXCEPT ![e] = "gone"]
    /\ \E i \in DOMAIN line : line[i] = e /\ line' = RemoveAt(line, i)
    /\ UNCHANGED <<clock, rule, arrived, until, passed, oldest>>

Tick ==
    /\ \/ clock < MaxClock
       \/ \E e \in SessionEvents : phase[e] = "asleep" /\ clock < until[e]
    /\ Prompt => \A e \in SessionEvents : ~LockReady(e)
    /\ clock' = clock + 1
    /\ UNCHANGED <<phase, rule, line, arrived, until, passed, oldest>>

Alike == Permutations(SessionEvents)

Decided(e) == phase[e] \in {"passed", "discarded", "gone"}

AllDecided ==
    /\ \A e \in SessionEvents : Decided(e)
    /\ UNCHANGED limitVars

LimitNext ==
    \/ \E e \in SessionEvents : Arrive(e) \/ Check(e) \/ Cancel(e)
    \/ Tick
    \/ AllDecided

LimitSpec == LimitInit /\ [][LimitNext]_limitVars

(* The event loop runs a task that is ready, and time passes.              *)
LimitLiveSpec ==
    /\ LimitSpec
    /\ WF_limitVars(Tick)
    /\ \A e \in SessionEvents : WF_limitVars(Check(e))
-----------------------------------------------------------------------------
(* No window of the configured length holds more events than the limit of  *)
(* the last one allows: a stamp is taken under the lock, of the time at    *)
(* which the event passes, and stays until it has left the window          *)
(* (RateLimitStage.process).                                               *)
WindowHolds ==
    \A j \in DOMAIN passed : \A i \in DOMAIN passed :
        i + passed[j].cap = j => passed[i].at + Window < passed[j].at

(* While an event waits, none that came after it passes, is discarded or   *)
(* sleeps: one that sleeps keeps the lock (async with self.locks[umo]).    *)
FirstCome ==
    \A i, j \in DOMAIN arrived :
        i < j /\ phase[arrived[i]] \in {"waiting", "asleep"}
            => phase[arrived[j]] \in {"waiting", "gone"}

InWindow(slot) == slot.at + Window >= clock

(* An event is discarded only when the window is full for its limit: what  *)
(* was held up, cancelled or discarded before it takes no slot             *)
(* (RateLimitStrategy.DISCARD).                                            *)
DiscardIsDue ==
    [][\A e \in SessionEvents :
         phase[e] # "discarded" /\ phase'[e] = "discarded"
           => Cardinality({i \in DOMAIN passed : InWindow(passed[i])})
                >= rule[e].cap]_limitVars

(* Every event that comes is passed, discarded or cancelled in the end: a  *)
(* sleep ends past the edge of the window, so the stamp it waited for is   *)
(* gone (the 0.3 s of stall_duration).                                     *)
EventsDecided ==
    \A e \in SessionEvents : phase[e] = "waiting" ~> Decided(e)

(* The limit resets when a discarded event was told it would: the events   *)
(* after that time find a whole window ("Fixed Window" in the class's      *)
(* docstring, stage.py:19; the notice at stage.py:85).                     *)
LimitResets ==
    [][\A e, d \in SessionEvents :
         (/\ phase[d] = "discarded" /\ until[d] <= clock
          /\ phase[e] # "discarded" /\ phase'[e] = "discarded")
           => Cardinality({i \in DOMAIN passed : passed[i].at >= until[d]})
                >= rule[e].cap]_limitVars
=============================================================================
