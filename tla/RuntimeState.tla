---------------------------- MODULE RuntimeState ----------------------------
(***************************************************************************)
(* The stored state of one Personal runtime key, and the session runtimes  *)
(* that come and go over it (personal_runtime.py, personal_state.py,       *)
(* personal_state_repository.py): creation from the stored record, binding *)
(* of turns, eviction of idle runtimes, the dirty-flag loop that saves the *)
(* state, the idle-initiation claim, the count of policy calls, shutdown,  *)
(* and a crash of the process with its restart.                            *)
(*                                                                         *)
(* Code between two awaits is one step.  A task may sleep for the creation *)
(* lock, in the load, in the turn gate, for the save lock and in the save. *)
(* An evicted runtime is no longer in "session" but lives on as long as a  *)
(* task holds it: instances are numbered.  All policy calls fall on one    *)
(* usage day.                                                              *)
(*                                                                         *)
(* Slips the runs must notice are written before the operator they distort, *)
(* under names that begin with "Slip"; no operator of the model uses them. *)
(***************************************************************************)
EXTENDS Naturals, FiniteSets

CONSTANTS
    Users,         \* turns with user activity
    Others,        \* turns without: group candidates, runtime observation events
    Heart,         \* the heartbeat task, which submits idle initiations in sequence
    Sensor,        \* submitters of other observations
    Eval, Closer,  \* a runtime's evaluation task; the task that closes it
    Nobody,
    DailyLimit,    \* daily_policy_call_limit
    MaxRuntimes,   \* bounds of the model: runtimes created in one process,
    MaxFacts,      \*   other observations submitted, idle initiations attempted,
    MaxBeats,      \*   failed saves, failed loads, cancelled saves,
    MaxFailures, MaxLoadFailures, MaxCancels,
    MaxEvictions,  \*   evictions of the key's runtime, restarts of the
    MaxRestarts, MaxShutdowns  \*   process and orderly shutdowns

Turns      == Users \cup Others
Creators   == Turns \cup {Heart, Sensor}
Persisters == Turns \cup {Heart, Eval, Closer}
Instances  == 1..MaxRuntimes

ASSUME ActorsAssumption ==
    /\ Users \cap Others = {}
    /\ Turns \cap {Heart, Sensor, Eval, Closer, Nobody} = {}
    /\ Heart \notin {Sensor, Eval, Closer, Nobody}
    /\ Sensor \notin {Eval, Closer, Nobody}
    /\ Eval \notin {Closer, Nobody} /\ Closer # Nobody
ASSUME BoundsAssumption ==
    {DailyLimit, MaxRuntimes, MaxFacts, MaxBeats, MaxFailures, MaxLoadFailures,
     MaxCancels, MaxEvictions, MaxRestarts, MaxShutdowns} \subseteq Nat

VARIABLES
    db,        \* the stored record
    session,   \* _sessions[key]: the runtime's instance, 0 for none
    rt,        \* the instances
    created,   \* instances created by this process
    creation,  \* _runtime_creation_lock: holder and waiters
    turn,      \* per turn: pc, instance, and the time of its message
    heart,     \* the heartbeat task: pc, instance, claimed epoch and the one before
    life,      \* open, closing, saving, closed; the runtime being closed
    clock,     \* messages so far: the time stamp of user activity
    told,      \* history: epochs whose idle fact was submitted, how often
    called,    \* history: policy calls made
    used       \* how much of the bounds of the model is spent

vars == <<db, session, rt, created, creation, turn, heart, life, clock, told, called, used>>

-----------------------------------------------------------------------------
(* The persistent state: last_user_activity_at and                         *)
(* last_idle_initiation_activity_at (0: None), daily_policy_calls.         *)
State == [activity : Nat, claim : Nat, calls : Nat]
Empty == [activity |-> 0, claim |-> 0, calls |-> 0]

(* A new runtime: its state, the save lock with its waiters and the        *)
(* snapshot being saved, bound and active turns, the pending facts (0: an  *)
(* observation, e: the idle initiation of epoch e), the evaluation task.   *)
Fresh(mem) ==
    [mem |-> mem, dirty |-> FALSE, holder |-> Nobody, waiting |-> {}, snap |-> Empty,
     bound |-> {}, active |-> Nobody, facts |-> {}, eval |-> "none", batch |-> {},
     closing |-> FALSE]

(* Bound turns are not asked for.                                          *)
SlipIdle(m) == m.facts = {} /\ m.eval = "none" /\ ~m.dirty

(* is_idle                                                                 *)
Idle(m) == m.bound = {} /\ m.facts = {} /\ m.eval = "none" /\ ~m.dirty

Busy(m) == m.bound # {}

(* _ensure_observation_evaluation_task: a live task is left alone; whether *)
(* it runs again is ObservationIntake's subject.                           *)
Evaluating(m) == [m EXCEPT !.eval = IF m.closing \/ m.eval # "none" THEN @ ELSE "debounce"]

(* _persist_state inside its lock: snapshot first, then clear the flag.    *)
Grab(m, p) ==
    [m EXCEPT !.holder = p, !.waiting = @ \ {p}, !.snap = m.mem, !.dirty = FALSE]

(* await _persist_state(): take the lock at once or queue for it.          *)
Persist(m, p) ==
    IF m.holder # Nobody \/ m.waiting # {} THEN [m EXCEPT !.waiting = @ \cup {p}]
    ELSE IF m.dirty THEN Grab(m, p) ELSE m

InPersist(m, p) == m.holder = p \/ p \in m.waiting

Leave(m, p) ==
    [m EXCEPT !.holder = IF @ = p THEN Nobody ELSE @, !.waiting = @ \ {p}]

(* The gate stays locked.                                                  *)
SlipSettled(m, t) ==
    LET left == [m EXCEPT !.bound = @ \ {t}]
    IN  IF ~Busy(left) /\ left.facts # {} THEN Evaluating(left) ELSE left

(* settle_turn: the last turn starts the evaluation of what is pending.    *)
Settled(m, t) ==
    LET left == [m EXCEPT !.bound = @ \ {t}, !.active = IF @ = t THEN Nobody ELSE @]
    IN  IF ~Busy(left) /\ left.facts # {} THEN Evaluating(left) ELSE left

(* The evaluation task ends; its finally-clause may start the next one.    *)
EvalEnds(m) ==
    {[m EXCEPT !.eval = "none", !.batch = {}]}
      \cup (IF m.facts # {} /\ ~m.closing
            THEN {[m EXCEPT !.eval = "debounce", !.batch = {}]} ELSE {})

(* _evict_idle_sessions: an idle runtime goes when its time is over or when *)
(* too many are idle; the clock and the other sessions decide.             *)
Swept(s, m) ==
    {s} \cup (IF s # 0 /\ Idle(m) /\ used.evictions < MaxEvictions THEN {0} ELSE {})

Spend(bound) == used' = [used EXCEPT ![bound] = @ + 1]

Evicting(s) == IF s # session THEN Spend("evictions") ELSE UNCHANGED used

-----------------------------------------------------------------------------
(* Obtaining the runtime: _get_or_create_runtime.  What the task does with *)
(* it follows in the same step.                                            *)

(* _bind_to_runtime                                                        *)
BindTurn(t, r, m) ==
    /\ rt'   = [rt EXCEPT ![r] = [m EXCEPT !.bound = @ \cup {t}]]
    /\ turn' = [turn EXCEPT ![t].pc = "bound", ![t].rt = r]
    /\ UNCHANGED <<heart, told>>

(* An epoch is claimed again and again.                                    *)
SlipIdleCheck(r, m) ==
    LET epoch == m.mem.activity
    IN  /\ UNCHANGED <<turn, told>>
        /\ epoch # 0
        /\ rt' = [rt EXCEPT ![r] =
                    Persist([m EXCEPT !.mem.claim = epoch, !.dirty = TRUE], Heart)]
        /\ heart' = [pc |-> "persist", rt |-> r, epoch |-> epoch, before |-> m.mem.claim]

(* submit_idle_initiation: ignored without user activity, before the idle  *)
(* time is over, or when the epoch is claimed; else claim it and save.     *)
IdleCheck(r, m) ==
    LET epoch == m.mem.activity
    IN  /\ UNCHANGED <<turn, told>>
        /\ \/ /\ rt'    = [rt EXCEPT ![r] = m]
              /\ heart' = [heart EXCEPT !.pc = "rest"]
           \/ /\ epoch # 0 /\ m.mem.claim < epoch
              /\ rt' = [rt EXCEPT ![r] =
                          Persist([m EXCEPT !.mem.claim = epoch, !.dirty = TRUE], Heart)]
              /\ heart' = [pc |-> "persist", rt |-> r, epoch |-> epoch, before |-> m.mem.claim]

(* submit_observation                                                      *)
Sense(r, m) ==
    /\ rt' = [rt EXCEPT ![r] = Evaluating([m EXCEPT !.facts = @ \cup {0}])]
    /\ UNCHANGED <<turn, heart, told>>

Obtained(c, r, m) ==
    \/ c \in Turns /\ BindTurn(c, r, m)
    \/ c = Heart   /\ IdleCheck(r, m)
    \/ c = Sensor  /\ Sense(r, m)

(* The creator waits: for the lock, or for the record.                     *)
Creating(c) ==
    /\ turn'  = IF c \in Turns THEN [turn EXCEPT ![c].pc = "create"] ELSE turn
    /\ heart' = IF c = Heart THEN [heart EXCEPT !.pc = "create"] ELSE heart
    /\ UNCHANGED <<rt, told>>

(* Inside the lock: the runtime there is, or the load of a new one.        *)
LookUp(c, s, lock) ==
    \/ s # 0 /\ Obtained(c, s, rt[s]) /\ creation' = lock
    \/ s = 0 /\ Creating(c) /\ creation' = [lock EXCEPT !.holder = c]

(* Evict, then look the key up; the lock may be held by another creator.   *)
SeekRuntime(c) ==
    \E s \in Swept(session, rt[session]) :
        /\ session' = s
        /\ \/ creation.holder = Nobody /\ creation.waiting = {} /\ LookUp(c, s, creation)
           \/ /\ creation.holder # Nobody \/ creation.waiting # {}
              /\ Creating(c)
              /\ creation' = [creation EXCEPT !.waiting = @ \cup {c}]

TakeCreationLock(c) ==
    /\ creation.holder = Nobody /\ c \in creation.waiting
    /\ LookUp(c, session, [creation EXCEPT !.waiting = @ \ {c}])
    /\ UNCHANGED <<db, session, created, life, clock, called, used>>

(* The record is loaded, or the load fails and the runtime starts empty.   *)
Load(c) ==
    /\ creation.holder = c /\ created < MaxRuntimes
    /\ created'  = created + 1
    /\ session'  = created'
    /\ creation' = [creation EXCEPT !.holder = Nobody]
    /\ \/ Obtained(c, created', Fresh(db)) /\ UNCHANGED used
       \/ used.loads < MaxLoadFailures /\ Obtained(c, created', Fresh(Empty)) /\ Spend("loads")
    /\ UNCHANGED <<db, life, clock, called>>

-----------------------------------------------------------------------------
(* A turn.                                                                 *)

(* submit_platform_event: _reserve refuses turns once shutdown has begun;  *)
(* the persona of the turn is resolved next.                               *)
Arrive(t) ==
    /\ turn[t].pc = "new" /\ life.phase = "open"
    /\ clock' = clock + 1
    /\ turn'  = [turn EXCEPT ![t].pc = "arrived", ![t].at = clock']
    /\ UNCHANGED <<db, session, rt, created, creation, heart, life, told, called, used>>

(* _bind                                                                   *)
Bind(t) ==
    /\ turn[t].pc = "arrived"
    /\ SeekRuntime(t)
    /\ Evicting(session')
    /\ UNCHANGED <<db, created, life, clock, called>>

(* admit, once the gate is free: mark_turn_active                          *)
Admit(t) ==
    LET r == turn[t].rt
        m == rt[r]
        activity == IF t \in Users /\ turn[t].at > m.mem.activity
                    THEN turn[t].at ELSE m.mem.activity
    IN  /\ turn[t].pc = "bound" /\ m.active = Nobody
        /\ rt' = [rt EXCEPT ![r] = [m EXCEPT !.active = t, !.mem.activity = activity,
                                             !.dirty = @ \/ activity # m.mem.activity]]
        /\ turn' = [turn EXCEPT ![t].pc = "active"]
        /\ UNCHANGED <<db, session, created, creation, heart, life, clock, told, called, used>>

(* _settle on the runtime's state m; the runtime it was bound to.          *)
SettleTurn(t, r, m) ==
    /\ rt'   = [rt EXCEPT ![r] = Settled(m, t)]
    /\ turn' = [turn EXCEPT ![t].pc = "done"]
    /\ session' \in Swept(session, rt'[session])

(* A turn that is consumed, refused or cancelled before it is active.      *)
Abandon(t) ==
    /\ \/ /\ turn[t].pc = "bound"
          /\ SettleTurn(t, turn[t].rt, rt[turn[t].rt])
          /\ UNCHANGED creation
       \/ /\ turn[t].pc \in {"arrived", "create"}
          /\ turn' = [turn EXCEPT ![t].pc = "done"]
          /\ creation' = [holder  |-> IF creation.holder = t THEN Nobody ELSE creation.holder,
                          waiting |-> creation.waiting \ {t}]
          /\ UNCHANGED <<rt, session>>
    /\ Evicting(session')
    /\ UNCHANGED <<db, created, heart, life, clock, told, called>>

(* PersonalTurnLease.release: feedback that changes the state, or finds it *)
(* unsaved, saves it; past the deadline there is no feedback.              *)
Release(t) ==
    LET r == turn[t].rt
        m == rt[r]
    IN  /\ turn[t].pc = "active"
        /\ \/ /\ SettleTurn(t, r, m)
              /\ Evicting(session')
           \/ /\ rt'   = [rt EXCEPT ![r] = Persist([m EXCEPT !.dirty = TRUE], t)]
              /\ turn' = [turn EXCEPT ![t].pc = "persist"]
              /\ UNCHANGED <<session, used>>
        /\ UNCHANGED <<db, created, creation, heart, life, clock, told, called>>

Turn(t) == Arrive(t) \/ Bind(t) \/ Admit(t) \/ Abandon(t) \/ Release(t)

-----------------------------------------------------------------------------
(* The other submitters.                                                   *)
Beat ==
    /\ heart.pc = "rest" /\ life.phase = "open" /\ used.beats < MaxBeats
    /\ SeekRuntime(Heart)
    /\ used' = [used EXCEPT !.beats = @ + 1,
                            !.evictions = IF session' # session THEN @ + 1 ELSE @]
    /\ UNCHANGED <<db, created, life, clock, called>>

Observe ==
    /\ life.phase = "open" /\ used.facts < MaxFacts
    /\ Sensor # creation.holder /\ Sensor \notin creation.waiting
    /\ SeekRuntime(Sensor)
    /\ used' = [used EXCEPT !.facts = @ + 1,
                            !.evictions = IF session' # session THEN @ + 1 ELSE @]
    /\ UNCHANGED <<db, created, life, clock, called>>

(* A bind or a settle of another session sweeps this one.                  *)
OtherSession ==
    /\ session # 0 /\ 0 \in Swept(session, rt[session])
    /\ session' = 0
    /\ Spend("evictions")
    /\ UNCHANGED <<db, rt, created, creation, turn, heart, life, clock, told, called>>

-----------------------------------------------------------------------------
(* Saving.  When _persist_state is over for p, what p does next follows in *)
(* the same step, on the runtime's state m.                                *)

(* The idle fact of an epoch replaces the one of an earlier epoch.         *)
WithIdleFact(m, epoch) == Evaluating([m EXCEPT !.facts = (@ \cap {0}) \cup {epoch}])

(* submit_idle_initiation, after its save: submit the fact, or take the    *)
(* claim back.  Cancellation passes the except-clause by.                  *)
HeartSaved(r, m, outcome) ==
    \/ /\ outcome = "saved"
       /\ rt'    = [rt EXCEPT ![r] = WithIdleFact(m, heart.epoch)]
       /\ told'  = [told EXCEPT ![heart.epoch] = @ + 1]
       /\ heart' = [heart EXCEPT !.pc = "rest"]
    \/ /\ outcome = "failed"
       /\ rt'    = [rt EXCEPT ![r] = [m EXCEPT !.mem.claim = heart.before, !.dirty = TRUE]]
       /\ heart' = [heart EXCEPT !.pc = "rest"]
       /\ UNCHANGED told
    \/ /\ outcome = "cancelled"
       /\ rt'    = [rt EXCEPT ![r] = m]
       /\ heart' = [heart EXCEPT !.pc = "stopped"]
       /\ UNCHANGED told

(* The policy calls its provider whether or not the count was stored.      *)
SlipEvalSaved(r, m, outcome) ==
    \/ /\ m.eval = "count" /\ outcome # "cancelled"
       /\ rt'     = [rt EXCEPT ![r] = [m EXCEPT !.eval = "provider"]]
       /\ called' = called + 1
    \/ /\ m.eval = "defer" \/ outcome = "cancelled"
       /\ \E ended \in EvalEnds(m) : rt' = [rt EXCEPT ![r] = ended]
       /\ UNCHANGED called

(* The policy calls its provider once the count is stored, and fails       *)
(* closed when it could not be; a deferral ends the evaluation either way. *)
EvalSaved(r, m, outcome) ==
    \/ /\ m.eval = "count" /\ outcome = "saved"
       /\ rt'     = [rt EXCEPT ![r] = [m EXCEPT !.eval = "provider"]]
       /\ called' = called + 1
    \/ /\ m.eval = "defer" \/ outcome # "saved"
       /\ \E ended \in EvalEnds(m) : rt' = [rt EXCEPT ![r] = ended]
       /\ UNCHANGED called

(* close() logs a failed save; shutdown then drops every session.          *)
CloserSaved(r, m) ==
    /\ rt'      = [rt EXCEPT ![r] = m]
    /\ session' = 0
    /\ life'    = [phase |-> "closed", rt |-> 0]

Resume(r, p, m, outcome) ==
    \/ /\ p \in Turns /\ SettleTurn(p, r, m)
       /\ UNCHANGED <<heart, life, told, called>>
    \/ /\ p = Heart /\ HeartSaved(r, m, outcome)
       /\ UNCHANGED <<session, turn, life, called>>
    \/ /\ p = Eval /\ EvalSaved(r, m, outcome)
       /\ UNCHANGED <<session, turn, heart, life, told>>
    \/ /\ p = Closer /\ CloserSaved(r, m)
       /\ UNCHANGED <<turn, heart, told, called>>

(* The flag is cleared after the save.                                     *)
SlipSaveDone(r, p) ==
    /\ rt[r].holder = p
    /\ db' = rt[r].snap
    /\ Resume(r, p, [Leave(rt[r], p) EXCEPT !.dirty = FALSE], "saved")
    /\ used' = [used EXCEPT !.evictions = IF p \in Turns /\ session' # session THEN @ + 1 ELSE @]
    /\ UNCHANGED <<created, creation, clock>>

(* The save succeeds; the loop saves again what changed meanwhile.         *)
SaveDone(r, p) ==
    /\ rt[r].holder = p
    /\ db' = rt[r].snap
    /\ \/ /\ rt[r].dirty
          /\ rt' = [rt EXCEPT ![r] = Grab(@, p)]
          /\ UNCHANGED <<session, turn, heart, life, told, called, used>>
       \/ /\ ~rt[r].dirty
          /\ Resume(r, p, Leave(rt[r], p), "saved")
          /\ used' = [used EXCEPT !.evictions = IF p \in Turns /\ session' # session THEN @ + 1 ELSE @]
    /\ UNCHANGED <<created, creation, clock>>

(* The save raises: the state is dirty again and the error goes up.        *)
SaveFails(r, p) ==
    /\ rt[r].holder = p /\ used.failures < MaxFailures
    /\ Resume(r, p, [Leave(rt[r], p) EXCEPT !.dirty = TRUE], "failed")
    /\ Spend("failures")
    /\ UNCHANGED <<db, created, creation, clock>>

(* The caller is cancelled, by its deadline or by a shutdown, in the save  *)
(* or in front of the lock.  The record may be written or not; the dirty   *)
(* flag stays as it is.                                                    *)
SaveCancelled(r, p) ==
    /\ p # Closer /\ InPersist(rt[r], p) /\ used.cancels < MaxCancels
    /\ p = Heart => life.phase = "open" /\ used.shutdowns < MaxShutdowns
    /\ p = Eval  => rt[r].closing
    /\ db' \in {db} \cup (IF rt[r].holder = p THEN {rt[r].snap} ELSE {})
    /\ Resume(r, p, Leave(rt[r], p), "cancelled")
    /\ Spend("cancels")
    /\ UNCHANGED <<created, creation, clock>>

(* A waiter gets the lock; somebody may have saved its change already.     *)
TakeSaveLock(r, p) ==
    /\ rt[r].holder = Nobody /\ p \in rt[r].waiting
    /\ \/ /\ rt[r].dirty
          /\ rt' = [rt EXCEPT ![r] = Grab(@, p)]
          /\ UNCHANGED <<session, turn, heart, life, told, called, used>>
       \/ /\ ~rt[r].dirty
          /\ Resume(r, p, Leave(rt[r], p), "saved")
          /\ used' = [used EXCEPT !.evictions = IF p \in Turns /\ session' # session THEN @ + 1 ELSE @]
    /\ UNCHANGED <<db, created, creation, clock>>

-----------------------------------------------------------------------------
(* The evaluation task of runtime r.                                       *)
EvalStep(r, m) ==
    /\ rt' = [rt EXCEPT ![r] = m]
    /\ UNCHANGED <<db, session, created, creation, turn, heart, life, clock, told, called, used>>

(* DeterministicObservationGate: a batch with a stale idle initiation is   *)
(* rejected whole, a busy runtime holds it, a spent budget rejects it;     *)
(* mute, quiet hours and cooldowns may reject or hold it.                  *)
Gate(m) ==
    IF m.facts = {} \/ (\E e \in m.facts \ {0} : e # m.mem.activity)
    THEN {"reject"}
    ELSE {"reject", "hold"}
           \cup (IF Busy(m) \/ m.mem.calls >= DailyLimit THEN {} ELSE {"evaluate"})

(* _evaluate_observations: close the batch and ask the gate.               *)
Drain(r) ==
    LET m == rt[r]
    IN  /\ m.eval = "debounce"
        /\ \/ /\ "reject" \in Gate(m)
              /\ \E ended \in EvalEnds([m EXCEPT !.facts = {}]) : EvalStep(r, ended)
           \/ /\ "hold" \in Gate(m)
              /\ EvalStep(r, [m EXCEPT !.eval = "none"])
           \/ /\ "evaluate" \in Gate(m)
              /\ EvalStep(r, [m EXCEPT !.eval = "policy", !.batch = m.facts, !.facts = {}])

(* The policy gives up before its provider, or counts the call and saves.  *)
Policy(r) ==
    LET m == rt[r]
    IN  /\ m.eval = "policy"
        /\ \/ \E ended \in EvalEnds(m) : EvalStep(r, ended)
           \/ EvalStep(r, Persist([m EXCEPT !.mem.calls = @ + 1, !.dirty = TRUE,
                                            !.eval = "count"], Eval))

(* The provider answers: nothing to do, an expression, or a deferral that  *)
(* puts the batch back and saves its deadline.                             *)
Decide(r) ==
    LET m == rt[r]
        newest == {e \in m.batch \cup m.facts : e = 0 \/ \A f \in m.facts : f <= e}
    IN  /\ m.eval = "provider"
        /\ \/ \E ended \in EvalEnds(m) : EvalStep(r, ended)
           \/ EvalStep(r, Persist([m EXCEPT !.facts = newest, !.batch = {}, !.dirty = TRUE,
                                            !.eval = "defer"], Eval))

(* wake_observations, for the runtime that holds facts.                    *)
Wake(r) ==
    /\ r = session /\ life.phase = "open"
    /\ rt[r].eval = "none" /\ rt[r].facts # {} /\ ~Busy(rt[r])
    /\ EvalStep(r, Evaluating(rt[r]))

Evaluation(r) == Drain(r) \/ Policy(r) \/ Decide(r) \/ Wake(r)

-----------------------------------------------------------------------------
(* AstrBotCoreLifecycle.stop and PersonalRuntimeManager.shutdown.          *)

(* The service tasks are cancelled first.                                  *)
StopHeart ==
    /\ heart.pc \in {"rest", "create"} /\ life.phase = "open"
    /\ used.shutdowns < MaxShutdowns
    /\ heart' = [heart EXCEPT !.pc = "stopped"]
    /\ creation' = [holder  |-> IF creation.holder = Heart THEN Nobody ELSE creation.holder,
                    waiting |-> creation.waiting \ {Heart}]
    /\ UNCHANGED <<db, session, rt, created, turn, life, clock, told, called, used>>

(* Stop accepting; every session's runtime starts to close.                *)
Shutdown ==
    /\ heart.pc = "stopped" /\ life.phase = "open"
    /\ life' = IF session = 0 THEN [phase |-> "closed", rt |-> 0]
                              ELSE [phase |-> "closing", rt |-> session]
    /\ rt' = [r \in Instances |-> IF r = session THEN [rt[r] EXCEPT !.closing = TRUE] ELSE rt[r]]
    /\ Spend("shutdowns")
    /\ UNCHANGED <<db, session, created, creation, turn, heart, clock, told, called>>

(* close cancels the evaluation outside a save; SaveCancelled is the rest. *)
EvalStops(r) ==
    /\ life = [phase |-> "closing", rt |-> r]
    /\ rt[r].eval \in {"debounce", "policy", "provider"}
    /\ EvalStep(r, [rt[r] EXCEPT !.eval = "none", !.batch = {}])

(* close, after its evaluation task: clear the inbox, save what is dirty.  *)
CloseRuntime ==
    LET r == life.rt
        m == [rt[r] EXCEPT !.facts = {}]
        asked == Persist(m, Closer)
    IN  /\ life.phase = "closing" /\ m.eval = "none"
        /\ \/ /\ InPersist(asked, Closer)
              /\ rt'   = [rt EXCEPT ![r] = asked]
              /\ life' = [life EXCEPT !.phase = "saving"]
              /\ UNCHANGED session
           \/ /\ ~InPersist(asked, Closer)
              /\ CloserSaved(r, m)
        /\ UNCHANGED <<db, created, creation, turn, heart, clock, told, called, used>>

(* The process dies, or ends after its shutdown, and starts again: only    *)
(* the record is left, with or without the save that was under way.        *)
Restart ==
    /\ used.restarts < MaxRestarts
    /\ Spend("restarts")
    /\ db' \in {db} \cup {rt[r].snap : r \in {i \in Instances : rt[i].holder # Nobody}}
    /\ rt'       = [r \in Instances |-> Fresh(Empty)]
    /\ session'  = 0
    /\ created'  = 0
    /\ creation' = [holder |-> Nobody, waiting |-> {}]
    /\ turn'     = [t \in Turns |-> [turn[t] EXCEPT !.pc = IF @ = "new" THEN "new" ELSE "done", !.rt = 0]]
    /\ heart'    = [pc |-> "rest", rt |-> 0, epoch |-> 0, before |-> 0]
    /\ life'     = [phase |-> "open", rt |-> 0]
    /\ UNCHANGED <<clock, told, called>>

-----------------------------------------------------------------------------
Init ==
    /\ db       = Empty
    /\ session  = 0
    /\ rt       = [r \in Instances |-> Fresh(Empty)]
    /\ created  = 0
    /\ creation = [holder |-> Nobody, waiting |-> {}]
    /\ turn     = [t \in Turns |-> [pc |-> "new", rt |-> 0, at |-> 0]]
    /\ heart    = [pc |-> "rest", rt |-> 0, epoch |-> 0, before |-> 0]
    /\ life     = [phase |-> "open", rt |-> 0]
    /\ clock    = 0
    /\ told     = [e \in 1..Cardinality(Turns) |-> 0]
    /\ called   = 0
    /\ used     = [evictions |-> 0, failures |-> 0, loads |-> 0, cancels |-> 0,
                   restarts |-> 0, shutdowns |-> 0, facts |-> 0, beats |-> 0]

Saving(r, p) == SaveDone(r, p) \/ SaveFails(r, p) \/ SaveCancelled(r, p) \/ TakeSaveLock(r, p)

Next ==
    \/ \E t \in Turns : Turn(t)
    \/ \E c \in Creators : TakeCreationLock(c) \/ Load(c)
    \/ Beat \/ Observe \/ OtherSession
    \/ \E r \in Instances : Evaluation(r) \/ EvalStops(r)
    \/ \E r \in Instances, p \in Persisters : Saving(r, p)
    \/ StopHeart \/ Shutdown \/ CloseRuntime \/ Restart

(* The event loop runs what is ready, the database answers, an active turn *)
(* ends (TurnAdmission and CoreExecution bound it).                        *)
Fairness ==
    /\ \A t \in Turns : WF_vars(Bind(t)) /\ WF_vars(Admit(t)) /\ WF_vars(Release(t))
    /\ \A c \in Creators : WF_vars(TakeCreationLock(c)) /\ WF_vars(Load(c))
    /\ \A r \in Instances, p \in Persisters :
          WF_vars(SaveDone(r, p)) /\ WF_vars(TakeSaveLock(r, p))

Spec     == Init /\ [][Next]_vars
FairSpec == Spec /\ Fairness

-----------------------------------------------------------------------------
(* Every variable has its type.                                            *)
Epochs == 0..Cardinality(Turns)

Runtime ==
    [mem : State, dirty : BOOLEAN, holder : Persisters \cup {Nobody},
     waiting : SUBSET Persisters, snap : State, bound : SUBSET Turns,
     active : Turns \cup {Nobody}, facts : SUBSET Nat,
     eval : {"none", "debounce", "policy", "count", "provider", "defer"},
     batch : SUBSET Nat, closing : BOOLEAN]

TypeOK ==
    /\ db \in State
    /\ session \in 0..MaxRuntimes /\ created \in 0..MaxRuntimes
    /\ rt \in [Instances -> Runtime]
    /\ creation \in [holder : Creators \cup {Nobody}, waiting : SUBSET Creators]
    /\ turn \in [Turns -> [pc : {"new", "arrived", "create", "bound", "active", "persist", "done"},
                          rt : 0..MaxRuntimes, at : Nat]]
    /\ heart \in [pc : {"rest", "create", "persist", "stopped"}, rt : 0..MaxRuntimes,
                  epoch : Nat, before : Nat]
    /\ life \in [phase : {"open", "closing", "saving", "closed"}, rt : 0..MaxRuntimes]
    /\ clock \in Nat /\ called \in Nat

(* A turn that is bound keeps its runtime: until shutdown the runtime a    *)
(* bound turn works on is the key's runtime, whatever evictions, creations *)
(* and crashes of others come between (_evict_runtime, _bind).             *)
BoundIsCurrent ==
    \A t \in Turns : turn[t].pc \in {"bound", "active", "persist"} =>
        \/ turn[t].rt = session /\ t \in rt[session].bound
        \/ life.phase = "closed"

(* What the code does not survive, and the promises below leave out: a     *)
(* save that is cancelled loses what it had taken, a load that fails       *)
(* starts from an empty state over a record that is not, a runtime made    *)
(* after shutdown is closed by nobody, and an evicted runtime whose idle   *)
(* initiation is being saved saves over its successor's record             *)
(* (RuntimeState_disagrees.cfg).                                           *)
Undisturbed ==
    /\ used.cancels = 0 /\ used.loads = 0 /\ used.shutdowns = 0
    /\ used.evictions = 0 \/ used.beats = 0

(* Saved means saved: when the flag is clear and no save is under way, the *)
(* record is the runtime's state, however changes, failed saves, evictions *)
(* and crashes interleave (_persist_state, persist_state_if_dirty).        *)
CleanIsDurable ==
    Undisturbed /\ session # 0 /\ ~rt[session].dirty /\ rt[session].holder = Nobody
        => db = rt[session].mem

(* docs/Yakumo/modules/runtime.md:166-167: a policy call is counted in the *)
(* record before it is made, and not made when that fails.                 *)
EveryCallCounted == called <= db.calls

(* No policy call is made that the record does not count, so a restart     *)
(* cannot give the day's calls away again (_evaluate_personal_policy).     *)
CallsAreCounted == Undisturbed => EveryCallCounted

(* The calls of a day stay within the limit, restarts included.            *)
CallsWithinLimit == Undisturbed => called <= DailyLimit

(* The idle initiation of an epoch is submitted once, restarts included.   *)
OncePerEpoch == Undisturbed => \A e \in DOMAIN told : told[e] <= 1

(* An idle initiation goes out only when the record holds its claim: a     *)
(* crash may lose an initiation, never send it again (submit_idle).        *)
ClaimBeforeFact ==
    [][Undisturbed => \A e \in DOMAIN told : told'[e] # told[e] => db'.claim >= e]_vars

(* A later save never takes back user activity or counted calls.           *)
RecordGrows ==
    [][Undisturbed => db'.activity >= db.activity /\ db'.calls >= db.calls]_vars

(* Every turn that arrived is settled: no lock keeps it for ever.          *)
TurnsSettle == \A t \in Turns : turn[t].pc = "arrived" ~> turn[t].pc = "done"

(* docs/Yakumo/modules/runtime.md:163: a runtime whose control state is    *)
(* not yet stored is not idle and cannot be evicted.                       *)
EvictsOnlyStored ==
    [][used'.evictions # used.evictions => db' = rt'[session].mem]_vars

(* docs/Yakumo/current-state.md:324: shutdown cancels the evaluation tasks *)
(* and waits for them.                                                     *)
ClosedIsQuiet == life.phase = "closed" => \A r \in Instances : rt[r].eval = "none"

=============================================================================
