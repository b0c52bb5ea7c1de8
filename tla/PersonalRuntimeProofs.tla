------------------------ MODULE PersonalRuntimeProofs ------------------------
(***************************************************************************)
(* Theorems about a Personal session runtime, for every set of turns and   *)
(* every bound.  First its stored state (module RuntimeState): a bound     *)
(* turn keeps its runtime, a clean instance is as stored, the stored       *)
(* record only grows, calls stay counted and an idle epoch is told once.   *)
(* Then its inbox (ObservationIntake): pending facts are never stranded,   *)
(* every fact is retained or settled, and none is told twice.              *)
(***************************************************************************)
EXTENDS RuntimeState, ObservationIntake, FiniteSetTheorems, SequenceTheorems, TLAPS

-----------------------------------------------------------------------------
(* What the helpers do with an instance.                                   *)
SameSave(m, n) ==
    /\ n.mem = m.mem /\ n.dirty = m.dirty /\ n.holder = m.holder
    /\ n.waiting = m.waiting /\ n.snap = m.snap

Evals == {"none", "debounce", "policy", "count", "provider", "defer"}

(* A new instance is quiet and holds the state it was given.               *)
LEMMA FreshIs ==
    ASSUME NEW s \in State
    PROVE  /\ Fresh(s) \in Runtime
           /\ Fresh(s).mem = s /\ ~Fresh(s).dirty /\ Fresh(s).holder = Nobody
           /\ Fresh(s).waiting = {} /\ Fresh(s).bound = {} /\ Fresh(s).eval = "none"
           /\ Fresh(s).snap = Empty /\ Empty \in State
           /\ \A p : ~InPersist(Fresh(s), p) \/ p = Nobody
<1>1. Empty \in State
  BY DEF Empty, State
<1> QED
  BY <1>1 DEF Fresh, Runtime, InPersist

(* Fields that have nothing to do with saving.                             *)
LEMMA Bound ==
    ASSUME NEW m \in Runtime, NEW b \in SUBSET Turns
    PROVE  LET n == [m EXCEPT !.bound = b]
           IN  n \in Runtime /\ SameSave(m, n) /\ n.bound = b /\ n.eval = m.eval /\ n.facts = m.facts
BY DEF Runtime, SameSave

LEMMA Noted ==
    ASSUME NEW m \in Runtime, NEW f \in SUBSET Nat
    PROVE  LET n == [m EXCEPT !.facts = f]
           IN  n \in Runtime /\ SameSave(m, n) /\ n.bound = m.bound /\ n.eval = m.eval /\ n.facts = f
BY DEF Runtime, SameSave

LEMMA EvalSet ==
    ASSUME NEW m \in Runtime, NEW v \in Evals
    PROVE  LET n == [m EXCEPT !.eval = v]
           IN  n \in Runtime /\ SameSave(m, n) /\ n.bound = m.bound /\ n.eval = v /\ n.facts = m.facts
BY DEF Runtime, SameSave, Evals

LEMMA EvalLeft ==
    ASSUME NEW m \in Runtime, NEW v \in Evals
    PROVE  LET n == [m EXCEPT !.eval = v, !.batch = {}]
           IN  n \in Runtime /\ SameSave(m, n) /\ n.bound = m.bound /\ n.eval = v
BY DEF Runtime, SameSave, Evals

LEMMA BatchTaken ==
    ASSUME NEW m \in Runtime
    PROVE  LET n == [m EXCEPT !.eval = "policy", !.batch = m.facts, !.facts = {}]
           IN  n \in Runtime /\ SameSave(m, n) /\ n.bound = m.bound /\ n.eval = "policy"
BY DEF Runtime, SameSave

LEMMA ClosingIs ==
    ASSUME NEW m \in Runtime
    PROVE  LET n == [m EXCEPT !.closing = TRUE]
           IN  n \in Runtime /\ SameSave(m, n) /\ n.bound = m.bound /\ n.eval = m.eval
BY DEF Runtime, SameSave

LEMMA EvaluatingIs ==
    ASSUME NEW m \in Runtime
    PROVE  LET n == Evaluating(m)
           IN  /\ n \in Runtime /\ SameSave(m, n) /\ n.bound = m.bound /\ n.facts = m.facts
               /\ n.eval = m.eval \/ (n.eval = "debounce" /\ m.eval = "none")
<1> DEFINE v == IF m.closing \/ m.eval # "none" THEN m.eval ELSE "debounce"
<1>0. m.eval \in Evals
  BY DEF Runtime, Evals
<1>1. v \in Evals /\ (v = m.eval \/ (v = "debounce" /\ m.eval = "none"))
  <2>1. CASE m.closing \/ m.eval # "none"
    BY <1>0, <2>1, Zenon
  <2>2. CASE ~(m.closing \/ m.eval # "none")
    BY <2>2 DEF Evals
  <2> QED
    BY <2>1, <2>2
<1>2. Evaluating(m) = [m EXCEPT !.eval = v]
  BY DEF Evaluating
<1> HIDE DEF v
<1> DEFINE n == Evaluating(m)
<1>3. n \in Runtime /\ SameSave(m, n) /\ n.bound = m.bound /\ n.eval = v /\ n.facts = m.facts
  BY <1>1, <1>2 DEF Runtime, SameSave, Evals
<1> QED
  BY <1>1, <1>3

LEMMA SettledIs ==
    ASSUME NEW m \in Runtime, NEW t \in Turns
    PROVE  LET n == Settled(m, t)
           IN  /\ n \in Runtime /\ SameSave(m, n) /\ n.bound = m.bound \ {t}
               /\ n.eval = m.eval \/ (n.eval = "debounce" /\ m.eval = "none")
<1> DEFINE left == [m EXCEPT !.bound = @ \ {t}, !.active = IF @ = t THEN Nobody ELSE @]
<1> DEFINE b == m.bound \ {t}
           a == IF m.active = t THEN Nobody ELSE m.active
<1>1. b \in SUBSET Turns /\ a \in Turns \cup {Nobody}
  BY DEF Runtime
<1>2. left = [m EXCEPT !.bound = b, !.active = a]
  OBVIOUS
<1> HIDE DEF a, b, left
<1>3. left \in Runtime /\ SameSave(m, left) /\ left.bound = b /\ left.eval = m.eval
  BY <1>1, <1>2 DEF Runtime, SameSave
<1>4. Settled(m, t) = left \/ Settled(m, t) = Evaluating(left)
  BY DEF Settled, left
<1>5. /\ Evaluating(left) \in Runtime /\ SameSave(left, Evaluating(left))
      /\ Evaluating(left).bound = left.bound
      /\ Evaluating(left).eval = left.eval \/ (Evaluating(left).eval = "debounce" /\ left.eval = "none")
  BY <1>3, EvaluatingIs
<1> QED
  BY <1>3, <1>4, <1>5 DEF SameSave, b

LEMMA EvalEndsIs ==
    ASSUME NEW m \in Runtime, NEW n \in EvalEnds(m)
    PROVE  n \in Runtime /\ SameSave(m, n) /\ n.bound = m.bound /\ n.eval \in {"none", "debounce"}
<1>1. PICK v \in {"none", "debounce"} : n = [m EXCEPT !.eval = v, !.batch = {}]
  BY DEF EvalEnds
<1>2. v \in Evals
  BY DEF Evals
<1>3. n \in Runtime /\ SameSave(m, n) /\ n.bound = m.bound /\ n.eval = v
  BY <1>1, <1>2, EvalLeft, Zenon
<1> QED
  BY <1>3

-----------------------------------------------------------------------------
(* Saving.                                                                 *)
LEMMA GrabIs ==
    ASSUME NEW m \in Runtime, NEW p \in Persisters
    PROVE  LET n == Grab(m, p)
           IN  /\ n \in Runtime /\ n.mem = m.mem /\ n.snap = m.mem /\ ~n.dirty /\ n.holder = p
               /\ n.waiting = m.waiting \ {p} /\ n.bound = m.bound /\ n.eval = m.eval
BY DEF Grab, Runtime

LEMMA WaitIs ==
    ASSUME NEW m \in Runtime, NEW p \in Persisters
    PROVE  LET n == [m EXCEPT !.waiting = @ \cup {p}]
           IN  /\ n \in Runtime /\ n.mem = m.mem /\ n.snap = m.snap /\ n.dirty = m.dirty
               /\ n.holder = m.holder /\ n.waiting = m.waiting \cup {p}
               /\ n.bound = m.bound /\ n.eval = m.eval
BY DEF Runtime

(* Only the caller comes into the save.                                    *)
LEMMA PersistIs ==
    ASSUME NEW m \in Runtime, NEW p \in Persisters
    PROVE  LET n == Persist(m, p)
           IN  /\ n \in Runtime /\ n.mem = m.mem /\ n.bound = m.bound /\ n.eval = m.eval
               /\ \A q : InPersist(n, q) => q = p \/ InPersist(m, q)
               /\ m.dirty => InPersist(n, p)
               /\ InPersist(n, p) \/ n = m
               /\ \/ n = m
                  \/ n = Grab(m, p) /\ m.holder = Nobody
                  \/ n = [m EXCEPT !.waiting = @ \cup {p}]
<1> DEFINE n == Persist(m, p)
<1>1. CASE m.holder # Nobody \/ m.waiting # {}
  <2>1. n = [m EXCEPT !.waiting = @ \cup {p}]
    BY <1>1 DEF Persist
  <2>2. /\ n \in Runtime /\ n.mem = m.mem /\ n.holder = m.holder
        /\ n.waiting = m.waiting \cup {p} /\ n.bound = m.bound /\ n.eval = m.eval
    BY <2>1 DEF Runtime
  <2> QED
    BY <2>1, <2>2 DEF InPersist
<1>2. CASE ~(m.holder # Nobody \/ m.waiting # {}) /\ m.dirty
  <2>1. n = Grab(m, p)
    BY <1>2 DEF Persist
  <2>2. /\ Grab(m, p) \in Runtime /\ Grab(m, p).mem = m.mem /\ Grab(m, p).holder = p
        /\ Grab(m, p).waiting = m.waiting \ {p}
        /\ Grab(m, p).bound = m.bound /\ Grab(m, p).eval = m.eval
    BY GrabIs
  <2> QED
    BY <1>2, <2>1, <2>2 DEF InPersist
<1>3. CASE ~(m.holder # Nobody \/ m.waiting # {}) /\ ~m.dirty
  BY <1>3 DEF Persist
<1> QED
  BY <1>1, <1>2, <1>3

LEMMA LeaveIs ==
    ASSUME NEW m \in Runtime, NEW p \in Persisters
    PROVE  LET n == Leave(m, p)
           IN  /\ n \in Runtime /\ n.mem = m.mem /\ n.snap = m.snap /\ n.dirty = m.dirty
               /\ n.bound = m.bound /\ n.eval = m.eval
               /\ n.holder = IF m.holder = p THEN Nobody ELSE m.holder
               /\ n.waiting = m.waiting \ {p}
<1>1. (IF m.holder = p THEN Nobody ELSE m.holder) \in Persisters \cup {Nobody}
  BY DEF Runtime
<1> QED
  BY <1>1 DEF Leave, Runtime

LEMMA NobodyIs ==
    /\ Nobody \notin Persisters /\ Nobody \notin Creators /\ Nobody \notin Turns
    /\ Heart \notin Turns /\ Eval \notin Turns /\ Closer \notin Turns /\ Sensor \notin Turns
    /\ Heart # Eval /\ Heart # Closer /\ Eval # Closer /\ Heart # Sensor
    /\ Heart \in Persisters /\ Eval \in Persisters /\ Closer \in Persisters
    /\ Turns \subseteq Persisters /\ Turns \subseteq Creators
    /\ Heart \in Creators /\ Sensor \in Creators
BY ActorsAssumption DEF Persisters, Creators

LEMMA LeavesSave ==
    ASSUME NEW m \in Runtime, NEW p \in Persisters
    PROVE  \A q \in Persisters : InPersist(Leave(m, p), q) <=> q # p /\ InPersist(m, q)
<1> DEFINE n == Leave(m, p)
<1>1. n.holder = IF m.holder = p THEN Nobody ELSE m.holder
  BY LeaveIs
<1>2. n.waiting = m.waiting \ {p}
  BY LeaveIs
<1> HIDE DEF n
<1> QED
  BY <1>1, <1>2, NobodyIs DEF InPersist, n

LEMMA DirtyIs ==
    ASSUME NEW m \in Runtime, NEW s \in State, NEW b \in BOOLEAN
    PROVE  LET n == [m EXCEPT !.mem = s, !.dirty = b]
           IN  /\ n \in Runtime /\ n.mem = s /\ n.snap = m.snap /\ n.dirty = b
               /\ n.bound = m.bound /\ n.eval = m.eval /\ n.holder = m.holder
               /\ n.waiting = m.waiting
BY DEF Runtime

-----------------------------------------------------------------------------
(* What the record knows of an instance's state.                           *)
Covers(s, c, h) == c <= s.calls /\ \A e \in DOMAIN h : h[e] > 0 => e <= s.claim

Grown(a, b) == a.activity <= b.activity /\ a.calls <= b.calls

Kept(m, d, c, h) ==
    /\ Covers(m.mem, c, h)
    /\ Grown(d, m.mem)
    /\ m.holder # Nobody => Covers(m.snap, c, h) /\ Grown(d, m.snap) /\ Grown(m.snap, m.mem)
    /\ ~m.dirty => m.mem = IF m.holder = Nobody THEN d ELSE m.snap
    /\ m.eval = "count" => c < m.mem.calls
    /\ m.mem.calls <= DailyLimit
    /\ m.eval = "policy" => m.mem.calls < DailyLimit

LEMMA GrownOrder ==
    ASSUME NEW a \in State, NEW b \in State, NEW c \in State
    PROVE  Grown(a, a) /\ (Grown(a, b) /\ Grown(b, c) => Grown(a, c))
BY DEF Grown, State

(* The save is left alone.                                                 *)
LEMMA KeptSame ==
    ASSUME NEW m \in Runtime, NEW n \in Runtime, NEW d, NEW c, NEW h,
           Kept(m, d, c, h), SameSave(m, n),
           n.eval = m.eval \/ n.eval # "count",
           n.eval = m.eval \/ n.eval # "policy" \/ m.mem.calls < DailyLimit
    PROVE  Kept(n, d, c, h)
BY DEF Kept, SameSave

(* The state changes and is marked as not stored.                          *)
LEMMA KeptChanged ==
    ASSUME NEW m \in Runtime, NEW n \in Runtime, NEW d \in State, NEW c, NEW h,
           Kept(m, d, c, h), n.dirty, n.holder = m.holder, n.snap = m.snap,
           Covers(n.mem, c, h), Grown(m.mem, n.mem),
           n.eval = "count" => c < n.mem.calls,
           n.mem.calls <= DailyLimit, n.eval = "policy" => n.mem.calls < DailyLimit
    PROVE  Kept(n, d, c, h)
<1>1. m.mem \in State /\ n.mem \in State /\ m.snap \in State
  BY DEF Runtime
<1>2. Grown(d, n.mem) /\ (m.holder # Nobody => Grown(m.snap, n.mem))
  BY <1>1, GrownOrder DEF Kept
<1> QED
  BY <1>2 DEF Kept

LEMMA KeptPersist ==
    ASSUME NEW m \in Runtime, NEW p \in Persisters, NEW d \in State, NEW c, NEW h,
           Kept(m, d, c, h)
    PROVE  Kept(Persist(m, p), d, c, h)
<1>1. CASE Persist(m, p) = m
  BY <1>1
<1>2. CASE Persist(m, p) = Grab(m, p) /\ m.holder = Nobody
  <2>1. m.mem \in State
    BY DEF Runtime
  <2>2. Grown(m.mem, m.mem)
    BY <2>1, GrownOrder
  <2>3. /\ Grab(m, p).mem = m.mem /\ Grab(m, p).snap = m.mem /\ ~Grab(m, p).dirty
        /\ Grab(m, p).holder = p /\ Grab(m, p).eval = m.eval /\ p # Nobody
    BY GrabIs, NobodyIs
  <2> QED
    BY <1>2, <2>2, <2>3 DEF Kept
<1>3. CASE Persist(m, p) = [m EXCEPT !.waiting = @ \cup {p}]
  <2> DEFINE n == [m EXCEPT !.waiting = @ \cup {p}]
  <2>1. /\ n.mem = m.mem /\ n.snap = m.snap /\ n.dirty = m.dirty
        /\ n.holder = m.holder /\ n.eval = m.eval
    BY WaitIs
  <2> HIDE DEF n
  <2>2. Kept(n, d, c, h)
    BY <2>1 DEF Kept
  <2> QED
    BY <1>3, <2>2 DEF n
<1> QED
  BY <1>1, <1>2, <1>3, PersistIs

(* The save is through, and the loop saves again.                          *)
LEMMA KeptAgain ==
    ASSUME NEW m \in Runtime, NEW p \in Persisters, NEW d \in State, NEW c, NEW h,
           Kept(m, d, c, h), m.holder = p
    PROVE  Kept(Grab(m, p), m.snap, c, h)
<1>1. m.mem \in State /\ Grown(m.mem, m.mem)
  BY GrownOrder DEF Runtime
<1>2. /\ Grab(m, p).mem = m.mem /\ Grab(m, p).snap = m.mem /\ ~Grab(m, p).dirty
      /\ Grab(m, p).holder = p /\ Grab(m, p).eval = m.eval /\ p # Nobody
  BY GrabIs, NobodyIs
<1> QED
  BY <1>1, <1>2 DEF Kept

LEMMA KeptFirst ==
    ASSUME NEW m \in Runtime, NEW p \in Persisters, NEW d \in State, NEW c, NEW h,
           Kept(m, d, c, h), m.holder = Nobody
    PROVE  Kept(Grab(m, p), d, c, h)
<1>1. m.mem \in State /\ Grown(m.mem, m.mem)
  BY GrownOrder DEF Runtime
<1>2. /\ Grab(m, p).mem = m.mem /\ Grab(m, p).snap = m.mem /\ ~Grab(m, p).dirty
      /\ Grab(m, p).holder = p /\ Grab(m, p).eval = m.eval /\ p # Nobody
  BY GrabIs, NobodyIs
<1> QED
  BY <1>1, <1>2 DEF Kept

(* The save is through and nothing has changed meanwhile; a save that      *)
(* found nothing left to do; and one that failed.                          *)
LEMMA KeptSaved ==
    ASSUME NEW m \in Runtime, NEW p \in Persisters, NEW d \in State, NEW c, NEW h,
           Kept(m, d, c, h), m.holder = p, ~m.dirty
    PROVE  Kept(Leave(m, p), m.snap, c, h) /\ m.snap = m.mem
<1>1. m.snap \in State /\ Grown(m.snap, m.snap)
  BY GrownOrder DEF Runtime
<1>2. m.snap = m.mem
  BY NobodyIs DEF Kept
<1>3. /\ Leave(m, p).mem = m.mem /\ Leave(m, p).snap = m.snap
      /\ Leave(m, p).dirty = m.dirty /\ Leave(m, p).eval = m.eval
      /\ Leave(m, p).holder = Nobody
  BY LeaveIs
<1> QED
  BY <1>1, <1>2, <1>3, NobodyIs DEF Kept

LEMMA KeptSkipped ==
    ASSUME NEW m \in Runtime, NEW p \in Persisters, NEW d \in State, NEW c, NEW h,
           Kept(m, d, c, h), m.holder = Nobody
    PROVE  Kept(Leave(m, p), d, c, h)
<1>1. /\ Leave(m, p).mem = m.mem /\ Leave(m, p).snap = m.snap
      /\ Leave(m, p).dirty = m.dirty /\ Leave(m, p).eval = m.eval
      /\ Leave(m, p).holder = Nobody
  BY LeaveIs
<1> QED
  BY <1>1 DEF Kept

LEMMA KeptFailed ==
    ASSUME NEW m \in Runtime, NEW p \in Persisters, NEW d \in State, NEW c, NEW h,
           Kept(m, d, c, h), m.holder = p
    PROVE  LET n == [Leave(m, p) EXCEPT !.dirty = TRUE]
           IN  n \in Runtime /\ Kept(n, d, c, h)
<1> DEFINE l == Leave(m, p)
<1>1. /\ l \in Runtime /\ l.mem = m.mem /\ l.eval = m.eval /\ l.holder = Nobody
  BY LeaveIs
<1> HIDE DEF l
<1> DEFINE n == [l EXCEPT !.dirty = TRUE]
<1>2. n \in Runtime /\ n.mem = l.mem /\ n.eval = l.eval /\ n.holder = l.holder /\ n.dirty
  BY <1>1 DEF Runtime
<1> HIDE DEF n
<1>3. Kept(n, d, c, h)
  BY <1>1, <1>2 DEF Kept
<1> QED
  BY <1>2, <1>3 DEF n, l

(* A new instance over the record.                                         *)
LEMMA KeptFresh ==
    ASSUME NEW d \in State, NEW c, NEW h, Covers(d, c, h), d.calls <= DailyLimit
    PROVE  Kept(Fresh(d), d, c, h)
<1>1. Grown(d, d)
  BY GrownOrder
<1> QED
  BY <1>1, FreshIs DEF Kept

(* More is told or called than before, and the state covers it.           *)
LEMMA KeptMore ==
    ASSUME NEW m \in Runtime, NEW d, NEW c, NEW h, NEW c1, NEW h1,
           Kept(m, d, c, h), m.holder = Nobody, Covers(m.mem, c1, h1),
           m.eval = "count" => c1 < m.mem.calls
    PROVE  Kept(m, d, c1, h1)
BY DEF Kept

-----------------------------------------------------------------------------
(* What ties the tasks to the instances, whatever fails.                   *)
TurnType  == [pc : {"new", "arrived", "create", "bound", "active", "persist", "done"},
              rt : 0..MaxRuntimes, at : Nat]
HeartType == [pc : {"rest", "create", "persist", "stopped"}, rt : 0..MaxRuntimes,
              epoch : Nat, before : Nat]
UsedType  == [{"evictions", "failures", "loads", "cancels", "restarts", "shutdowns",
               "facts", "beats"} -> Nat]
LockType  == [holder : Creators \cup {Nobody}, waiting : SUBSET Creators]
LifeType  == [phase : {"open", "closing", "saving", "closed"}, rt : 0..MaxRuntimes]

Typed ==
    /\ db \in State
    /\ session \in 0..MaxRuntimes /\ created \in 0..MaxRuntimes
    /\ rt \in [Instances -> Runtime]
    /\ creation \in LockType /\ turn \in [Turns -> TurnType]
    /\ heart \in HeartType /\ life \in LifeType
    /\ clock \in Nat /\ called \in Nat
    /\ used \in UsedType /\ told \in [1..Cardinality(Turns) -> Nat]

(* A turn that is bound keeps its instance, which is the key's as long as  *)
(* the manager has not closed.                                             *)
TurnTied(t) ==
    turn[t].pc \in {"bound", "active", "persist"} =>
        /\ turn[t].rt \in Instances /\ turn[t].rt <= created
        /\ t \in rt[turn[t].rt].bound
        /\ turn[t].rt = session \/ life.phase = "closed"

TurnsTied == \A t \in Turns : TurnTied(t)

(* The creation lock is held only while there is no runtime.               *)
InCreation(c) == creation.holder = c \/ c \in creation.waiting

LockServes ==
    /\ creation.holder # Nobody => session = 0
    /\ creation.holder \notin creation.waiting
    /\ \A t \in Turns : InCreation(t) => turn[t].pc = "create"
    /\ InCreation(Heart) => heart.pc = "create"

(* Who is in a save belongs to the instance it saves.                      *)
SaversOf(r) ==
    /\ \A t \in Turns : InPersist(rt[r], t) => turn[t].pc = "persist" /\ turn[t].rt = r
    /\ InPersist(rt[r], Heart) => heart.pc = "persist" /\ heart.rt = r
    /\ InPersist(rt[r], Eval) => rt[r].eval \in {"count", "defer"}
    /\ InPersist(rt[r], Closer) => used["shutdowns"] > 0

SaversKnown == \A r \in Instances : SaversOf(r)

Numbered ==
    /\ session <= created
    /\ life.phase \in {"closing", "saving"} => life.rt \in Instances
    /\ life.phase # "open" => used["shutdowns"] > 0
    /\ heart.pc \in {"create", "persist"} => used["beats"] > 0

Tied == Typed /\ TurnsTied /\ LockServes /\ SaversKnown /\ Numbered

(* What an instance that is not the key's any more still holds.            *)
LEMMA TypedFields ==
    ASSUME Typed
    PROVE  /\ \A t \in Turns : turn[t] \in TurnType
           /\ \A r \in Instances : rt[r] \in Runtime
           /\ session # 0 => session \in Instances
           /\ created \in Nat /\ MaxRuntimes \in Nat
           /\ 0 \notin Instances /\ Instances \subseteq 0..MaxRuntimes
BY BoundsAssumption DEF Typed, Instances

(* A step that touches one instance, one turn at most, and drops the key's *)
(* runtime only when it is not bound or the manager closes.                *)
LEMMA TurnsFollow ==
    ASSUME Tied, NEW r \in Instances, NEW n \in Runtime, NEW t,
           rt' = [rt EXCEPT ![r] = n],
           \A u \in Turns : u # t => turn'[u] = turn[u],
           (\A u \in Turns : u # t /\ u \in rt[r].bound => u \in n.bound) \/ r > created,
           created' \in Nat, created <= created',
           life.phase = "closed" => life'.phase = "closed",
           session' = session \/ session = 0 \/ life'.phase = "closed" \/ rt'[session].bound = {}
    PROVE  \A u \in Turns : u # t => TurnTied(u)'
<1> USE DEF Tied
<1> SUFFICES ASSUME NEW u \in Turns, u # t, turn[u].pc \in {"bound", "active", "persist"}
             PROVE  /\ turn[u].rt \in Instances /\ turn[u].rt <= created'
                    /\ u \in rt'[turn[u].rt].bound
                    /\ turn[u].rt = session' \/ life'.phase = "closed"
  BY DEF TurnTied
<1> DEFINE i == turn[u].rt
<1>1. /\ i \in Instances /\ i <= created /\ u \in rt[i].bound
      /\ i = session \/ life.phase = "closed"
  BY DEF TurnsTied, TurnTied
<1>2. i \in Nat /\ created \in Nat /\ r \in Nat /\ i # 0
  BY <1>1, TypedFields DEF Instances
<1> HIDE DEF i
<1>3. i <= created' /\ ~(i = r /\ r > created)
  BY <1>1, <1>2
<1>4. u \in rt'[i].bound
  <2>1. CASE i = r
    <3>1. rt'[i] = n
      BY <2>1 DEF Typed
    <3> QED
      BY <1>1, <1>3, <2>1, <3>1
  <2>2. CASE i # r
    <3>1. rt'[i] = rt[i]
      BY <1>1, <2>2 DEF Typed
    <3> QED
      BY <1>1, <3>1
  <2> QED
    BY <2>1, <2>2
<1>5. i = session' \/ life'.phase = "closed"
  <2>1. CASE life.phase = "closed"
    BY <2>1
  <2>2. CASE life.phase # "closed"
    BY <1>1, <1>2, <1>4, <2>2
  <2> QED
    BY <2>1, <2>2
<1> QED
  BY <1>1, <1>3, <1>4, <1>5 DEF i

LEMMA SaversFollow ==
    ASSUME Tied, NEW r \in Instances, NEW n \in Runtime, NEW t,
           rt' = [rt EXCEPT ![r] = n],
           \A u \in Turns : u # t => turn'[u] = turn[u],
           t \in Turns => turn[t].pc # "persist" \/ turn[t].rt = r,
           heart' = heart \/ heart.pc # "persist" \/ heart.rt = r,
           used["shutdowns"] > 0 => used'["shutdowns"] > 0,
           SaversOf(r)'
    PROVE  SaversKnown'
<1> SUFFICES ASSUME NEW q \in Instances, q # r
             PROVE  SaversOf(q)'
  BY DEF SaversKnown
<1>1. rt'[q] = rt[q] /\ SaversOf(q)
  BY DEF Tied, Typed, SaversKnown
<1>2. ASSUME NEW u \in Turns, InPersist(rt[q], u)
      PROVE  turn'[u].pc = "persist" /\ turn'[u].rt = q
  <2>1. turn[u].pc = "persist" /\ turn[u].rt = q
    BY <1>1, <1>2 DEF SaversOf
  <2> QED
    BY <2>1
<1>3. InPersist(rt[q], Heart) => heart'.pc = "persist" /\ heart'.rt = q
  BY <1>1 DEF SaversOf
<1> QED
  BY <1>1, <1>2, <1>3 DEF SaversOf

-----------------------------------------------------------------------------
(* What a task does with the runtime it obtained, in one formula.          *)
Handed(c, r, m, n) ==
    /\ n \in Runtime /\ rt' = [rt EXCEPT ![r] = n]
    /\ m.bound \subseteq n.bound
    /\ \A p \in Persisters : InPersist(n, p) =>
          InPersist(m, p) \/ (p = Heart /\ c = Heart /\ heart'.pc = "persist" /\ heart'.rt = r)
    /\ n.eval = m.eval \/ (n.eval = "debounce" /\ m.eval = "none")
    /\ told' = told
    /\ IF c \in Turns
       THEN /\ turn' = [turn EXCEPT ![c].pc = "bound", ![c].rt = r]
            /\ c \in n.bound /\ heart' = heart
       ELSE turn' = turn
    /\ IF c = Heart
       THEN heart' \in HeartType /\ heart'.pc \in {"rest", "persist"}
       ELSE heart' = heart

LEMMA SameSavers ==
    ASSUME NEW m, NEW n, SameSave(m, n)
    PROVE  \A p : InPersist(n, p) <=> InPersist(m, p)
BY DEF SameSave, InPersist

LEMMA ClaimedIs ==
    ASSUME NEW m \in Runtime, NEW e \in Nat
    PROVE  LET n == [m EXCEPT !.mem.claim = e, !.dirty = TRUE]
           IN  /\ n \in Runtime /\ n.bound = m.bound /\ n.eval = m.eval
               /\ n.holder = m.holder /\ n.waiting = m.waiting /\ n.snap = m.snap /\ n.dirty
               /\ n.mem.claim = e /\ n.mem.calls = m.mem.calls
               /\ n.mem.activity = m.mem.activity
BY DEF Runtime, State

LEMMA ObtainedTurn ==
    ASSUME Typed, NEW c \in Turns, NEW r \in Instances, NEW m \in Runtime, Obtained(c, r, m)
    PROVE  /\ Handed(c, r, m, [m EXCEPT !.bound = @ \cup {c}])
           /\ SameSave(m, [m EXCEPT !.bound = @ \cup {c}])
<1> DEFINE b == m.bound \cup {c}
           n == [m EXCEPT !.bound = b]
<1>1. BindTurn(c, r, m)
  BY NobodyIs DEF Obtained
<1>2. b \in SUBSET Turns
  BY DEF Runtime
<1>3. n \in Runtime /\ SameSave(m, n) /\ n.bound = b /\ n.eval = m.eval
  BY <1>2 DEF Runtime, SameSave
<1>4. /\ rt' = [rt EXCEPT ![r] = n] /\ heart' = heart /\ told' = told
      /\ turn' = [turn EXCEPT ![c].pc = "bound", ![c].rt = r]
  BY <1>1 DEF BindTurn
<1> HIDE DEF n
<1>5. \A p : InPersist(n, p) <=> InPersist(m, p)
  BY <1>3, SameSavers
<1>6. Handed(c, r, m, n)
  BY <1>3, <1>4, <1>5, NobodyIs DEF Handed
<1> QED
  BY <1>3, <1>6 DEF n

LEMMA ObtainedSensor ==
    ASSUME Typed, NEW r \in Instances, NEW m \in Runtime, Obtained(Sensor, r, m)
    PROVE  \E n \in Runtime : Handed(Sensor, r, m, n) /\ SameSave(m, n)
<1> DEFINE k == [m EXCEPT !.facts = @ \cup {0}]
           n == Evaluating(k)
<1>1. Sense(r, m)
  BY NobodyIs DEF Obtained
<1>2. k \in Runtime /\ SameSave(m, k) /\ k.bound = m.bound /\ k.eval = m.eval
  BY DEF Runtime, SameSave
<1>3. rt' = [rt EXCEPT ![r] = n] /\ heart' = heart /\ told' = told /\ turn' = turn
  BY <1>1 DEF Sense
<1> HIDE DEF k
<1>4. /\ n \in Runtime /\ SameSave(k, n) /\ n.bound = k.bound
      /\ n.eval = k.eval \/ (n.eval = "debounce" /\ k.eval = "none")
  BY <1>2, EvaluatingIs
<1> HIDE DEF n
<1>5. SameSave(m, n)
  BY <1>2, <1>4 DEF SameSave
<1>6. \A p : InPersist(n, p) <=> InPersist(m, p)
  BY <1>5, SameSavers
<1>7. Handed(Sensor, r, m, n)
  BY <1>2, <1>3, <1>4, <1>6, NobodyIs DEF Handed
<1> QED
  BY <1>4, <1>5, <1>7

(* The heartbeat leaves the runtime alone, or claims the epoch.            *)
Claims(r, m, n) ==
    /\ heart'.pc = "persist" /\ heart'.rt = r
    /\ heart'.epoch = m.mem.activity /\ heart'.before = m.mem.claim
    /\ m.mem.claim < m.mem.activity
    /\ n = Persist([m EXCEPT !.mem.claim = m.mem.activity, !.dirty = TRUE], Heart)
    /\ n.mem.claim = m.mem.activity

LEMMA ObtainedHeart ==
    ASSUME Typed, NEW r \in Instances, NEW m \in Runtime, Obtained(Heart, r, m)
    PROVE  \E n \in Runtime : /\ Handed(Heart, r, m, n)
                              /\ (n = m /\ heart'.pc = "rest") \/ Claims(r, m, n)
<1>1. IdleCheck(r, m)
  BY NobodyIs DEF Obtained
<1>2. turn' = turn /\ told' = told
  BY <1>1 DEF IdleCheck
<1>3. CASE rt' = [rt EXCEPT ![r] = m] /\ heart' = [heart EXCEPT !.pc = "rest"]
  <2>1. heart' \in HeartType /\ heart'.pc = "rest"
    BY <1>3 DEF Typed, HeartType
  <2>2. Handed(Heart, r, m, m)
    BY <1>2, <1>3, <2>1, NobodyIs DEF Handed
  <2> QED
    BY <2>1, <2>2
<1>4. CASE ~(rt' = [rt EXCEPT ![r] = m] /\ heart' = [heart EXCEPT !.pc = "rest"])
  <2> DEFINE e == m.mem.activity
             k == [m EXCEPT !.mem.claim = e, !.dirty = TRUE]
             n == Persist(k, Heart)
  <2>1. /\ m.mem.claim < e /\ rt' = [rt EXCEPT ![r] = n]
        /\ heart' = [pc |-> "persist", rt |-> r, epoch |-> e, before |-> m.mem.claim]
    BY <1>1, <1>4 DEF IdleCheck
  <2>2. e \in Nat /\ m.mem.claim \in Nat
    BY DEF Runtime, State
  <2>3. r \in 0..MaxRuntimes
    BY TypedFields
  <2>4. /\ heart' \in HeartType /\ heart'.pc = "persist" /\ heart'.rt = r
        /\ heart'.epoch = e /\ heart'.before = m.mem.claim
    BY <2>1, <2>2, <2>3 DEF HeartType
  <2>5. /\ k \in Runtime /\ k.bound = m.bound /\ k.eval = m.eval /\ k.mem.claim = e
        /\ k.holder = m.holder /\ k.waiting = m.waiting
    BY <2>2, ClaimedIs
  <2> HIDE DEF k
  <2>6. /\ n \in Runtime /\ n.mem = k.mem /\ n.bound = k.bound /\ n.eval = k.eval
        /\ \A q : InPersist(n, q) => q = Heart \/ InPersist(k, q)
    BY <2>5, PersistIs, NobodyIs
  <2> HIDE DEF n
  <2>7. \A q : InPersist(k, q) => InPersist(m, q)
    BY <2>5 DEF InPersist
  <2>8. Handed(Heart, r, m, n)
    BY <1>2, <2>1, <2>4, <2>5, <2>6, <2>7, NobodyIs DEF Handed
  <2>9. Claims(r, m, n)
    BY <2>1, <2>4, <2>5, <2>6 DEF Claims, n, k
  <2> QED
    BY <2>6, <2>8, <2>9
<1> QED
  BY <1>3, <1>4

(* Whoever it is.                                                          *)
LEMMA ObtainedIs ==
    ASSUME Typed, NEW c \in Creators, NEW r \in Instances, NEW m \in Runtime, Obtained(c, r, m)
    PROVE  \E n \in Runtime : /\ Handed(c, r, m, n)
                              /\ \/ SameSave(m, n) /\ (c = Heart => heart'.pc = "rest")
                                 \/ c = Heart /\ Claims(r, m, n)
<1>1. CASE c \in Turns
  <2>1. [m EXCEPT !.bound = @ \cup {c}] \in Runtime
    BY <1>1, ObtainedTurn DEF Handed
  <2> QED
    BY <1>1, <2>1, ObtainedTurn, NobodyIs
<1>2. CASE c = Heart
  BY <1>2, ObtainedHeart DEF SameSave
<1>3. CASE c = Sensor
  BY <1>3, ObtainedSensor, NobodyIs
<1> QED
  BY <1>1, <1>2, <1>3 DEF Creators

-----------------------------------------------------------------------------
(* Creation.                                                               *)
(* A task that asks for the runtime has none yet.                          *)
Asks(c) ==
    /\ c \in Turns => turn[c].pc \in {"arrived", "create"}
    /\ c = Heart => heart.pc \in {"rest", "create"}

Counting ==
    /\ used' \in UsedType
    /\ used["shutdowns"] > 0 => used'["shutdowns"] > 0
    /\ used["beats"] > 0 => used'["beats"] > 0

(* It obtains the instance r.                                              *)
LEMMA HandedTied ==
    ASSUME Tied, NEW c \in Creators, NEW r \in Instances, NEW m \in Runtime, NEW n,
           Handed(c, r, m, n), Asks(c),
           m = rt[r] \/ (r > created /\ \A p \in Persisters : ~InPersist(m, p)),
           session' = r, session = r \/ session = 0,
           created' \in 0..MaxRuntimes, r <= created', created <= created',
           creation' \in LockType, creation'.holder = Nobody,
           \A x \in creation'.waiting : x # c /\ InCreation(x),
           db' \in State, life' = life, clock' \in Nat, called' \in Nat,
           Counting, c = Heart => used'["beats"] > 0
    PROVE  Tied'
<1>1. /\ n \in Runtime /\ rt' = [rt EXCEPT ![r] = n] /\ told' = told
      /\ m.bound \subseteq n.bound
      /\ n.eval = m.eval \/ (n.eval = "debounce" /\ m.eval = "none")
  BY DEF Handed
<1>2. rt \in [Instances -> Runtime] /\ rt'[r] = n /\ rt' \in [Instances -> Runtime]
  BY <1>1 DEF Tied, Typed
<1>3. r \in Nat /\ r # 0 /\ r \in 0..MaxRuntimes /\ created \in Nat /\ created' \in Nat
  BY TypedFields DEF Tied, Instances
<1>4. /\ turn' \in [Turns -> TurnType]
      /\ \A u \in Turns : u # c => turn'[u] = turn[u]
      /\ c \in Turns => turn'[c].pc = "bound" /\ turn'[c].rt = r /\ c \in n.bound
  <2>1. CASE c \in Turns
    <3>1. turn' = [turn EXCEPT ![c].pc = "bound", ![c].rt = r] /\ c \in n.bound
      BY <2>1 DEF Handed
    <3>2. turn \in [Turns -> TurnType]
      BY DEF Tied, Typed
    <3> QED
      BY <1>3, <2>1, <3>1, <3>2 DEF TurnType
  <2>2. CASE c \notin Turns
    BY <2>2 DEF Handed, Tied, Typed
  <2> QED
    BY <2>1, <2>2
<1>5. /\ heart' \in HeartType
      /\ c # Heart => heart' = heart
      /\ c = Heart => heart'.pc \in {"rest", "persist"}
  BY DEF Handed, Tied, Typed
<1>6. Typed'
  BY <1>2, <1>3, <1>4, <1>5, <1>1 DEF Tied, Typed, Counting
<1>7. TurnsTied'
  <2>1. \A u \in Turns : u # c => TurnTied(u)'
    BY <1>1, <1>2, <1>3, <1>4, TurnsFollow
  <2>2. c \in Turns => TurnTied(c)'
    BY <1>2, <1>3, <1>4 DEF TurnTied
  <2> QED
    BY <2>1, <2>2 DEF TurnsTied
<1>8. LockServes'
  <2>1. \A x \in Creators : InCreation(x)' => x # c /\ InCreation(x)
    BY NobodyIs DEF InCreation
  <2>2. \A t \in Turns : InCreation(t)' => turn'[t].pc = "create"
    BY <2>1, <1>4, NobodyIs DEF Tied, LockServes
  <2>3. InCreation(Heart)' => heart'.pc = "create"
    BY <2>1, <1>5, NobodyIs DEF Tied, LockServes
  <2>4. creation'.holder \notin creation'.waiting
    BY NobodyIs DEF LockType
  <2> QED
    BY <2>2, <2>3, <2>4 DEF LockServes
<1>9. SaversKnown'
  <2>1. \A p \in Persisters : InPersist(m, p) => InPersist(rt[r], p) /\ m = rt[r]
    OBVIOUS
  <2>2. SaversOf(r)
    BY DEF Tied, SaversKnown
  <2>3. \A p \in Persisters : InPersist(rt'[r], p) =>
            (InPersist(rt[r], p) /\ m = rt[r])
              \/ (p = Heart /\ c = Heart /\ heart'.pc = "persist" /\ heart'.rt = r)
    BY <1>2, <2>1 DEF Handed
  <2>4. ASSUME NEW t \in Turns, InPersist(rt'[r], t)
        PROVE  turn'[t].pc = "persist" /\ turn'[t].rt = r
    <3>1. turn[t].pc = "persist" /\ turn[t].rt = r
      BY <2>2, <2>3, <2>4, NobodyIs DEF SaversOf
    <3> QED
      BY <1>4, <3>1 DEF Asks
  <2>5. InPersist(rt'[r], Heart) => heart'.pc = "persist" /\ heart'.rt = r
    BY <1>5, <2>2, <2>3, NobodyIs DEF SaversOf, Asks
  <2>6. InPersist(rt'[r], Eval) => rt'[r].eval \in {"count", "defer"}
    BY <1>1, <1>2, <2>2, <2>3, NobodyIs DEF SaversOf
  <2>7. InPersist(rt'[r], Closer) => used'["shutdowns"] > 0
    BY <2>2, <2>3, NobodyIs DEF SaversOf, Counting
  <2>8. SaversOf(r)'
    BY <2>4, <2>5, <2>6, <2>7 DEF SaversOf
  <2>9. c \in Turns => turn[c].pc # "persist"
    BY DEF Asks
  <2>10. heart' = heart \/ heart.pc # "persist"
    BY <1>5 DEF Asks
  <2> QED
    BY <1>1, <1>4, <2>8, <2>9, <2>10, SaversFollow DEF Counting
<1>10. Numbered'
  BY <1>3, <1>5 DEF Tied, Numbered, Counting
<1> QED
  BY <1>6, <1>7, <1>8, <1>9, <1>10 DEF Tied

(* It waits for the lock, or for the record.                               *)
LEMMA WaitsTied ==
    ASSUME Tied, NEW c \in Creators, Asks(c), Creating(c),
           session' = session \/ (session' = 0 /\ (session # 0 => rt[session].bound = {})),
           created' = created, creation' \in LockType,
           creation'.holder # Nobody => session' = 0, creation'.holder \notin creation'.waiting,
           \A x \in Creators : InCreation(x)' => x = c \/ InCreation(x),
           db' = db, life' = life, clock' = clock, called' = called,
           Counting, c = Heart => used'["beats"] > 0
    PROVE  Tied'
<1>1. rt' = rt /\ told' = told
  BY DEF Creating
<1>2. /\ turn' \in [Turns -> TurnType]
      /\ \A u \in Turns : u # c => turn'[u] = turn[u]
      /\ c \in Turns => turn'[c].pc = "create"
  BY DEF Creating, Tied, Typed, TurnType
<1>3. /\ heart' \in HeartType
      /\ c # Heart => heart' = heart
      /\ c = Heart => heart'.pc = "create"
  BY DEF Creating, Tied, Typed, HeartType
<1>4. session' \in 0..MaxRuntimes
  BY BoundsAssumption DEF Tied, Typed
<1>5. Typed'
  BY <1>1, <1>2, <1>3, <1>4 DEF Tied, Typed, Counting
<1>6. TurnsTied'
  <2> SUFFICES ASSUME NEW u \in Turns, turn'[u].pc \in {"bound", "active", "persist"}
               PROVE  TurnTied(u)'
    BY DEF TurnsTied, TurnTied
  <2>1. u # c /\ turn'[u] = turn[u] /\ TurnTied(u)
    BY <1>2 DEF Tied, TurnsTied
  <2>2. turn[u].rt \in Instances /\ u \in rt[turn[u].rt].bound
    BY <2>1 DEF TurnTied
  <2>3. turn[u].rt = session /\ life.phase # "closed" => session' = session
    BY <2>2, TypedFields DEF Tied
  <2> QED
    BY <1>1, <2>1, <2>3 DEF TurnTied
<1>7. LockServes'
  <2>1. \A t \in Turns : InCreation(t)' => turn'[t].pc = "create"
    BY <1>2, NobodyIs DEF Tied, LockServes
  <2>2. InCreation(Heart)' => heart'.pc = "create"
    BY <1>3, NobodyIs DEF Tied, LockServes
  <2> QED
    BY <2>1, <2>2 DEF LockServes
<1>8. SaversKnown'
  <2> SUFFICES ASSUME NEW r \in Instances
               PROVE  SaversOf(r)'
    BY DEF SaversKnown
  <2>1. SaversOf(r)
    BY DEF Tied, SaversKnown
  <2>2. ASSUME NEW t \in Turns, InPersist(rt[r], t)
        PROVE  turn'[t].pc = "persist" /\ turn'[t].rt = r
    BY <1>2, <2>1, <2>2 DEF SaversOf, Asks
  <2>3. InPersist(rt[r], Heart) => heart'.pc = "persist" /\ heart'.rt = r
    BY <1>3, <2>1 DEF SaversOf, Asks
  <2> QED
    BY <1>1, <2>1, <2>2, <2>3 DEF SaversOf, Counting
<1>9. Numbered'
  <2>1. session \in Nat /\ created \in Nat
    BY DEF Tied, Typed
  <2> QED
    BY <1>3, <2>1 DEF Tied, Numbered, Counting
<1> QED
  BY <1>5, <1>6, <1>7, <1>8, <1>9 DEF Tied

-----------------------------------------------------------------------------
(* The steps of obtaining a runtime.                                       *)
Bounds == {"evictions", "failures", "loads", "cancels", "restarts", "shutdowns",
           "facts", "beats"}

LEMMA SpendCounts ==
    ASSUME Typed, NEW b \in Bounds, used' = [used EXCEPT ![b] = @ + 1]
    PROVE  Counting /\ used'[b] = used[b] + 1 /\ \A x \in Bounds : x # b => used'[x] = used[x]
BY DEF Typed, UsedType, Bounds, Counting

LEMMA SameCounts ==
    ASSUME Typed, UNCHANGED used
    PROVE  Counting
BY DEF Typed, Counting

LEMMA EvictingCounts ==
    ASSUME Typed, NEW s, Evicting(s)
    PROVE  /\ Counting /\ \A x \in Bounds : x # "evictions" => used'[x] = used[x]
           /\ s # session => used'["evictions"] = used["evictions"] + 1
           /\ s = session => used' = used
<1>1. CASE s # session
  <2>1. used' = [used EXCEPT !["evictions"] = @ + 1] /\ "evictions" \in Bounds
    BY <1>1 DEF Evicting, Spend, Bounds
  <2> QED
    BY <1>1, <2>1, SpendCounts
<1>2. CASE s = session
  BY <1>2, SameCounts DEF Evicting
<1> QED
  BY <1>1, <1>2

LEMMA SweptIs ==
    ASSUME NEW s, NEW m, NEW k \in Swept(s, m)
    PROVE  k = s \/ (k = 0 /\ s # 0 /\ Idle(m))
BY DEF Swept

LEMMA LookUpTied ==
    ASSUME Tied, NEW c \in Creators, Asks(c),
           session' \in Swept(session, rt[session]),
           NEW lock \in LockType, lock.holder = Nobody,
           \A x \in lock.waiting : x # c /\ InCreation(x),
           LookUp(c, session', lock),
           created' = created, db' = db, life' = life, clock' = clock, called' = called,
           Counting, c = Heart => used'["beats"] > 0
    PROVE  Tied'
<1> USE DEF Tied
<1>1. session' = session \/ (session' = 0 /\ session # 0 /\ Idle(rt[session]))
  BY SweptIs
<1>2. CASE session' # 0 /\ Obtained(c, session', rt[session']) /\ creation' = lock
  <2>1. session' = session /\ session \in Instances /\ rt[session] \in Runtime
    BY <1>1, <1>2, TypedFields
  <2>2. PICK n \in Runtime : Handed(c, session, rt[session], n)
    BY <1>2, <2>1, ObtainedIs
  <2>3. session <= created /\ created \in 0..MaxRuntimes /\ created <= created
    BY DEF Numbered, Typed
  <2>4. db \in State /\ clock \in Nat /\ called \in Nat
    BY DEF Typed
  <2> QED
    BY <1>2, <2>1, <2>2, <2>3, <2>4, HandedTied
<1>3. CASE session' = 0 /\ Creating(c) /\ creation' = [lock EXCEPT !.holder = c]
  <2>1. creation' \in LockType /\ creation'.holder = c /\ creation'.waiting = lock.waiting
    BY <1>3 DEF LockType
  <2>2. session # 0 /\ session # session' => rt[session].bound = {}
    BY <1>1 DEF Idle
  <2>3. \A x \in Creators : InCreation(x)' => x = c \/ InCreation(x)
    BY <2>1 DEF InCreation
  <2>4. session' = session \/ (session' = 0 /\ (session # 0 => rt[session].bound = {}))
    BY <1>3, <2>2
  <2>5. creation'.holder \notin creation'.waiting
    BY <2>1
  <2> QED
    BY <1>3, <2>1, <2>3, <2>4, <2>5, WaitsTied
<1> QED
  BY <1>2, <1>3 DEF LookUp

LEMMA SeekTied ==
    ASSUME Tied, NEW c \in Creators, Asks(c), SeekRuntime(c), ~InCreation(c),
           created' = created, db' = db, life' = life, clock' = clock, called' = called,
           Counting, c = Heart => used'["beats"] > 0
    PROVE  Tied'
<1> USE DEF Tied
<1>1. /\ session' \in Swept(session, rt[session])
      /\ \/ creation.holder = Nobody /\ creation.waiting = {} /\ LookUp(c, session', creation)
         \/ /\ creation.holder # Nobody \/ creation.waiting # {}
            /\ Creating(c)
            /\ creation' = [creation EXCEPT !.waiting = @ \cup {c}]
  BY DEF SeekRuntime
<1>2. CASE creation.holder = Nobody /\ creation.waiting = {} /\ LookUp(c, session', creation)
  <2>1. creation \in LockType
    BY DEF Typed
  <2> QED
    BY <1>1, <1>2, <2>1, LookUpTied
<1>3. CASE Creating(c) /\ creation' = [creation EXCEPT !.waiting = @ \cup {c}]
  <2>1. /\ creation' \in LockType /\ creation'.holder = creation.holder
        /\ creation'.waiting = creation.waiting \cup {c}
    BY <1>3 DEF Typed, LockType
  <2>2. session' = session \/ (session' = 0 /\ (session # 0 => rt[session].bound = {}))
    BY <1>1, SweptIs DEF Idle
  <2>3. creation'.holder # Nobody => session' = 0
    BY <2>1, <2>2 DEF LockServes
  <2>4. \A x \in Creators : InCreation(x)' => x = c \/ InCreation(x)
    BY <2>1 DEF InCreation
  <2>5. creation'.holder \notin creation'.waiting
    BY <2>1 DEF LockServes, InCreation
  <2> QED
    BY <1>3, <2>1, <2>2, <2>3, <2>4, <2>5, WaitsTied
<1> QED
  BY <1>1, <1>2, <1>3

LEMMA TakeTied ==
    ASSUME Tied, NEW c \in Creators, TakeCreationLock(c)
    PROVE  Tied'
<1> USE DEF Tied
<1> DEFINE lock == [creation EXCEPT !.waiting = @ \ {c}]
<1>1. /\ creation.holder = Nobody /\ c \in creation.waiting /\ LookUp(c, session, lock)
      /\ UNCHANGED <<db, session, created, life, clock, called, used>>
  BY DEF TakeCreationLock
<1>2. lock \in LockType /\ lock.holder = Nobody /\ lock.waiting = creation.waiting \ {c}
  BY <1>1 DEF Typed, LockType
<1> HIDE DEF lock
<1>3. Asks(c)
  BY <1>1, NobodyIs DEF LockServes, InCreation, Asks
<1>4. \A x \in lock.waiting : x # c /\ InCreation(x)
  BY <1>2 DEF InCreation
<1>5. session' \in Swept(session, rt[session])
  BY <1>1 DEF Swept
<1>6. c = Heart => used'["beats"] > 0
  BY <1>1, NobodyIs DEF LockServes, InCreation, Numbered
<1>7. LookUp(c, session', lock)
  BY <1>1
<1> QED
  BY <1>1, <1>2, <1>3, <1>4, <1>5, <1>6, <1>7, SameCounts, LookUpTied

LEMMA LoadTied ==
    ASSUME Tied, NEW c \in Creators, Load(c)
    PROVE  Tied'
<1> USE DEF Tied
<1>1. /\ creation.holder = c /\ created < MaxRuntimes /\ created' = created + 1
      /\ session' = created' /\ creation' = [creation EXCEPT !.holder = Nobody]
      /\ UNCHANGED <<db, life, clock, called>>
  BY DEF Load
<1>2. PICK d \in {db, Empty} : Obtained(c, created', Fresh(d))
  BY DEF Load
<1>3. Counting /\ used'["beats"] = used["beats"]
  <2>1. CASE UNCHANGED used
    BY <2>1, SameCounts
  <2>2. CASE Spend("loads")
    <3>1. used' = [used EXCEPT !["loads"] = @ + 1] /\ "loads" \in Bounds /\ "beats" \in Bounds
      BY <2>2 DEF Spend, Bounds
    <3> QED
      BY <3>1, SpendCounts
  <2> QED
    BY <2>1, <2>2 DEF Load
<1>4. created \in Nat /\ MaxRuntimes \in Nat
  BY TypedFields
<1>5. /\ created' \in Instances /\ created' > created /\ created' \in 0..MaxRuntimes
      /\ created' \in Nat
  BY <1>1, <1>4 DEF Instances
<1>6. d \in State /\ db \in State
  BY <1>2, FreshIs DEF Typed
<1>7. Fresh(d) \in Runtime /\ \A p \in Persisters : ~InPersist(Fresh(d), p)
  BY <1>6, FreshIs, NobodyIs
<1>8. PICK n \in Runtime : Handed(c, created', Fresh(d), n)
  BY <1>2, <1>5, <1>7, ObtainedIs
<1>9. /\ creation' \in LockType /\ creation'.holder = Nobody
      /\ creation'.waiting = creation.waiting
  BY <1>1 DEF Typed, LockType
<1>10. Asks(c) /\ session = 0 /\ c \notin creation.waiting
  BY <1>1, NobodyIs DEF LockServes, InCreation, Asks
<1>11. \A x \in creation'.waiting : x # c /\ InCreation(x)
  BY <1>9, <1>10 DEF InCreation
<1>12. c = Heart => used'["beats"] > 0
  BY <1>1, <1>3, NobodyIs DEF LockServes, InCreation, Numbered
<1>13. clock' \in Nat /\ called' \in Nat /\ db' \in State /\ life' = life
  BY <1>1 DEF Typed
<1>14. created' <= created' /\ created <= created'
  BY <1>4, <1>5
<1> QED
  BY <1>1, <1>3, <1>4, <1>5, <1>7, <1>8, <1>9, <1>10, <1>11, <1>12, <1>13, <1>14, HandedTied

-----------------------------------------------------------------------------
(* A step that touches the instance r, at most the turn t or the heartbeat, *)
(* and does not create.                                                    *)
LifeGoesOn ==
    /\ life' \in LifeType
    /\ life.phase = "closed" => life'.phase = "closed"
    /\ life'.phase \in {"closing", "saving"} => life'.rt \in Instances
    /\ life'.phase # "open" => used'["shutdowns"] > 0

LEMMA SameLife ==
    ASSUME Tied, life' = life, Counting
    PROVE  LifeGoesOn
BY DEF Tied, Typed, Numbered, Counting, LifeGoesOn

SessionFollows ==
    session' = session
      \/ (session' = 0 /\ (session = 0 \/ rt'[session].bound = {} \/ life'.phase = "closed"))

HeartGoesOn(r) ==
    /\ heart' \in HeartType
    /\ heart' = heart \/ /\ heart.pc # "create" /\ heart'.pc \notin {"create", "persist"}
                         /\ heart.pc # "persist" \/ heart.rt = r

LEMMA StepTied ==
    ASSUME Tied, NEW r \in Instances, NEW n \in Runtime, NEW t,
           rt' = [rt EXCEPT ![r] = n],
           turn' \in [Turns -> TurnType],
           \A u \in Turns : u # t => turn'[u] = turn[u],
           \A u \in Turns : u # t /\ u \in rt[r].bound => u \in n.bound,
           t \in Turns => /\ turn[t].pc # "persist" \/ turn[t].rt = r
                          /\ turn[t].pc # "create" /\ TurnTied(t)',
           creation' = creation, created' = created, SessionFollows,
           HeartGoesOn(r), LifeGoesOn, Counting, SaversOf(r)',
           db' \in State, clock' \in Nat, called' \in Nat,
           told' \in [1..Cardinality(Turns) -> Nat]
    PROVE  Tied'
<1> USE DEF Tied
<1>1. /\ rt \in [Instances -> Runtime] /\ rt' \in [Instances -> Runtime]
      /\ session' \in 0..MaxRuntimes /\ created \in 0..MaxRuntimes
      /\ created \in Nat /\ session <= created /\ session' <= created'
      /\ creation \in LockType
  BY BoundsAssumption DEF Typed, Numbered, SessionFollows
<1>2. Typed'
  BY <1>1 DEF Typed, HeartGoesOn, LifeGoesOn, Counting
<1>3. TurnsTied'
  <2>1. session' = session \/ session = 0 \/ life'.phase = "closed" \/ rt'[session].bound = {}
    BY DEF SessionFollows
  <2>2. created' \in Nat /\ created <= created'
    BY <1>1
  <2>3. \A u \in Turns : u # t => TurnTied(u)'
    BY <2>1, <2>2, TurnsFollow DEF LifeGoesOn
  <2> QED
    BY <2>3 DEF TurnsTied
<1>4. LockServes'
  <2>1. \A u \in Turns : InCreation(u)' => turn'[u].pc = "create"
    BY DEF LockServes, InCreation
  <2>2. InCreation(Heart)' => heart'.pc = "create"
    BY DEF LockServes, InCreation, HeartGoesOn
  <2>3. creation'.holder # Nobody => session' = 0
    BY DEF LockServes, SessionFollows
  <2> QED
    BY <2>1, <2>2, <2>3 DEF LockServes
<1>5. SaversKnown'
  <2>1. heart' = heart \/ heart.pc # "persist" \/ heart.rt = r
    BY DEF HeartGoesOn
  <2>2. t \in Turns => turn[t].pc # "persist" \/ turn[t].rt = r
    OBVIOUS
  <2> QED
    BY <2>1, <2>2, SaversFollow DEF Counting
<1>6. Numbered'
  BY <1>1 DEF Numbered, LifeGoesOn, HeartGoesOn, Counting
<1> QED
  BY <1>2, <1>3, <1>4, <1>5, <1>6

(* A turn that belongs to r: its instance, and what its end leaves.        *)
LEMMA TurnPlace ==
    ASSUME Tied, NEW t \in Turns, turn[t].pc \in {"bound", "active", "persist"}
    PROVE  /\ turn[t].rt \in Instances /\ rt[turn[t].rt] \in Runtime
           /\ t \in rt[turn[t].rt].bound /\ turn[t].rt <= created
           /\ turn[t].rt = session \/ life.phase = "closed"
BY TypedFields DEF Tied, TurnsTied, TurnTied

LEMMA TurnSet ==
    ASSUME Typed, NEW t \in Turns,
           NEW v \in {"new", "arrived", "create", "bound", "active", "persist", "done"},
           turn' = [turn EXCEPT ![t].pc = v]
    PROVE  /\ turn' \in [Turns -> TurnType] /\ turn'[t].pc = v /\ turn'[t].rt = turn[t].rt
           /\ \A u \in Turns : u # t => turn'[u] = turn[u]
BY DEF Typed, TurnType

(* Savers of an instance that nobody enters.                               *)
LEMMA FewerSavers ==
    ASSUME Tied, NEW r \in Instances, NEW n \in Runtime, rt' = [rt EXCEPT ![r] = n],
           \A p \in Persisters : InPersist(n, p) => InPersist(rt[r], p),
           \A u \in Turns : InPersist(n, u) => turn'[u] = turn[u],
           InPersist(n, Heart) => heart' = heart,
           InPersist(n, Eval) /\ rt[r].eval \in {"count", "defer"}
               => n.eval \in {"count", "defer"},
           used["shutdowns"] > 0 => used'["shutdowns"] > 0
    PROVE  SaversOf(r)'
<1>1. rt'[r] = n /\ SaversOf(r)
  BY DEF Tied, Typed, SaversKnown
<1>2. \A u \in Turns : InPersist(n, u) => turn'[u].pc = "persist" /\ turn'[u].rt = r
  BY <1>1, NobodyIs DEF SaversOf
<1> QED
  BY <1>1, <1>2, NobodyIs DEF SaversOf

(* A turn settles on the instance r it is bound to.                        *)
LEMMA SettleTied ==
    ASSUME Tied, NEW t \in Turns, NEW m \in Runtime, NEW r \in Instances,
           turn[t].pc \in {"bound", "active", "persist"}, turn[t].rt = r,
           m.bound = rt[r].bound, m.eval = rt[r].eval,
           \A p \in Persisters : InPersist(m, p) => p # t /\ InPersist(rt[r], p),
           SettleTurn(t, r, m),
           creation' = creation, created' = created, heart' = heart, life' = life,
           clock' = clock, called' = called, told' = told, db' \in State, Counting
    PROVE  Tied'
<1> USE DEF Tied
<1> DEFINE n == Settled(m, t)
<1>1. /\ n \in Runtime /\ SameSave(m, n) /\ n.bound = m.bound \ {t}
      /\ n.eval = m.eval \/ (n.eval = "debounce" /\ m.eval = "none")
  BY SettledIs
<1>2. /\ rt' = [rt EXCEPT ![r] = n] /\ turn' = [turn EXCEPT ![t].pc = "done"]
      /\ session' \in Swept(session, rt'[session])
  BY DEF SettleTurn
<1> HIDE DEF n
<1>3. /\ turn' \in [Turns -> TurnType] /\ turn'[t].pc = "done"
      /\ \A u \in Turns : u # t => turn'[u] = turn[u]
  BY <1>2, TurnSet
<1>4. TurnTied(t)'
  BY <1>3 DEF TurnTied
<1>5. SessionFollows
  BY <1>2, SweptIs DEF SessionFollows, Idle
<1>6. \A u \in Turns : u # t /\ u \in rt[r].bound => u \in n.bound
  BY <1>1
<1>7. SaversOf(r)'
  <2>1. \A p \in Persisters : InPersist(n, p) => p # t /\ InPersist(rt[r], p)
    BY <1>1, SameSavers
  <2>2. \A u \in Turns : InPersist(n, u) => turn'[u] = turn[u]
    BY <1>3, <2>1, NobodyIs
  <2> QED
    BY <1>1, <1>2, <2>1, <2>2, FewerSavers DEF Counting
<1>8. HeartGoesOn(r) /\ LifeGoesOn
  BY SameLife DEF HeartGoesOn, Typed
<1>9. /\ clock' \in Nat /\ called' \in Nat /\ told' \in [1..Cardinality(Turns) -> Nat]
  BY DEF Typed
<1> QED
  BY <1>1, <1>2, <1>3, <1>4, <1>5, <1>6, <1>7, <1>8, <1>9, StepTied

-----------------------------------------------------------------------------
(* The actions of a turn.                                                  *)
LEMMA ArriveTied ==
    ASSUME Tied, NEW t \in Turns, Arrive(t)
    PROVE  Tied'
<1> USE DEF Tied
<1>1. /\ turn[t].pc = "new" /\ clock' = clock + 1
      /\ turn' = [turn EXCEPT ![t].pc = "arrived", ![t].at = clock']
      /\ UNCHANGED <<db, session, rt, created, creation, heart, life, told, called, used>>
  BY DEF Arrive
<1>2. clock' \in Nat
  BY <1>1 DEF Typed
<1>3. /\ turn' \in [Turns -> TurnType] /\ turn'[t].pc = "arrived"
      /\ \A u \in Turns : u # t => turn'[u] = turn[u]
  BY <1>1, <1>2 DEF Typed, TurnType
<1>4. Typed'
  BY <1>1, <1>2, <1>3 DEF Typed
<1>5. TurnsTied'
  <2> SUFFICES ASSUME NEW u \in Turns
               PROVE  TurnTied(u)'
    BY DEF TurnsTied
  <2>1. CASE u = t
    BY <1>3, <2>1 DEF TurnTied
  <2>2. CASE u # t
    <3>1. turn'[u] = turn[u] /\ TurnTied(u)
      BY <1>3, <2>2 DEF TurnsTied
    <3> QED
      BY <1>1, <3>1 DEF TurnTied
  <2> QED
    BY <2>1, <2>2
<1>6. LockServes'
  BY <1>1, <1>3 DEF LockServes, InCreation
<1>7. SaversKnown'
  <2> SUFFICES ASSUME NEW r \in Instances
               PROVE  SaversOf(r)'
    BY DEF SaversKnown
  <2>1. SaversOf(r)
    BY DEF SaversKnown
  <2>2. \A u \in Turns : InPersist(rt[r], u) => turn'[u].pc = "persist" /\ turn'[u].rt = r
    BY <1>1, <1>3, <2>1 DEF SaversOf
  <2> QED
    BY <1>1, <2>1, <2>2 DEF SaversOf
<1>8. Numbered'
  BY <1>1 DEF Numbered
<1> QED
  BY <1>4, <1>5, <1>6, <1>7, <1>8

LEMMA BindTied ==
    ASSUME Tied, NEW t \in Turns, Bind(t)
    PROVE  Tied'
<1> USE DEF Tied
<1>1. /\ turn[t].pc = "arrived" /\ SeekRuntime(t) /\ Evicting(session')
      /\ UNCHANGED <<db, created, life, clock, called>>
  BY DEF Bind
<1>2. Asks(t) /\ ~InCreation(t) /\ t \in Creators /\ t # Heart
  BY <1>1, NobodyIs DEF Asks, LockServes
<1> QED
  BY <1>1, <1>2, EvictingCounts, SeekTied

LEMMA AdmitTied ==
    ASSUME Tied, NEW t \in Turns, Admit(t)
    PROVE  Tied'
<1> USE DEF Tied
<1>0. PICK r \in Instances : r = turn[t].rt
  BY TurnPlace DEF Admit
<1> DEFINE m == rt[r]
           activity == IF t \in Users /\ turn[t].at > m.mem.activity
                       THEN turn[t].at ELSE m.mem.activity
           dirt == m.dirty \/ activity # m.mem.activity
           n == [m EXCEPT !.active = t, !.mem.activity = activity, !.dirty = dirt]
<1>1. /\ turn[t].pc = "bound" /\ rt' = [rt EXCEPT ![r] = n]
      /\ turn' = [turn EXCEPT ![t].pc = "active"]
      /\ UNCHANGED <<db, session, created, creation, heart, life, clock, told, called, used>>
  BY <1>0 DEF Admit
<1>2. /\ r \in Instances /\ m \in Runtime /\ t \in m.bound /\ r <= created
      /\ r = session \/ life.phase = "closed"
  BY <1>0, <1>1, TurnPlace
<1>3. activity \in Nat /\ dirt \in BOOLEAN
  BY <1>2 DEF Runtime, State, Typed, TurnType
<1> HIDE DEF m, activity, dirt
<1>4. /\ n \in Runtime /\ n.bound = m.bound /\ n.eval = m.eval
      /\ n.holder = m.holder /\ n.waiting = m.waiting
  BY <1>2, <1>3 DEF Runtime, State
<1> HIDE DEF n
<1>5. /\ turn' \in [Turns -> TurnType] /\ turn'[t].pc = "active" /\ turn'[t].rt = r
      /\ \A u \in Turns : u # t => turn'[u] = turn[u]
  BY <1>0, <1>1, TurnSet
<1>6. rt'[r] = n
  BY <1>1, <1>2 DEF Typed
<1>7. TurnTied(t)'
  BY <1>1, <1>2, <1>4, <1>5, <1>6 DEF TurnTied
<1>8. SaversOf(r)'
  <2>1. \A p : InPersist(n, p) => InPersist(m, p)
    BY <1>4 DEF InPersist
  <2>2. ~InPersist(m, t)
    BY <1>0, <1>1, <1>2 DEF SaversKnown, SaversOf, m
  <2>3. \A p \in Persisters : InPersist(n, p) => InPersist(rt[r], p)
    BY <2>1 DEF m
  <2>4. \A u \in Turns : InPersist(n, u) => turn'[u] = turn[u]
    BY <1>5, <2>1, <2>2
  <2>5. n.eval = rt[r].eval /\ heart' = heart /\ used' = used
    BY <1>1, <1>4 DEF m
  <2> QED
    BY <1>1, <1>2, <1>4, <2>3, <2>4, <2>5, FewerSavers
<1>9. HeartGoesOn(r) /\ LifeGoesOn /\ Counting /\ SessionFollows
  BY <1>1, SameLife, SameCounts DEF HeartGoesOn, Typed, SessionFollows
<1>10. /\ db' \in State /\ clock' \in Nat /\ called' \in Nat
       /\ told' \in [1..Cardinality(Turns) -> Nat]
  BY <1>1 DEF Typed
<1>11. \A u \in Turns : u # t /\ u \in rt[r].bound => u \in n.bound
  BY <1>4 DEF m
<1>12. turn[t].pc # "persist" /\ turn[t].pc # "create"
  BY <1>1
<1>13. creation' = creation /\ created' = created /\ rt' = [rt EXCEPT ![r] = n]
  BY <1>1
<1> QED
  BY <1>2, <1>4, <1>5, <1>7, <1>8, <1>9, <1>10, <1>11, <1>12, <1>13, StepTied

LEMMA AbandonTied ==
    ASSUME Tied, NEW t \in Turns, Abandon(t)
    PROVE  Tied'
<1> USE DEF Tied
<1>1. Evicting(session') /\ UNCHANGED <<db, created, heart, life, clock, told, called>>
  BY DEF Abandon
<1>2. Counting /\ db' \in State
  BY <1>1, EvictingCounts DEF Typed
<1>3. CASE /\ turn[t].pc = "bound" /\ SettleTurn(t, turn[t].rt, rt[turn[t].rt])
           /\ UNCHANGED creation
  <2> DEFINE r == turn[t].rt
  <2>1. r \in Instances /\ rt[r] \in Runtime
    BY <1>3, TurnPlace
  <2>2. ~InPersist(rt[r], t)
    BY <1>3, <2>1 DEF SaversKnown, SaversOf
  <2>3. \A p \in Persisters : InPersist(rt[r], p) => p # t /\ InPersist(rt[r], p)
    BY <2>2
  <2> HIDE DEF r
  <2>4. SettleTurn(t, r, rt[r]) /\ turn[t].rt = r
    BY <1>3 DEF r
  <2> QED
    BY <1>1, <1>2, <1>3, <2>1, <2>3, <2>4, SettleTied
<1>4. CASE /\ turn[t].pc \in {"arrived", "create"} /\ turn' = [turn EXCEPT ![t].pc = "done"]
           /\ creation' = [holder  |-> IF creation.holder = t THEN Nobody ELSE creation.holder,
                           waiting |-> creation.waiting \ {t}]
           /\ UNCHANGED <<rt, session>>
  <2>1. /\ turn' \in [Turns -> TurnType] /\ turn'[t].pc = "done"
        /\ \A u \in Turns : u # t => turn'[u] = turn[u]
    BY <1>4, TurnSet
  <2>2. /\ creation' \in LockType
        /\ creation'.holder = creation.holder \/ creation'.holder = Nobody
        /\ creation'.waiting = creation.waiting \ {t}
        /\ creation'.holder # t
    BY <1>4, NobodyIs DEF Typed, LockType
  <2>3. Typed'
    BY <1>1, <1>2, <1>4, <2>1, <2>2 DEF Typed, Counting
  <2>4. TurnsTied'
    <3> SUFFICES ASSUME NEW u \in Turns
                 PROVE  TurnTied(u)'
      BY DEF TurnsTied
    <3>1. CASE u = t
      BY <2>1, <3>1 DEF TurnTied
    <3>2. CASE u # t
      <4>1. turn'[u] = turn[u] /\ TurnTied(u)
        BY <2>1, <3>2 DEF TurnsTied
      <4> QED
        BY <1>1, <1>4, <4>1 DEF TurnTied
    <3> QED
      BY <3>1, <3>2
  <2>5. LockServes'
    <3>1. \A u \in Turns : InCreation(u)' => turn'[u].pc = "create"
      BY <2>1, <2>2, NobodyIs DEF LockServes, InCreation
    <3> QED
      BY <1>1, <1>4, <2>2, <3>1, NobodyIs DEF LockServes, InCreation, LockType, Typed
  <2>6. SaversKnown'
    <3> SUFFICES ASSUME NEW r \in Instances
                 PROVE  SaversOf(r)'
      BY DEF SaversKnown
    <3>1. SaversOf(r)
      BY DEF SaversKnown
    <3>2. \A u \in Turns : InPersist(rt[r], u) => turn'[u].pc = "persist" /\ turn'[u].rt = r
      BY <1>4, <2>1, <3>1 DEF SaversOf
    <3> QED
      BY <1>1, <1>2, <1>4, <3>1, <3>2 DEF SaversOf, Counting
  <2>7. Numbered'
    BY <1>1, <1>2, <1>4 DEF Numbered, Counting
  <2> QED
    BY <2>3, <2>4, <2>5, <2>6, <2>7
<1> QED
  BY <1>3, <1>4 DEF Abandon

LEMMA ReleaseTied ==
    ASSUME Tied, NEW t \in Turns, Release(t)
    PROVE  Tied'
<1> USE DEF Tied
<1>0. PICK r \in Instances : r = turn[t].rt
  BY TurnPlace DEF Release
<1> DEFINE m == rt[r]
<1>1. /\ turn[t].pc = "active"
      /\ UNCHANGED <<db, created, creation, heart, life, clock, told, called>>
  BY DEF Release
<1>2. /\ r \in Instances /\ m \in Runtime /\ t \in m.bound /\ r <= created
      /\ r = session \/ life.phase = "closed"
  BY <1>0, <1>1, TurnPlace
<1>3. ~InPersist(m, t)
  BY <1>1, <1>2 DEF SaversKnown, SaversOf
<1>4. CASE SettleTurn(t, r, m) /\ Evicting(session')
  <2>1. \A p \in Persisters : InPersist(m, p) => p # t /\ InPersist(rt[r], p)
    BY <1>3
  <2>2. Counting /\ db' \in State /\ m.bound = rt[r].bound /\ m.eval = rt[r].eval
    BY <1>1, <1>4, EvictingCounts DEF Typed
  <2> HIDE DEF m
  <2> QED
    BY <1>0, <1>1, <1>2, <1>4, <2>1, <2>2, SettleTied
<1>5. CASE /\ rt' = [rt EXCEPT ![r] = Persist([m EXCEPT !.dirty = TRUE], t)]
           /\ turn' = [turn EXCEPT ![t].pc = "persist"]
           /\ UNCHANGED <<session, used>>
  <2> DEFINE k == [m EXCEPT !.dirty = TRUE]
             n == Persist(k, t)
  <2>1. rt' = [rt EXCEPT ![r] = n]
    BY <1>5
  <2>2. /\ k \in Runtime /\ k.bound = m.bound /\ k.eval = m.eval
        /\ k.holder = m.holder /\ k.waiting = m.waiting
    BY <1>2 DEF Runtime
  <2> HIDE DEF k
  <2>3. /\ n \in Runtime /\ n.bound = k.bound /\ n.eval = k.eval
        /\ \A q : InPersist(n, q) => q = t \/ InPersist(k, q)
    BY <2>2, PersistIs, NobodyIs
  <2> HIDE DEF n
  <2>4. \A q : InPersist(k, q) => InPersist(m, q)
    BY <2>2 DEF InPersist
  <2>5. rt'[r] = n
    BY <1>2, <2>1 DEF Typed
  <2>6. /\ turn' \in [Turns -> TurnType] /\ turn'[t].pc = "persist" /\ turn'[t].rt = r
        /\ \A u \in Turns : u # t => turn'[u] = turn[u]
    BY <1>0, <1>5, TurnSet
  <2>7. TurnTied(t)'
    BY <1>1, <1>2, <1>5, <2>2, <2>3, <2>5, <2>6 DEF TurnTied
  <2>8. SaversOf(r)'
    <3>1. SaversOf(r)
      BY <1>2 DEF SaversKnown
    <3>2. ASSUME NEW u \in Turns, InPersist(n, u)
          PROVE  turn'[u].pc = "persist" /\ turn'[u].rt = r
      <4>1. CASE u = t
        BY <2>6, <4>1
      <4>2. CASE u # t
        BY <2>3, <2>4, <2>6, <3>1, <3>2, <4>2 DEF SaversOf
      <4> QED
        BY <4>1, <4>2
    <3>3. \A p \in {Heart, Eval, Closer} : InPersist(n, p) => InPersist(m, p)
      BY <2>3, <2>4, NobodyIs
    <3> QED
      BY <1>1, <1>5, <2>2, <2>3, <2>5, <3>1, <3>2, <3>3 DEF SaversOf
  <2>9. HeartGoesOn(r) /\ LifeGoesOn /\ Counting /\ SessionFollows
    BY <1>1, <1>5, SameLife, SameCounts DEF HeartGoesOn, Typed, SessionFollows
  <2>10. /\ db' \in State /\ clock' \in Nat /\ called' \in Nat
         /\ told' \in [1..Cardinality(Turns) -> Nat]
    BY <1>1 DEF Typed
  <2>11. \A u \in Turns : u # t /\ u \in rt[r].bound => u \in n.bound
    BY <2>2, <2>3
  <2>13. turn[t].pc # "persist" /\ turn[t].pc # "create"
    BY <1>1
  <2>14. creation' = creation /\ created' = created
    BY <1>1
  <2> HIDE DEF m
  <2> QED
    BY <1>2, <2>1, <2>3, <2>6, <2>7, <2>8, <2>9, <2>10, <2>11, <2>13, <2>14, StepTied
<1> QED
  BY <1>0, <1>4, <1>5 DEF Release

LEMMA BeatTied ==
    ASSUME Tied, Beat
    PROVE  Tied'
<1> USE DEF Tied
<1>1. /\ heart.pc = "rest" /\ SeekRuntime(Heart)
      /\ used' = [used EXCEPT !["beats"] = @ + 1,
                              !["evictions"] = IF session' # session THEN @ + 1 ELSE @]
      /\ UNCHANGED <<db, created, life, clock, called>>
  BY DEF Beat
<1>2. Asks(Heart) /\ ~InCreation(Heart) /\ Heart \in Creators
  BY <1>1, NobodyIs DEF Asks, LockServes
<1>3. Counting /\ used'["beats"] > 0
  BY <1>1, SMTT(20), ZenonT(30) DEF Typed, UsedType, Counting
<1> QED
  BY <1>1, <1>2, <1>3, SeekTied

LEMMA ObserveTied ==
    ASSUME Tied, Observe
    PROVE  Tied'
<1> USE DEF Tied
<1>1. /\ Sensor # creation.holder /\ Sensor \notin creation.waiting /\ SeekRuntime(Sensor)
      /\ used' = [used EXCEPT !["facts"] = @ + 1,
                              !["evictions"] = IF session' # session THEN @ + 1 ELSE @]
      /\ UNCHANGED <<db, created, life, clock, called>>
  BY DEF Observe
<1>2. Asks(Sensor) /\ ~InCreation(Sensor) /\ Sensor \in Creators /\ Sensor # Heart
  BY <1>1, NobodyIs DEF Asks, InCreation
<1>3. Counting
  BY <1>1, SMTT(20), ZenonT(30) DEF Typed, UsedType, Counting
<1> QED
  BY <1>1, <1>2, <1>3, SeekTied

LEMMA OtherSessionTied ==
    ASSUME Tied, OtherSession
    PROVE  Tied'
<1> USE DEF Tied
<1>1. /\ session # 0 /\ 0 \in Swept(session, rt[session]) /\ session' = 0
      /\ used' = [used EXCEPT !["evictions"] = @ + 1] /\ "evictions" \in Bounds
      /\ UNCHANGED <<db, rt, created, creation, turn, heart, life, clock, told, called>>
  BY DEF OtherSession, Spend, Bounds
<1>2. PICK r \in Instances : r = session
  BY <1>1, TypedFields
<1>3. PICK n \in Runtime : n = rt[r]
  BY TypedFields
<1>4. Counting
  BY <1>1, SpendCounts
<1>5. rt' = [rt EXCEPT ![r] = n]
  BY <1>1, <1>3 DEF Typed
<1>6. SessionFollows /\ HeartGoesOn(r) /\ LifeGoesOn
  BY <1>1, <1>2, <1>4, SweptIs, SameLife DEF SessionFollows, HeartGoesOn, Typed, Idle
<1>7. SaversOf(r)'
  <2>1. SaversOf(r) /\ rt' = rt
    BY <1>1 DEF SaversKnown
  <2> QED
    BY <1>1, <1>4, <2>1 DEF SaversOf, Counting
<1>8. /\ db' \in State /\ clock' \in Nat /\ called' \in Nat
      /\ told' \in [1..Cardinality(Turns) -> Nat] /\ turn' \in [Turns -> TurnType]
  BY <1>1 DEF Typed
<1>9. creation' = creation /\ created' = created /\ turn' = turn /\ Nobody \notin Turns
  BY <1>1, NobodyIs
<1> QED
  BY <1>3, <1>4, <1>5, <1>6, <1>7, <1>8, <1>9, StepTied

-----------------------------------------------------------------------------
(* Saving, and what follows it.  The one that leaves the save is p, the    *)
(* instance it leaves is m.                                                *)
Left(r, p, m) ==
    /\ m \in Runtime /\ m.bound = rt[r].bound /\ m.eval = rt[r].eval
    /\ \A q \in Persisters : InPersist(m, q) => q # p /\ InPersist(rt[r], q)

LEMMA LeaveLeft ==
    ASSUME Typed, NEW r \in Instances, NEW p \in Persisters
    PROVE  Left(r, p, Leave(rt[r], p)) /\ Left(r, p, [Leave(rt[r], p) EXCEPT !.dirty = TRUE])
<1>1. PICK l \in Runtime : l = Leave(rt[r], p)
  BY TypedFields, LeaveIs
<1>2. /\ l.bound = rt[r].bound /\ l.eval = rt[r].eval
      /\ \A q \in Persisters : InPersist(l, q) => q # p /\ InPersist(rt[r], q)
  BY <1>1, TypedFields, LeaveIs, LeavesSave
<1>3. PICK n : n = [l EXCEPT !.dirty = TRUE]
  OBVIOUS
<1>4. /\ n \in Runtime /\ n.bound = l.bound /\ n.eval = l.eval
      /\ n.holder = l.holder /\ n.waiting = l.waiting
  BY <1>3 DEF Runtime
<1>5. \A q : InPersist(n, q) => InPersist(l, q)
  BY <1>4 DEF InPersist
<1>6. Left(r, p, l) /\ Left(r, p, n)
  BY <1>2, <1>4, <1>5 DEF Left
<1> QED
  BY <1>1, <1>3, <1>6

(* The heartbeat is back: the fact is submitted, or the claim taken back.  *)
LEMMA HeartSavedTied ==
    ASSUME Tied, NEW r \in Instances, NEW m, Left(r, Heart, m), InPersist(rt[r], Heart),
           NEW outcome, HeartSaved(r, m, outcome),
           UNCHANGED <<session, turn, life, called, created, creation, clock>>,
           db' \in State, Counting
    PROVE  Tied'
<1> USE DEF Tied
<1>1. heart.pc = "persist" /\ heart.rt = r /\ heart \in HeartType
  BY DEF SaversKnown, SaversOf, Typed
<1>2. m \in Runtime /\ m.bound = rt[r].bound /\ m.eval = rt[r].eval
  BY DEF Left
<1>3. PICK n \in Runtime :
         /\ rt' = [rt EXCEPT ![r] = n] /\ n.bound = m.bound
         /\ n.holder = m.holder /\ n.waiting = m.waiting
         /\ n.eval = m.eval \/ (n.eval = "debounce" /\ m.eval = "none")
  <2>1. CASE rt' = [rt EXCEPT ![r] = WithIdleFact(m, heart.epoch)]
    <3>1. PICK f \in SUBSET Nat : f = (m.facts \cap {0}) \cup {heart.epoch}
      BY <1>1, <1>2 DEF Runtime, HeartType
    <3>2. PICK k \in Runtime : k = [m EXCEPT !.facts = f]
      BY <1>2 DEF Runtime
    <3>3. WithIdleFact(m, heart.epoch) = Evaluating(k)
      BY <3>1, <3>2 DEF WithIdleFact
    <3>4. k.bound = m.bound /\ k.eval = m.eval /\ k.holder = m.holder /\ k.waiting = m.waiting
      BY <1>2, <3>2 DEF Runtime
    <3>5. PICK n \in Runtime : n = Evaluating(k)
      BY EvaluatingIs
    <3>6. /\ SameSave(k, n) /\ n.bound = k.bound
          /\ n.eval = k.eval \/ (n.eval = "debounce" /\ k.eval = "none")
      BY <3>5, EvaluatingIs
    <3> QED
      BY <2>1, <3>3, <3>4, <3>5, <3>6 DEF SameSave
  <2>2. CASE rt' = [rt EXCEPT ![r] = [m EXCEPT !.mem.claim = heart.before, !.dirty = TRUE]]
    <3>1. heart.before \in Nat
      BY <1>1 DEF HeartType
    <3>2. PICK n : n = [m EXCEPT !.mem.claim = heart.before, !.dirty = TRUE]
      OBVIOUS
    <3>3. n \in Runtime /\ n.bound = m.bound /\ n.eval = m.eval /\ n.holder = m.holder /\ n.waiting = m.waiting
      BY <1>2, <3>1, <3>2, ClaimedIs
    <3> QED
      BY <2>2, <3>2, <3>3
  <2>3. CASE rt' = [rt EXCEPT ![r] = m]
    BY <1>2, <2>3
  <2> QED
    BY <2>1, <2>2, <2>3 DEF HeartSaved
<1>4. /\ heart' \in HeartType /\ heart'.pc \in {"rest", "stopped"}
      /\ told' \in [1..Cardinality(Turns) -> Nat]
  BY <1>1 DEF HeartSaved, HeartType, Typed
<1>5. HeartGoesOn(r) /\ LifeGoesOn /\ SessionFollows
  BY <1>1, <1>4, SameLife DEF HeartGoesOn, SessionFollows
<1>6. SaversOf(r)'
  <2>1. \A q \in Persisters : InPersist(n, q) => InPersist(m, q)
    BY <1>3 DEF InPersist
  <2>2. \A q \in Persisters : InPersist(n, q) => q # Heart /\ InPersist(rt[r], q)
    BY <2>1 DEF Left
  <2>3. ~InPersist(n, Heart)
    BY <2>2, NobodyIs
  <2> QED
    BY <1>2, <1>3, <2>2, <2>3, FewerSavers DEF Counting
<1>7. clock' \in Nat /\ called' \in Nat /\ turn' \in [Turns -> TurnType] /\ Nobody \notin Turns
  BY NobodyIs DEF Typed
<1> QED
  BY <1>2, <1>3, <1>4, <1>5, <1>6, <1>7, StepTied

(* The policy goes on, or the evaluation ends.                             *)
LEMMA EvalSavedTied ==
    ASSUME Tied, NEW r \in Instances, NEW m, Left(r, Eval, m),
           NEW outcome, EvalSaved(r, m, outcome),
           UNCHANGED <<session, turn, heart, life, told, created, creation, clock>>,
           db' \in State, Counting
    PROVE  Tied'
<1> USE DEF Tied
<1>2. m \in Runtime /\ m.bound = rt[r].bound /\ m.eval = rt[r].eval
  BY DEF Left
<1>3. PICK n \in Runtime :
         /\ rt' = [rt EXCEPT ![r] = n] /\ n.bound = m.bound
         /\ n.holder = m.holder /\ n.waiting = m.waiting
  <2>1. CASE rt' = [rt EXCEPT ![r] = [m EXCEPT !.eval = "provider"]]
    <3>1. PICK n : n = [m EXCEPT !.eval = "provider"]
      OBVIOUS
    <3>2. n \in Runtime /\ n.bound = m.bound /\ n.holder = m.holder /\ n.waiting = m.waiting
      BY <1>2, <3>1 DEF Runtime
    <3> QED
      BY <2>1, <3>1, <3>2
  <2>2. CASE \E ended \in EvalEnds(m) : rt' = [rt EXCEPT ![r] = ended]
    BY <1>2, <2>2, EvalEndsIs DEF SameSave
  <2> QED
    BY <2>1, <2>2 DEF EvalSaved
<1>4. called' \in Nat
  BY DEF EvalSaved, Typed
<1>5. HeartGoesOn(r) /\ LifeGoesOn /\ SessionFollows
  BY SameLife DEF HeartGoesOn, SessionFollows, Typed
<1>6. SaversOf(r)'
  <2>1. \A q \in Persisters : InPersist(n, q) => InPersist(m, q)
    BY <1>3 DEF InPersist
  <2>2. \A q \in Persisters : InPersist(n, q) => q # Eval /\ InPersist(rt[r], q)
    BY <2>1 DEF Left
  <2>3. ~InPersist(n, Eval)
    BY <2>2, NobodyIs
  <2> QED
    BY <1>2, <1>3, <2>2, <2>3, FewerSavers DEF Counting
<1>7. /\ clock' \in Nat /\ turn' \in [Turns -> TurnType] /\ Nobody \notin Turns
      /\ told' \in [1..Cardinality(Turns) -> Nat]
  BY NobodyIs DEF Typed
<1> QED
  BY <1>2, <1>3, <1>4, <1>5, <1>6, <1>7, StepTied

(* The closing runtime is dropped, and the manager is closed.              *)
LEMMA CloserSavedTied ==
    ASSUME Tied, NEW r \in Instances, NEW m \in Runtime, m.bound = rt[r].bound,
           m.eval = rt[r].eval,
           \A q \in Persisters : InPersist(m, q) => InPersist(rt[r], q),
           CloserSaved(r, m), used["shutdowns"] > 0,
           UNCHANGED <<turn, heart, told, called, created, creation, clock>>,
           db' \in State, Counting
    PROVE  Tied'
<1> USE DEF Tied
<1>1. rt' = [rt EXCEPT ![r] = m] /\ session' = 0 /\ life' = [phase |-> "closed", rt |-> 0]
  BY DEF CloserSaved
<1>2. 0 \in 0..MaxRuntimes
  BY TypedFields
<1>3. LifeGoesOn
  BY <1>1, <1>2 DEF LifeGoesOn, LifeType, Counting
<1>4. SessionFollows
  BY <1>1 DEF SessionFollows
<1>5. HeartGoesOn(r)
  BY DEF HeartGoesOn, Typed
<1>6. SaversOf(r)'
  BY <1>1, FewerSavers DEF Counting
<1>7. /\ clock' \in Nat /\ called' \in Nat /\ turn' \in [Turns -> TurnType] /\ Nobody \notin Turns
      /\ told' \in [1..Cardinality(Turns) -> Nat]
  BY NobodyIs DEF Typed
<1> QED
  BY <1>1, <1>3, <1>4, <1>5, <1>6, <1>7, StepTied

LEMMA ResumeTied ==
    ASSUME Tied, NEW r \in Instances, NEW p \in Persisters, InPersist(rt[r], p),
           NEW m, Left(r, p, m), NEW outcome, Resume(r, p, m, outcome),
           UNCHANGED <<created, creation, clock>>, db' \in State, Counting
    PROVE  Tied'
<1> USE DEF Tied
<1>0. m \in Runtime /\ m.bound = rt[r].bound /\ m.eval = rt[r].eval
  BY DEF Left
<1>1. CASE p \in Turns /\ SettleTurn(p, r, m) /\ UNCHANGED <<heart, life, told, called>>
  <2>1. turn[p].pc = "persist" /\ turn[p].rt = r
    BY <1>1 DEF SaversKnown, SaversOf
  <2>2. \A q \in Persisters : InPersist(m, q) => q # p /\ InPersist(rt[r], q)
    BY DEF Left
  <2> QED
    BY <1>0, <1>1, <2>1, <2>2, SettleTied
<1>2. CASE p = Heart /\ HeartSaved(r, m, outcome) /\ UNCHANGED <<session, turn, life, called>>
  BY <1>2, HeartSavedTied
<1>3. CASE p = Eval /\ EvalSaved(r, m, outcome) /\ UNCHANGED <<session, turn, heart, life, told>>
  BY <1>3, EvalSavedTied
<1>4. CASE p = Closer /\ CloserSaved(r, m) /\ UNCHANGED <<turn, heart, told, called>>
  <2>1. used["shutdowns"] > 0
    BY <1>4 DEF SaversKnown, SaversOf
  <2>2. \A q \in Persisters : InPersist(m, q) => InPersist(rt[r], q)
    BY DEF Left
  <2> QED
    BY <1>0, <1>4, <2>1, <2>2, CloserSavedTied
<1> QED
  BY <1>1, <1>2, <1>3, <1>4 DEF Resume

(* Somebody who is in the save takes the lock.                             *)
LEMMA GrabTied ==
    ASSUME Tied, NEW r \in Instances, NEW p \in Persisters, InPersist(rt[r], p),
           rt[r].holder \in {Nobody, p},
           rt' = [rt EXCEPT ![r] = Grab(@, p)],
           UNCHANGED <<session, turn, heart, life, told, called, used, created, creation, clock>>,
           db' \in State
    PROVE  Tied'
<1> USE DEF Tied
<1>1. PICK n \in Runtime : n = Grab(rt[r], p)
  BY TypedFields, GrabIs
<1>2. /\ rt' = [rt EXCEPT ![r] = n] /\ n.bound = rt[r].bound /\ n.eval = rt[r].eval
      /\ n.holder = p /\ n.waiting = rt[r].waiting \ {p}
  BY <1>1, TypedFields, GrabIs DEF Typed
<1>3. \A q \in Persisters : InPersist(n, q) => InPersist(rt[r], q)
  BY <1>2 DEF InPersist
<1>4. Counting
  BY SameCounts
<1>5. HeartGoesOn(r) /\ LifeGoesOn /\ SessionFollows
  BY <1>4, SameLife DEF HeartGoesOn, SessionFollows, Typed
<1>6. SaversOf(r)'
  BY <1>2, <1>3, <1>4, FewerSavers DEF Counting
<1>7. /\ clock' \in Nat /\ called' \in Nat /\ turn' \in [Turns -> TurnType] /\ Nobody \notin Turns
      /\ told' \in [1..Cardinality(Turns) -> Nat]
  BY NobodyIs DEF Typed
<1> QED
  BY <1>2, <1>4, <1>5, <1>6, <1>7, StepTied

LEMMA SavingTied ==
    ASSUME Tied, NEW r \in Instances, NEW p \in Persisters, Saving(r, p)
    PROVE  Tied'
<1> USE DEF Tied
<1>1. /\ rt[r].snap \in State /\ db \in State /\ rt[r] \in Runtime
  BY TypedFields DEF Runtime, Typed
<1>2. ASSUME used' = [used EXCEPT !["evictions"] =
                        IF p \in Turns /\ session' # session THEN @ + 1 ELSE @]
      PROVE  Counting
  BY <1>2 DEF Typed, UsedType, Counting
<1>3. CASE SaveDone(r, p)
  <2>1. rt[r].holder = p /\ db' = rt[r].snap /\ UNCHANGED <<created, creation, clock>>
    BY <1>3 DEF SaveDone
  <2>2. InPersist(rt[r], p)
    BY <2>1 DEF InPersist
  <2>3. CASE /\ rt' = [rt EXCEPT ![r] = Grab(@, p)]
             /\ UNCHANGED <<session, turn, heart, life, told, called, used>>
    BY <1>1, <2>1, <2>2, <2>3, GrabTied
  <2>4. CASE /\ Resume(r, p, Leave(rt[r], p), "saved")
             /\ used' = [used EXCEPT !.evictions =
                           IF p \in Turns /\ session' # session THEN @ + 1 ELSE @]
    BY <1>1, <1>2, <2>1, <2>2, <2>4, LeaveLeft, ResumeTied
  <2> QED
    BY <1>3, <2>3, <2>4 DEF SaveDone
<1>4. CASE SaveFails(r, p)
  <2>1. /\ rt[r].holder = p /\ UNCHANGED <<db, created, creation, clock>>
        /\ Resume(r, p, [Leave(rt[r], p) EXCEPT !.dirty = TRUE], "failed")
        /\ used' = [used EXCEPT !["failures"] = @ + 1] /\ "failures" \in Bounds
    BY <1>4 DEF SaveFails, Spend, Bounds
  <2>2. InPersist(rt[r], p) /\ Counting
    BY <2>1, SpendCounts DEF InPersist
  <2> QED
    BY <1>1, <2>1, <2>2, LeaveLeft, ResumeTied
<1>5. CASE SaveCancelled(r, p)
  <2>1. /\ InPersist(rt[r], p) /\ UNCHANGED <<created, creation, clock>>
        /\ db' \in {db} \cup (IF rt[r].holder = p THEN {rt[r].snap} ELSE {})
        /\ Resume(r, p, Leave(rt[r], p), "cancelled")
        /\ used' = [used EXCEPT !["cancels"] = @ + 1] /\ "cancels" \in Bounds
    BY <1>5 DEF SaveCancelled, Spend, Bounds
  <2>2. db' \in State /\ Counting
    BY <1>1, <2>1, SpendCounts
  <2> QED
    BY <2>1, <2>2, LeaveLeft, ResumeTied
<1>6. CASE TakeSaveLock(r, p)
  <2>1. /\ rt[r].holder = Nobody /\ p \in rt[r].waiting
        /\ UNCHANGED <<db, created, creation, clock>>
    BY <1>6 DEF TakeSaveLock
  <2>2. InPersist(rt[r], p)
    BY <2>1 DEF InPersist
  <2>3. CASE /\ rt' = [rt EXCEPT ![r] = Grab(@, p)]
             /\ UNCHANGED <<session, turn, heart, life, told, called, used>>
    BY <1>1, <2>1, <2>2, <2>3, GrabTied
  <2>4. CASE /\ Resume(r, p, Leave(rt[r], p), "saved")
             /\ used' = [used EXCEPT !.evictions =
                           IF p \in Turns /\ session' # session THEN @ + 1 ELSE @]
    BY <1>1, <1>2, <2>1, <2>2, <2>4, LeaveLeft, ResumeTied
  <2> QED
    BY <1>6, <2>3, <2>4 DEF TakeSaveLock
<1> QED
  BY <1>3, <1>4, <1>5, <1>6 DEF Saving

-----------------------------------------------------------------------------
(* The evaluation task.                                                    *)
LEMMA EvalStepTied ==
    ASSUME Tied, NEW r \in Instances, NEW m, EvalStep(r, m),
           m \in Runtime, m.bound = rt[r].bound,
           \A q \in Persisters : InPersist(m, q) =>
               InPersist(rt[r], q) \/ (q = Eval /\ m.eval \in {"count", "defer"}),
           InPersist(rt[r], Eval) => m.eval \in {"count", "defer"}
    PROVE  Tied'
<1> USE DEF Tied
<1>1. /\ rt' = [rt EXCEPT ![r] = m]
      /\ UNCHANGED <<db, session, created, creation, turn, heart, life, clock, told, called, used>>
  BY DEF EvalStep
<1>2. Counting
  BY <1>1, SameCounts
<1>3. HeartGoesOn(r) /\ LifeGoesOn /\ SessionFollows
  BY <1>1, <1>2, SameLife DEF HeartGoesOn, SessionFollows, Typed
<1>4. SaversOf(r)'
  <2>1. SaversOf(r) /\ rt'[r] = m
    BY <1>1 DEF SaversKnown, Typed
  <2>2. \A q \in Persisters : q # Eval => (InPersist(m, q) => InPersist(rt[r], q))
    OBVIOUS
  <2>3. \A t \in Turns : InPersist(m, t) => turn'[t].pc = "persist" /\ turn'[t].rt = r
    BY <1>1, <2>1, <2>2, NobodyIs DEF SaversOf
  <2>4. InPersist(m, Heart) => heart'.pc = "persist" /\ heart'.rt = r
    BY <1>1, <2>1, <2>2, NobodyIs DEF SaversOf
  <2>5. InPersist(m, Eval) => m.eval \in {"count", "defer"}
    BY NobodyIs
  <2>6. InPersist(m, Closer) => used'["shutdowns"] > 0
    BY <1>1, <2>1, <2>2, NobodyIs DEF SaversOf
  <2> QED
    BY <2>1, <2>3, <2>4, <2>5, <2>6 DEF SaversOf
<1>5. /\ clock' \in Nat /\ called' \in Nat /\ turn' \in [Turns -> TurnType] /\ Nobody \notin Turns
      /\ told' \in [1..Cardinality(Turns) -> Nat] /\ db' \in State
  BY <1>1, NobodyIs DEF Typed
<1> QED
  BY <1>1, <1>2, <1>3, <1>4, <1>5, StepTied

(* A step of the evaluation that leaves the save alone, outside a save.    *)
LEMMA PlainEvalTied ==
    ASSUME Tied, NEW r \in Instances, NEW m \in Runtime, EvalStep(r, m),
           SameSave(rt[r], m), m.bound = rt[r].bound,
           rt[r].eval \notin {"count", "defer"}
    PROVE  Tied'
<1>1. \A q : InPersist(m, q) => InPersist(rt[r], q)
  BY SameSavers
<1>2. ~InPersist(rt[r], Eval)
  BY DEF Tied, SaversKnown, SaversOf
<1> QED
  BY <1>1, <1>2, EvalStepTied

(* A step that ends in the save.                                           *)
LEMMA SavingEvalTied ==
    ASSUME Tied, NEW r \in Instances, NEW k \in Runtime, EvalStep(r, Persist(k, Eval)),
           k.holder = rt[r].holder, k.waiting = rt[r].waiting, k.bound = rt[r].bound,
           k.eval \in {"count", "defer"}
    PROVE  Tied'
<1>1. PICK m : m = Persist(k, Eval)
  OBVIOUS
<1>2. /\ m \in Runtime /\ m.bound = k.bound /\ m.eval = k.eval
      /\ \A q : InPersist(m, q) => q = Eval \/ InPersist(k, q)
  BY <1>1, PersistIs, NobodyIs
<1>3. \A q : InPersist(k, q) => InPersist(rt[r], q)
  BY DEF InPersist
<1>4. EvalStep(r, m)
  BY <1>1
<1> QED
  BY <1>2, <1>3, <1>4, EvalStepTied

LEMMA CountedIs ==
    ASSUME NEW s \in State
    PROVE  LET n == [s EXCEPT !.calls = @ + 1]
           IN  n \in State /\ n.calls = s.calls + 1 /\ n.claim = s.claim /\ n.activity = s.activity
BY DEF State

(* What the evaluation task makes of its instance.                         *)
LEMMA EvaluationIs ==
    ASSUME Tied, NEW r \in Instances, Evaluation(r)
    PROVE  \/ \E m \in Runtime :
                 /\ EvalStep(r, m) /\ SameSave(rt[r], m) /\ m.bound = rt[r].bound
                 /\ rt[r].eval \notin {"count", "defer"} /\ m.eval # "count"
                 /\ m.eval = "policy" => rt[r].mem.calls < DailyLimit
                 /\ rt[r].bound = {} \/ m.eval # "policy"
                 /\ r = session \/ rt[r].eval # "none"
           \/ \E k \in Runtime :
                 /\ EvalStep(r, Persist(k, Eval)) /\ k.dirty /\ k.bound = rt[r].bound
                 /\ k.holder = rt[r].holder /\ k.waiting = rt[r].waiting /\ k.snap = rt[r].snap
                 /\ \/ /\ rt[r].eval = "policy" /\ k.eval = "count"
                       /\ k.mem = [rt[r].mem EXCEPT !.calls = @ + 1]
                    \/ rt[r].eval = "provider" /\ k.eval = "defer" /\ k.mem = rt[r].mem
<1>1. PICK m \in Runtime : m = rt[r]
  BY TypedFields DEF Tied
<1>2. /\ m.mem \in State /\ m.facts \subseteq Nat /\ m.batch \subseteq Nat /\ m.eval \in Evals
      /\ m.mem.calls \in Nat /\ DailyLimit \in Nat
  BY BoundsAssumption DEF Runtime, State, Evals
<1>3. CASE Drain(r)
  <2>0. m.eval = "debounce"
    BY <1>1, <1>3 DEF Drain
  <2>1. ASSUME NEW ended \in EvalEnds([m EXCEPT !.facts = {}]), EvalStep(r, ended)
        PROVE  ended \in Runtime /\ SameSave(m, ended) /\ ended.bound = m.bound
                 /\ ended.eval \in {"none", "debounce"}
    <3>1. PICK k \in Runtime : k = [m EXCEPT !.facts = {}]
      BY DEF Runtime
    <3>2. SameSave(m, k) /\ k.bound = m.bound
      BY <3>1 DEF Runtime, SameSave
    <3>3. /\ ended \in Runtime /\ SameSave(k, ended) /\ ended.bound = k.bound
          /\ ended.eval \in {"none", "debounce"}
      BY <2>1, <3>1, EvalEndsIs
    <3> QED
      BY <3>2, <3>3 DEF SameSave
  <2>2. CASE EvalStep(r, [m EXCEPT !.eval = "none"])
    <3>1. PICK n \in Runtime : n = [m EXCEPT !.eval = "none"]
      BY DEF Runtime
    <3>2. SameSave(m, n) /\ n.bound = m.bound /\ n.eval = "none"
      BY <3>1 DEF Runtime, SameSave
    <3> QED
      BY <1>1, <2>0, <2>2, <3>1, <3>2
  <2>3. CASE /\ "evaluate" \in Gate(m)
             /\ EvalStep(r, [m EXCEPT !.eval = "policy", !.batch = m.facts, !.facts = {}])
    <3>1. PICK n \in Runtime : n = [m EXCEPT !.eval = "policy", !.batch = m.facts, !.facts = {}]
      BY DEF Runtime
    <3>2. SameSave(m, n) /\ n.bound = m.bound /\ n.eval = "policy"
      BY <3>1 DEF Runtime, SameSave
    <3>3. m.bound = {} /\ ~(m.mem.calls >= DailyLimit)
      BY <2>3 DEF Gate, Busy
    <3>4. m.mem.calls < DailyLimit
      BY <1>2, <3>3
    <3> QED
      BY <1>1, <2>0, <2>3, <3>1, <3>2, <3>3, <3>4
  <2> QED
    BY <1>1, <1>3, <2>0, <2>1, <2>2, <2>3 DEF Drain
<1>4. CASE Policy(r)
  <2>0. m.eval = "policy"
    BY <1>1, <1>4 DEF Policy
  <2>1. ASSUME NEW ended \in EvalEnds(m), EvalStep(r, ended)
        PROVE  ended \in Runtime /\ SameSave(m, ended) /\ ended.bound = m.bound
                 /\ ended.eval \in {"none", "debounce"}
    BY EvalEndsIs
  <2>2. PICK s \in State : s = [m.mem EXCEPT !.calls = @ + 1]
    BY <1>2, CountedIs
  <2>3. PICK k : k = [m EXCEPT !.mem = s, !.dirty = TRUE, !.eval = "count"]
    OBVIOUS
  <2>4. /\ k \in Runtime /\ k.dirty /\ k.bound = m.bound /\ k.holder = m.holder
        /\ k.waiting = m.waiting /\ k.snap = m.snap /\ k.eval = "count" /\ k.mem = s
    BY <2>3 DEF Runtime
  <2>5. k = [m EXCEPT !.mem.calls = @ + 1, !.dirty = TRUE, !.eval = "count"]
    BY <2>2, <2>3 DEF Runtime
  <2>6. CASE \E ended \in EvalEnds(m) : EvalStep(r, ended)
    BY <1>1, <2>0, <2>1, <2>6
  <2>7. CASE EvalStep(r, Persist(k, Eval))
    BY <1>1, <2>0, <2>2, <2>4, <2>7
  <2> QED
    BY <1>1, <1>4, <2>5, <2>6, <2>7 DEF Policy
<1>5. CASE Decide(r)
  <2>0. m.eval = "provider"
    BY <1>1, <1>5 DEF Decide
  <2>1. ASSUME NEW ended \in EvalEnds(m), EvalStep(r, ended)
        PROVE  ended \in Runtime /\ SameSave(m, ended) /\ ended.bound = m.bound
                 /\ ended.eval \in {"none", "debounce"}
    BY EvalEndsIs
  <2>2. PICK newest \in SUBSET Nat :
           newest = {e \in m.batch \cup m.facts : e = 0 \/ \A f \in m.facts : f <= e}
    BY <1>2
  <2>3. PICK k : k = [m EXCEPT !.facts = newest, !.batch = {}, !.dirty = TRUE, !.eval = "defer"]
    OBVIOUS
  <2>4. /\ k \in Runtime /\ k.dirty /\ k.bound = m.bound /\ k.holder = m.holder
        /\ k.waiting = m.waiting /\ k.snap = m.snap /\ k.eval = "defer" /\ k.mem = m.mem
    BY <2>3 DEF Runtime
  <2>5. CASE \E ended \in EvalEnds(m) : EvalStep(r, ended)
    BY <1>1, <2>0, <2>1, <2>5
  <2>6. CASE EvalStep(r, Persist(k, Eval))
    BY <1>1, <2>0, <2>4, <2>6
  <2> QED
    BY <1>1, <1>5, <2>2, <2>3, <2>5, <2>6 DEF Decide
<1>6. CASE Wake(r)
  <2>1. r = session /\ m.eval = "none" /\ EvalStep(r, Evaluating(m))
    BY <1>1, <1>6 DEF Wake
  <2>2. PICK n \in Runtime : n = Evaluating(m)
    BY EvaluatingIs
  <2>3. /\ SameSave(m, n) /\ n.bound = m.bound
        /\ n.eval = m.eval \/ (n.eval = "debounce" /\ m.eval = "none")
    BY <2>2, EvaluatingIs
  <2> QED
    BY <1>1, <2>1, <2>2, <2>3
<1> QED
  BY <1>3, <1>4, <1>5, <1>6 DEF Evaluation

LEMMA EvaluationTied ==
    ASSUME Tied, NEW r \in Instances, Evaluation(r)
    PROVE  Tied'
BY EvaluationIs, PlainEvalTied, SavingEvalTied

LEMMA EvalStopsTied ==
    ASSUME Tied, NEW r \in Instances, EvalStops(r)
    PROVE  Tied'
<1>1. PICK m \in Runtime : m = rt[r]
  BY TypedFields DEF Tied
<1>2. PICK n \in Runtime : n = [m EXCEPT !.eval = "none", !.batch = {}]
  BY DEF Runtime
<1>3. SameSave(m, n) /\ n.bound = m.bound
  BY <1>2 DEF Runtime, SameSave
<1>4. EvalStep(r, n) /\ m.eval \notin {"count", "defer"}
  BY <1>1, <1>2 DEF EvalStops
<1> QED
  BY <1>1, <1>3, <1>4, PlainEvalTied

-----------------------------------------------------------------------------
(* Shutdown, and the restart of the process.                               *)
LEMMA StopHeartTied ==
    ASSUME Tied, StopHeart
    PROVE  Tied'
<1> USE DEF Tied
<1>1. /\ heart.pc \in {"rest", "create"} /\ heart' = [heart EXCEPT !.pc = "stopped"]
      /\ creation' = [holder  |-> IF creation.holder = Heart THEN Nobody ELSE creation.holder,
                      waiting |-> creation.waiting \ {Heart}]
      /\ UNCHANGED <<db, session, rt, created, turn, life, clock, told, called, used>>
  BY DEF StopHeart
<1>2. heart' \in HeartType /\ heart'.pc = "stopped"
  BY <1>1 DEF Typed, HeartType
<1>3. /\ creation' \in LockType
      /\ creation'.holder = creation.holder \/ creation'.holder = Nobody
      /\ creation'.waiting = creation.waiting \ {Heart}
      /\ creation'.holder # Heart
  BY <1>1, NobodyIs DEF Typed, LockType
<1>4. Typed'
  BY <1>1, <1>2, <1>3 DEF Typed
<1>5. TurnsTied'
  BY <1>1 DEF TurnsTied, TurnTied
<1>6. LockServes'
  <2>1. Nobody \notin creation.waiting
    BY NobodyIs DEF Typed, LockType
  <2>2. \A t \in Turns : InCreation(t)' => turn'[t].pc = "create"
    BY <1>1, <1>3, NobodyIs DEF LockServes, InCreation
  <2> QED
    BY <1>1, <1>3, <2>1, <2>2 DEF LockServes, InCreation
<1>7. SaversKnown'
  <2> SUFFICES ASSUME NEW r \in Instances
               PROVE  SaversOf(r)'
    BY DEF SaversKnown
  <2>1. SaversOf(r)
    BY DEF SaversKnown
  <2> QED
    BY <1>1, <2>1 DEF SaversOf
<1>8. Numbered'
  BY <1>1, <1>2 DEF Numbered
<1> QED
  BY <1>4, <1>5, <1>6, <1>7, <1>8

LEMMA ShutdownTied ==
    ASSUME Tied, Shutdown
    PROVE  Tied'
<1> USE DEF Tied
<1>1. /\ life' = IF session = 0 THEN [phase |-> "closed", rt |-> 0]
                                ELSE [phase |-> "closing", rt |-> session]
      /\ rt' = [r \in Instances |-> IF r = session THEN [rt[r] EXCEPT !.closing = TRUE] ELSE rt[r]]
      /\ life.phase = "open"
      /\ used' = [used EXCEPT !["shutdowns"] = @ + 1] /\ "shutdowns" \in Bounds
      /\ UNCHANGED <<db, session, created, creation, turn, heart, clock, told, called>>
  BY DEF Shutdown, Spend, Bounds
<1>2. Counting /\ used'["shutdowns"] > 0
  <2>1. Counting /\ used'["shutdowns"] = used["shutdowns"] + 1
    BY <1>1, SpendCounts
  <2>2. used["shutdowns"] \in Nat
    BY DEF Typed, UsedType
  <2> QED
    BY <2>1, <2>2
<1>3. \A r \in Instances : /\ rt'[r] \in Runtime /\ rt'[r].bound = rt[r].bound
                           /\ rt'[r].eval = rt[r].eval /\ SameSave(rt[r], rt'[r])
  <2> SUFFICES ASSUME NEW r \in Instances
               PROVE  /\ rt'[r] \in Runtime /\ rt'[r].bound = rt[r].bound
                      /\ rt'[r].eval = rt[r].eval /\ SameSave(rt[r], rt'[r])
    OBVIOUS
  <2>1. PICK m \in Runtime : m = rt[r]
    BY TypedFields
  <2>2. rt'[r] = m \/ rt'[r] = [m EXCEPT !.closing = TRUE]
    BY <1>1, <2>1
  <2>3. SameSave(m, m)
    BY DEF SameSave
  <2> QED
    BY <2>1, <2>2, <2>3, ClosingIs
<1>4. rt' \in [Instances -> Runtime]
  BY <1>1, <1>3
<1>5. life' \in LifeType /\ (life'.phase \in {"closing", "saving"} => life'.rt \in Instances)
  BY <1>1, TypedFields DEF LifeType, Typed
<1>6. Typed'
  BY <1>1, <1>2, <1>4, <1>5 DEF Typed, Counting
<1>7. TurnsTied'
  <2> SUFFICES ASSUME NEW t \in Turns
               PROVE  TurnTied(t)'
    BY DEF TurnsTied
  <2>1. TurnTied(t)
    BY DEF TurnsTied
  <2> QED
    BY <1>1, <1>3, <2>1 DEF TurnTied
<1>8. LockServes'
  BY <1>1 DEF LockServes, InCreation
<1>9. SaversKnown'
  <2> SUFFICES ASSUME NEW r \in Instances
               PROVE  SaversOf(r)'
    BY DEF SaversKnown
  <2>1. SaversOf(r) /\ \A p : InPersist(rt'[r], p) <=> InPersist(rt[r], p)
    BY <1>3, SameSavers DEF SaversKnown
  <2> QED
    BY <1>1, <1>2, <1>3, <2>1 DEF SaversOf
<1>10. Numbered'
  BY <1>1, <1>2, <1>5 DEF Numbered, Counting
<1> QED
  BY <1>6, <1>7, <1>8, <1>9, <1>10

LEMMA CloseRuntimeTied ==
    ASSUME Tied, CloseRuntime
    PROVE  Tied'
<1> USE DEF Tied
<1>1. PICK r \in Instances : r = life.rt
  BY DEF CloseRuntime, Numbered
<1>2. PICK m0 \in Runtime : m0 = rt[r]
  BY TypedFields
<1>3. PICK m \in Runtime : m = [m0 EXCEPT !.facts = {}]
  BY DEF Runtime
<1>4. SameSave(m0, m) /\ m.bound = m0.bound /\ m.eval = m0.eval
  BY <1>3 DEF Runtime, SameSave
<1>5. PICK n \in Runtime : n = Persist(m, Closer)
  BY PersistIs, NobodyIs
<1>6. /\ n.bound = m.bound /\ n.eval = m.eval
      /\ \A q : InPersist(n, q) => q = Closer \/ InPersist(m, q)
  BY <1>5, PersistIs, NobodyIs
<1>7. /\ life.phase = "closing"
      /\ UNCHANGED <<db, created, creation, turn, heart, clock, told, called, used>>
      /\ \/ /\ rt' = [rt EXCEPT ![r] = n] /\ life' = [life EXCEPT !.phase = "saving"]
            /\ session' = session
         \/ CloserSaved(r, m)
  BY <1>1, <1>2, <1>3, <1>5 DEF CloseRuntime
<1>8. Counting /\ used["shutdowns"] > 0
  BY <1>7, SameCounts DEF Numbered
<1>9. \A q : InPersist(m, q) <=> InPersist(rt[r], q)
  BY <1>2, <1>4, SameSavers
<1>10. db' \in State
  BY <1>7 DEF Typed
<1>11. CASE CloserSaved(r, m)
  BY <1>2, <1>4, <1>7, <1>8, <1>9, <1>10, <1>11, CloserSavedTied
<1>12. CASE /\ rt' = [rt EXCEPT ![r] = n] /\ life' = [life EXCEPT !.phase = "saving"]
            /\ session' = session
  <2>1. LifeGoesOn
    BY <1>1, <1>7, <1>8, <1>12 DEF LifeGoesOn, LifeType, Typed, Counting
  <2>2. HeartGoesOn(r) /\ SessionFollows
    BY <1>7, <1>12 DEF HeartGoesOn, SessionFollows, Typed
  <2>3. SaversOf(r)'
    <3>1. SaversOf(r) /\ rt'[r] = n
      BY <1>12 DEF SaversKnown, Typed
    <3>2. \A q : q # Closer => (InPersist(n, q) => InPersist(rt[r], q))
      BY <1>6, <1>9
    <3>3. \A t \in Turns : InPersist(n, t) => turn'[t].pc = "persist" /\ turn'[t].rt = r
      BY <1>7, <3>1, <3>2, NobodyIs DEF SaversOf
    <3>4. InPersist(n, Heart) => heart'.pc = "persist" /\ heart'.rt = r
      BY <1>7, <3>1, <3>2, NobodyIs DEF SaversOf
    <3>5. InPersist(n, Eval) => n.eval \in {"count", "defer"}
      BY <1>2, <1>4, <1>6, <3>1, <3>2, NobodyIs DEF SaversOf
    <3> QED
      BY <1>7, <1>8, <3>1, <3>3, <3>4, <3>5 DEF SaversOf
  <2>4. /\ clock' \in Nat /\ called' \in Nat /\ turn' \in [Turns -> TurnType] /\ Nobody \notin Turns
        /\ told' \in [1..Cardinality(Turns) -> Nat]
    BY <1>7, NobodyIs DEF Typed
  <2>5. creation' = creation /\ created' = created /\ turn' = turn
    BY <1>7
  <2>6. \A u \in Turns : u \in rt[r].bound => u \in n.bound
    BY <1>2, <1>4, <1>6
  <2> QED
    BY <1>8, <1>10, <1>12, <2>1, <2>2, <2>3, <2>4, <2>5, <2>6, StepTied
<1> QED
  BY <1>7, <1>11, <1>12

LEMMA RestartTied ==
    ASSUME Tied, Restart
    PROVE  Tied'
<1> USE DEF Tied
<1>1. /\ used' = [used EXCEPT !["restarts"] = @ + 1] /\ "restarts" \in Bounds
      /\ db' \in {db} \cup {rt[r].snap : r \in {i \in Instances : rt[i].holder # Nobody}}
      /\ rt' = [r \in Instances |-> Fresh(Empty)]
      /\ session' = 0 /\ created' = 0
      /\ creation' = [holder |-> Nobody, waiting |-> {}]
      /\ turn' = [t \in Turns |-> [turn[t] EXCEPT !.pc = IF @ = "new" THEN "new" ELSE "done", !.rt = 0]]
      /\ heart' = [pc |-> "rest", rt |-> 0, epoch |-> 0, before |-> 0]
      /\ life' = [phase |-> "open", rt |-> 0]
      /\ UNCHANGED <<clock, told, called>>
  BY DEF Restart, Spend, Bounds
<1>2. Counting
  BY <1>1, SpendCounts
<1>3. /\ \A r \in Instances : rt'[r] = Fresh(Empty)
      /\ rt' \in [Instances -> Runtime] /\ Empty \in State /\ 0 \in 0..MaxRuntimes
  <2>1. Empty \in State
    BY DEF Empty, State
  <2>2. Fresh(Empty) \in Runtime
    BY <2>1, FreshIs
  <2>3. rt' = [r \in Instances |-> Fresh(Empty)]
    BY <1>1
  <2>4. 0 \in 0..MaxRuntimes
    BY BoundsAssumption
  <2> QED
    BY <2>1, <2>2, <2>3, <2>4
<1>4. db' \in State
  BY <1>1, TypedFields DEF Runtime, Typed
<1>5. /\ turn' \in [Turns -> TurnType]
      /\ \A t \in Turns : turn'[t].pc \in {"new", "done"}
  <2>1. ASSUME NEW t \in Turns
        PROVE  turn'[t] \in TurnType /\ turn'[t].pc \in {"new", "done"}
    <3>1. PICK u \in TurnType : u = turn[t]
      BY TypedFields
    <3>2. turn'[t] = [u EXCEPT !.pc = IF u.pc = "new" THEN "new" ELSE "done", !.rt = 0]
      BY <1>1, <3>1
    <3> QED
      BY <1>3, <3>2 DEF TurnType
  <2> QED
    BY <1>1, <2>1
<1>6. heart' \in HeartType /\ life' \in LifeType /\ creation' \in LockType
  BY <1>1, <1>3 DEF HeartType, LifeType, LockType
<1>7. Typed'
  BY <1>1, <1>2, <1>3, <1>4, <1>5, <1>6 DEF Typed, Counting
<1>8. TurnsTied'
  BY <1>5 DEF TurnsTied, TurnTied
<1>9. LockServes'
  BY <1>1, NobodyIs DEF LockServes, InCreation
<1>10. SaversKnown'
  BY <1>3, FreshIs, NobodyIs DEF SaversKnown, SaversOf
<1>11. Numbered'
  <2>1. session' = 0 /\ created' = 0 /\ life'.phase = "open" /\ heart'.pc = "rest"
    BY <1>1
  <2> QED
    BY <2>1 DEF Numbered
<1> QED
  BY <1>7, <1>8, <1>9, <1>10, <1>11

LEMMA InitTied ==
    ASSUME Init
    PROVE  Tied
<1>1. /\ \A r \in Instances : rt[r] = Fresh(Empty)
      /\ rt \in [Instances -> Runtime] /\ Empty \in State /\ 0 \in 0..MaxRuntimes
  BY FreshIs, BoundsAssumption DEF Init, Empty, State
<1>2. /\ heart \in HeartType /\ life \in LifeType /\ creation \in LockType
      /\ turn \in [Turns -> TurnType] /\ \A t \in Turns : turn[t].pc = "new"
  BY <1>1 DEF Init, HeartType, LifeType, LockType, TurnType
<1>3. used \in UsedType
  BY DEF Init, UsedType
<1>4. told \in [1..Cardinality(Turns) -> Nat]
  BY DEF Init
<1>5. Typed
  BY <1>1, <1>2, <1>3, <1>4 DEF Typed, Init
<1>6. TurnsTied
  BY <1>2 DEF TurnsTied, TurnTied
<1>7. LockServes
  BY NobodyIs DEF Init, LockServes, InCreation
<1>8. SaversKnown
  BY <1>1, FreshIs, NobodyIs DEF SaversKnown, SaversOf
<1>9. Numbered
  BY DEF Init, Numbered
<1> QED
  BY <1>5, <1>6, <1>7, <1>8, <1>9 DEF Tied

LEMMA NextTied == Tied /\ [Next]_vars => Tied'
<1> SUFFICES ASSUME Tied, [Next]_vars
             PROVE  Tied'
  OBVIOUS
<1>1. ASSUME NEW t \in Turns, Turn(t)
      PROVE  Tied'
  BY <1>1, ArriveTied, BindTied, AdmitTied, AbandonTied, ReleaseTied DEF Turn
<1>2. ASSUME NEW c \in Creators, TakeCreationLock(c) \/ Load(c)
      PROVE  Tied'
  BY <1>2, TakeTied, LoadTied
<1>3. CASE Beat \/ Observe \/ OtherSession
  BY <1>3, BeatTied, ObserveTied, OtherSessionTied
<1>4. ASSUME NEW r \in Instances, Evaluation(r) \/ EvalStops(r)
      PROVE  Tied'
  BY <1>4, EvaluationTied, EvalStopsTied
<1>5. ASSUME NEW r \in Instances, NEW p \in Persisters, Saving(r, p)
      PROVE  Tied'
  BY <1>5, SavingTied
<1>6. CASE StopHeart \/ Shutdown \/ CloseRuntime \/ Restart
  BY <1>6, StopHeartTied, ShutdownTied, CloseRuntimeTied, RestartTied
<1>7. CASE UNCHANGED vars
  BY <1>7 DEF vars, Tied, Typed, TurnsTied, TurnTied, LockServes, InCreation,
              SaversKnown, SaversOf, Numbered
<1> QED
  BY <1>1, <1>2, <1>3, <1>4, <1>5, <1>6, <1>7 DEF Next

(* A turn that is bound keeps its runtime until shutdown, whatever is      *)
(* evicted, created or restarted meanwhile (_bind, _evict_runtime).        *)
THEOREM BoundTurnsKeepTheirRuntime == Spec => []BoundIsCurrent
<1>1. Spec => []Tied
  BY InitTied, NextTied, PTL DEF Spec
<1>2. Tied => BoundIsCurrent
  BY DEF Tied, TurnsTied, TurnTied, BoundIsCurrent
<1> QED
  BY <1>1, <1>2, PTL

(* Every variable has its type.                                            *)
THEOREM RuntimeTyped == Spec => []TypeOK
<1>1. Spec => []Tied
  BY InitTied, NextTied, PTL DEF Spec
<1>2. Tied => TypeOK
  BY DEF Tied, Typed, TypeOK, TurnType, HeartType, LifeType, LockType
<1> QED
  BY <1>1, <1>2, PTL

-----------------------------------------------------------------------------
(* While nothing disturbs the record: no save cancelled, no load failed,   *)
(* no shutdown, and no runtime evicted beside the heartbeat.               *)
Quiet(m) == m.holder = Nobody /\ m.waiting = {} /\ m.bound = {} /\ m.eval = "none"

(* The heartbeat that saves its claim: the epoch has not been told, and    *)
(* what has been told is older than the claim it may go back to.           *)
Claimant ==
    heart.pc = "persist" =>
        /\ session # 0 /\ heart.rt = session
        /\ rt[session].mem.claim = heart.epoch
        /\ \A e \in DOMAIN told : told[e] > 0 => e <= heart.before /\ e # heart.epoch

Recorded ==
    /\ \A r \in Instances : r # session => Quiet(rt[r])
    /\ Covers(db, called, told) /\ db.calls <= DailyLimit
    /\ \A e \in DOMAIN told : told[e] <= 1
    /\ session # 0 => Kept(rt[session], db, called, told)
    /\ Claimant

RecordedInv == Tied /\ (Undisturbed => Recorded)

LEMMA CalmIs ==
    ASSUME Tied, Undisturbed
    PROVE  /\ used["cancels"] = 0 /\ used["loads"] = 0 /\ used["shutdowns"] = 0
           /\ life.phase = "open" /\ (used["evictions"] = 0 \/ used["beats"] = 0)
           /\ \A r \in Instances : ~InPersist(rt[r], Closer)
           /\ \A t \in Turns : turn[t].pc \in {"bound", "active", "persist"} => turn[t].rt = session
BY DEF Tied, Numbered, SaversKnown, SaversOf, Undisturbed, TurnsTied, TurnTied

(* An instance that is at work is the key's.                               *)
LEMMA AtWork ==
    ASSUME Tied, Recorded, NEW r \in Instances, ~Quiet(rt[r])
    PROVE  /\ r = session /\ session # 0 /\ rt[r] \in Runtime
           /\ Kept(rt[r], db, called, told)
BY TypedFields DEF Tied, Recorded

LEMMA SaversWork ==
    ASSUME Tied, NEW r \in Instances, NEW p \in Persisters, InPersist(rt[r], p)
    PROVE  ~Quiet(rt[r])
BY NobodyIs DEF InPersist, Quiet

(* With nobody bound and no evaluation nobody is in the save either, but   *)
(* the heartbeat.                                                          *)
LEMMA IdleIsQuiet ==
    ASSUME Tied', NEW r \in Instances, Idle(rt'[r]),
           ~(used'["shutdowns"] > 0), ~(used'["beats"] > 0)
    PROVE  Quiet(rt'[r])
<1>1. rt'[r] \in Runtime /\ SaversOf(r)'
  BY DEF Tied, Typed, SaversKnown
<1>2. rt'[r].bound = {} /\ rt'[r].eval = "none"
  BY DEF Idle
<1>3. ASSUME NEW p \in Persisters, InPersist(rt'[r], p)
      PROVE  FALSE
  <2>1. CASE p \in Turns
    <3>1. turn'[p].pc = "persist" /\ turn'[p].rt = r
      BY <1>1, <1>3, <2>1 DEF SaversOf
    <3>2. p \in rt'[r].bound
      BY <2>1, <3>1 DEF Tied, TurnsTied, TurnTied
    <3> QED
      BY <1>2, <3>2
  <2>2. CASE p = Heart
    BY <1>1, <1>3, <2>2 DEF SaversOf, Tied, Numbered
  <2>3. CASE p = Eval
    BY <1>1, <1>2, <1>3, <2>3 DEF SaversOf
  <2>4. CASE p = Closer
    BY <1>1, <1>3, <2>4 DEF SaversOf
  <2> QED
    BY <2>1, <2>2, <2>3, <2>4 DEF Persisters
<1>4. rt'[r].holder \in Persisters \cup {Nobody} /\ rt'[r].waiting \subseteq Persisters
  BY <1>1 DEF Runtime
<1> QED
  BY <1>2, <1>3, <1>4 DEF Quiet, InPersist

(* Where a runtime is evicted, the heartbeat does not save.                *)
LEMMA EvictedIs ==
    ASSUME Tied', Undisturbed', used'["evictions"] > 0
    PROVE  /\ ~(used'["shutdowns"] > 0) /\ ~(used'["beats"] > 0)
           /\ heart'.pc # "persist" /\ Claimant'
BY DEF Tied, Numbered, Undisturbed, Claimant

LEMMA SameClaimant ==
    ASSUME Claimant, heart' = heart, told' = told, session' = session,
           session # 0 => rt'[session].mem.claim = rt[session].mem.claim
    PROVE  Claimant'
BY DEF Claimant

(* The key's instance changes, and may be evicted when it is quiet.        *)
LEMMA StepRecorded ==
    ASSUME Tied, Recorded, NEW r \in Instances, r = session \/ session = 0, NEW n \in Runtime,
           rt' = [rt EXCEPT ![r] = n],
           Kept(n, db', called', told'), Covers(db', called', told'), db'.calls <= DailyLimit,
           \A e \in DOMAIN told' : told'[e] <= 1,
           session' = r \/ (session' = 0 /\ Quiet(n)),
           Claimant'
    PROVE  Recorded'
<1>1. rt'[r] = n /\ \A q \in Instances : q # r => rt'[q] = rt[q] /\ q # session
  BY TypedFields DEF Tied, Typed
<1>2. \A q \in Instances : q # session' => Quiet(rt'[q])
  BY <1>1 DEF Recorded
<1>3. session' # 0 => Kept(rt'[session'], db', called', told')
  BY <1>1
<1> QED
  BY <1>2, <1>3 DEF Recorded

(* Nothing but tasks without a runtime change; the key's runtime may be    *)
(* evicted.                                                                *)
LEMMA RestRecorded ==
    ASSUME Tied, Tied', Recorded, Undisturbed', rt' = rt, db' = db, called' = called, told' = told,
           \/ session' = session /\ (heart' = heart \/ heart'.pc # "persist")
           \/ /\ session' = 0 /\ used'["evictions"] > 0
              /\ session # 0 => Idle(rt[session])
    PROVE  Recorded'
<1>1. CASE session' = session /\ (heart' = heart \/ heart'.pc # "persist")
  BY <1>1 DEF Recorded, Claimant
<1>2. CASE session' = 0 /\ used'["evictions"] > 0 /\ (session # 0 => Idle(rt[session]))
  <2>1. Claimant' /\ ~(used'["shutdowns"] > 0) /\ ~(used'["beats"] > 0)
    BY <1>2, EvictedIs
  <2>2. ASSUME NEW q \in Instances
        PROVE  Quiet(rt'[q])
    <3>1. CASE q # session
      BY <3>1 DEF Recorded
    <3>2. CASE q = session
      <4>1. Idle(rt'[q])
        BY <1>2, <3>2, TypedFields DEF Tied
      <4> QED
        BY <2>1, <4>1, IdleIsQuiet
    <3> QED
      BY <3>1, <3>2
  <2> QED
    BY <1>2, <2>1, <2>2 DEF Recorded
<1> QED
  BY <1>1, <1>2

-----------------------------------------------------------------------------
(* The disturbances are counted and never forgotten.                       *)
CountsGrow == \A b \in Bounds : used[b] <= used'[b]

LEMMA SpendGrows ==
    ASSUME Typed, UNCHANGED used \/ \E b \in Bounds : used' = [used EXCEPT ![b] = @ + 1]
    PROVE  CountsGrow
<1>1. used \in [Bounds -> Nat]
  BY DEF Typed, UsedType, Bounds
<1>2. CASE UNCHANGED used
  BY <1>1, <1>2 DEF CountsGrow
<1>3. ASSUME NEW b \in Bounds, used' = [used EXCEPT ![b] = @ + 1]
      PROVE  CountsGrow
  BY <1>1, <1>3 DEF CountsGrow
<1> QED
  BY <1>2, <1>3

LEMMA SweepGrows ==
    ASSUME Typed, NEW b \in Bounds, b # "evictions", NEW w \in BOOLEAN,
           used' = [used EXCEPT ![b] = @ + 1, !["evictions"] = IF w THEN @ + 1 ELSE @]
    PROVE  CountsGrow /\ (w => used'["evictions"] > 0)
<1>1. used \in [Bounds -> Nat] /\ "evictions" \in Bounds
  BY DEF Typed, UsedType, Bounds
<1>2. CASE w
  <2>1. used' = [used EXCEPT ![b] = @ + 1, !["evictions"] = @ + 1]
    BY <1>2
  <2> QED
    BY <1>1, <2>1 DEF CountsGrow
<1>3. CASE ~w
  <2>1. used' = [used EXCEPT ![b] = @ + 1, !["evictions"] = @]
    BY <1>3
  <2> QED
    BY <1>1, <1>3, <2>1 DEF CountsGrow
<1> QED
  BY <1>2, <1>3

LEMMA SettleGrows ==
    ASSUME Typed, NEW w \in BOOLEAN,
           used' = [used EXCEPT !["evictions"] = IF w THEN @ + 1 ELSE @]
    PROVE  CountsGrow /\ (w => used'["evictions"] > 0)
<1>1. used \in [Bounds -> Nat] /\ "evictions" \in Bounds
  BY DEF Typed, UsedType, Bounds
<1>2. CASE w
  BY <1>1, <1>2 DEF CountsGrow
<1>3. CASE ~w
  BY <1>1, <1>3 DEF CountsGrow
<1> QED
  BY <1>2, <1>3

LEMMA EvictingGrows ==
    ASSUME Typed, NEW s, Evicting(s)
    PROVE  CountsGrow /\ (s # session => used'["evictions"] > 0)
<1>1. "evictions" \in Bounds /\ used["evictions"] \in Nat
  BY DEF Typed, UsedType, Bounds
<1>2. CountsGrow
  BY <1>1, SpendGrows DEF Evicting, Spend
<1> QED
  BY <1>1, <1>2, EvictingCounts

LEMMA CalmBefore ==
    ASSUME Tied, CountsGrow, Undisturbed'
    PROVE  Undisturbed
<1>2. \A b \in {"cancels", "loads", "shutdowns", "evictions", "beats"} :
         used[b] \in Nat /\ (used'[b] = 0 => used[b] = 0)
  BY DEF Tied, Typed, UsedType, Bounds, CountsGrow
<1> QED
  BY <1>2 DEF Undisturbed

(* The runtime is obtained by c, and stands for the record.                *)
LEMMA ObtainedRecorded ==
    ASSUME Tied, Tied', Recorded, Undisturbed', NEW c \in Creators, NEW r \in Instances,
           NEW m \in Runtime, Obtained(c, r, m), Kept(m, db, called, told),
           (r = session /\ m = rt[r]) \/ session = 0, session' = r,
           db' = db, called' = called
    PROVE  Recorded'
<1>1. PICK n \in Runtime : /\ Handed(c, r, m, n)
                           /\ \/ SameSave(m, n) /\ (c = Heart => heart'.pc = "rest")
                              \/ c = Heart /\ Claims(r, m, n)
  BY ObtainedIs DEF Tied
<1>2. /\ rt' = [rt EXCEPT ![r] = n] /\ rt'[r] = n /\ told' = told
      /\ c # Heart => heart' = heart
      /\ n.eval = m.eval \/ (n.eval = "debounce" /\ m.eval = "none")
  BY <1>1, NobodyIs DEF Handed, Tied, Typed
<1>3. /\ Covers(db, called, told) /\ db.calls <= DailyLimit /\ db \in State
      /\ \A e \in DOMAIN told : told[e] <= 1
  BY DEF Recorded, Tied, Typed
<1>4. CASE SameSave(m, n) /\ (c = Heart => heart'.pc = "rest")
  <2>1. Kept(n, db, called, told)
    BY <1>2, <1>4, KeptSame
  <2>2. Claimant'
    <3>1. CASE c # Heart
      BY <1>2, <1>4, <3>1, TypedFields DEF Recorded, Claimant, SameSave
    <3>2. CASE c = Heart
      BY <1>4, <3>2 DEF Claimant
    <3> QED
      BY <3>1, <3>2
  <2> QED
    BY <1>2, <1>3, <1>4, <2>1, <2>2, StepRecorded
<1>5. CASE c = Heart /\ Claims(r, m, n)
  <2>1. PICK e \in Nat : e = m.mem.activity
    BY DEF Runtime, State
  <2>2. PICK k \in Runtime : k = [m EXCEPT !.mem.claim = e, !.dirty = TRUE]
    BY <2>1, ClaimedIs
  <2>3. /\ k.eval = m.eval /\ k.holder = m.holder /\ k.snap = m.snap /\ k.dirty
        /\ k.mem.claim = e /\ k.mem.calls = m.mem.calls /\ k.mem.activity = m.mem.activity
    BY <2>1, <2>2, ClaimedIs, SMTT(20), ZenonT(30)
  <2>4. /\ n = Persist(k, Heart) /\ n.mem.claim = e /\ heart'.pc = "persist" /\ heart'.rt = r
        /\ heart'.epoch = e /\ heart'.before = m.mem.claim /\ m.mem.claim < e
    BY <1>5, <2>1, <2>2 DEF Claims
  <2>5. m.mem.claim \in Nat /\ m.mem.calls \in Nat /\ m.mem.activity \in Nat
    BY DEF Runtime, State
  <2>6. \A i \in DOMAIN told : told[i] > 0 => i <= m.mem.claim /\ i <= e /\ i # e
    <3>1. \A i \in DOMAIN told : told[i] > 0 => i <= m.mem.claim
      BY DEF Kept, Covers
    <3>2. \A i \in DOMAIN told : i \in Int
      BY DEF Tied, Typed
    <3> QED
      BY <2>1, <2>4, <2>5, <3>1, <3>2
  <2>7. Covers(k.mem, called, told) /\ Grown(m.mem, k.mem)
    <3>1. called <= m.mem.calls
      BY DEF Kept, Covers
    <3>2. Grown(m.mem, k.mem)
      BY <2>3, <2>5 DEF Grown
    <3>3. Covers(k.mem, called, told)
      BY <2>3, <2>6, <3>1 DEF Covers
    <3> QED
      BY <3>2, <3>3
  <2>8. Kept(k, db, called, told)
    <3>1. k.eval = "count" => called < k.mem.calls
      BY <2>3 DEF Kept
    <3>2. k.mem.calls <= DailyLimit /\ (k.eval = "policy" => k.mem.calls < DailyLimit)
      BY <2>3 DEF Kept
    <3> QED
      BY <1>3, <2>3, <2>7, <3>1, <3>2, KeptChanged
  <2>9. Kept(n, db, called, told)
    BY <1>3, <2>4, <2>8, KeptPersist, NobodyIs
  <2>10. Claimant'
    BY <1>2, <2>4, <2>6, TypedFields DEF Claimant, Tied
  <2>11. n \in Runtime
    BY <1>1
  <2> QED
    BY <1>2, <1>3, <2>9, <2>10, <2>11, StepRecorded
<1> QED
  BY <1>1, <1>4, <1>5

(* It waits.                                                               *)
LEMMA WaitsRecorded ==
    ASSUME Tied, Tied', Recorded, Undisturbed', NEW c \in Creators, Creating(c),
           \/ session' = session
           \/ session' = 0 /\ used'["evictions"] > 0 /\ (session # 0 => Idle(rt[session])),
           db' = db, called' = called
    PROVE  Recorded'
<1>1. rt' = rt /\ told' = told /\ (heart' = heart \/ heart' = [heart EXCEPT !.pc = "create"])
  BY DEF Creating
<1>2. heart' = heart \/ heart'.pc # "persist"
  BY <1>1 DEF Tied, Typed, HeartType
<1> QED
  BY <1>1, <1>2, RestRecorded

LEMMA LookUpRecorded ==
    ASSUME Tied, Tied', Recorded, Undisturbed', NEW c \in Creators, NEW lock,
           session' \in Swept(session, rt[session]), session' # session => used'["evictions"] > 0,
           LookUp(c, session', lock), db' = db, called' = called
    PROVE  Recorded'
<1>1. session' = session \/ (session' = 0 /\ session # 0 /\ Idle(rt[session]))
  BY SweptIs
<1>2. CASE session' # 0 /\ Obtained(c, session', rt[session'])
  <2>1. PICK r \in Instances : r = session' /\ r = session
    BY <1>1, <1>2, TypedFields DEF Tied
  <2>2. rt[r] \in Runtime /\ Kept(rt[r], db, called, told)
    BY <2>1, TypedFields DEF Tied, Recorded
  <2>3. Obtained(c, r, rt[r])
    BY <1>2, <2>1
  <2> QED
    BY <2>1, <2>2, <2>3, ObtainedRecorded
<1>3. CASE Creating(c)
  BY <1>1, <1>3, WaitsRecorded
<1> QED
  BY <1>2, <1>3 DEF LookUp

LEMMA SeekRecorded ==
    ASSUME Tied, Tied', Recorded, Undisturbed', NEW c \in Creators, SeekRuntime(c),
           session' # session => used'["evictions"] > 0, db' = db, called' = called
    PROVE  Recorded'
<1>1. /\ session' \in Swept(session, rt[session])
      /\ LookUp(c, session', creation) \/ Creating(c)
  BY DEF SeekRuntime
<1>2. session' = session \/ (session' = 0 /\ session # 0 /\ Idle(rt[session]))
  BY <1>1, SweptIs
<1> QED
  BY <1>1, <1>2, LookUpRecorded, WaitsRecorded

LEMMA TakeRecorded ==
    ASSUME Tied, Tied', Recorded, Undisturbed', NEW c \in Creators, TakeCreationLock(c)
    PROVE  Recorded'
<1>1. PICK lock : LookUp(c, session, lock)
  BY DEF TakeCreationLock
<1>2. session' = session /\ db' = db /\ called' = called
  BY DEF TakeCreationLock
<1>3. session' \in Swept(session, rt[session]) /\ LookUp(c, session', lock)
  BY <1>1, <1>2 DEF Swept
<1> QED
  BY <1>2, <1>3, LookUpRecorded

LEMMA LoadRecorded ==
    ASSUME Tied, Tied', Recorded, Undisturbed', NEW c \in Creators, Load(c)
    PROVE  Recorded'
<1>1. /\ creation.holder = c /\ created < MaxRuntimes /\ created' = created + 1
      /\ session' = created' /\ UNCHANGED <<db, life, clock, called>>
  BY DEF Load
<1>2. session = 0
  BY <1>1, NobodyIs DEF Tied, LockServes
<1>3. created \in Nat /\ MaxRuntimes \in Nat
  BY TypedFields DEF Tied
<1>4. PICK r \in Instances : r = created'
  BY <1>1, <1>3 DEF Instances
<1>5. Obtained(c, r, Fresh(db))
  <2>1. CASE Spend("loads")
    <3>1. used' = [used EXCEPT !["loads"] = @ + 1] /\ used["loads"] \in Nat
      BY <2>1 DEF Spend, Tied, Typed, UsedType
    <3>2. used'["loads"] = used["loads"] + 1
      BY <3>1 DEF Tied, Typed, UsedType
    <3> QED
      BY <3>1, <3>2 DEF Undisturbed
  <2>2. CASE Obtained(c, created', Fresh(db))
    BY <1>4, <2>2
  <2> QED
    BY <2>1, <2>2 DEF Load
<1>6. db \in State /\ Covers(db, called, told) /\ db.calls <= DailyLimit
  BY DEF Tied, Typed, Recorded
<1>7. Fresh(db) \in Runtime /\ Kept(Fresh(db), db, called, told)
  BY <1>6, FreshIs, KeptFresh
<1> QED
  BY <1>1, <1>2, <1>4, <1>5, <1>7, ObtainedRecorded

-----------------------------------------------------------------------------
(* The turns.                                                              *)
LEMMA AdmitRecorded ==
    ASSUME Tied, Tied', Recorded, Undisturbed, NEW t \in Turns, Admit(t)
    PROVE  Recorded'
<1>0. PICK r \in Instances : r = turn[t].rt /\ r = session
  BY TurnPlace, CalmIs DEF Admit
<1>1. PICK m \in Runtime : m = rt[r]
  BY TypedFields DEF Tied
<1>2. PICK a : a = IF t \in Users /\ turn[t].at > m.mem.activity
                   THEN turn[t].at ELSE m.mem.activity
  OBVIOUS
<1>3. m.mem \in State /\ m.mem.activity \in Nat /\ turn[t].at \in Nat /\ m.dirty \in BOOLEAN
  BY TypedFields DEF Runtime, State, Tied, TurnType
<1>4. a \in Nat /\ m.mem.activity <= a
  BY <1>2, <1>3
<1>5. /\ rt' = [rt EXCEPT ![r] = [m EXCEPT !.active = t, !.mem.activity = a,
                                           !.dirty = m.dirty \/ a # m.mem.activity]]
      /\ UNCHANGED <<db, session, heart, told, called>>
  BY <1>0, <1>1, <1>2 DEF Admit
<1>6. Kept(m, db, called, told) /\ Covers(m.mem, called, told) /\ m.mem.calls <= DailyLimit
  BY <1>0, <1>1, TypedFields DEF Tied, Recorded, Kept
<1>7. PICK n \in Runtime :
         /\ rt' = [rt EXCEPT ![r] = n] /\ Kept(n, db, called, told) /\ n.mem.claim = m.mem.claim
  <2>1. CASE a = m.mem.activity
    <3>1. PICK n : n = [m EXCEPT !.active = t]
      OBVIOUS
    <3>2. n \in Runtime /\ SameSave(m, n) /\ n.eval = m.eval
      BY <3>1 DEF Runtime, SameSave
    <3>3. [m EXCEPT !.active = t, !.mem.activity = a, !.dirty = m.dirty \/ a # m.mem.activity] = n
      <4>1. (m.dirty \/ a # m.mem.activity) = m.dirty
        BY <2>1, <1>3, Zenon
      <4>2. [m.mem EXCEPT !.activity = a] = m.mem
        BY <1>3, <2>1 DEF State
      <4>3. [m EXCEPT !.active = t, !.mem.activity = a, !.dirty = m.dirty] = n
        BY <1>3, <3>1, <4>2 DEF Runtime
      <4> QED
        BY <4>1, <4>3, Zenon
    <3> QED
      BY <1>5, <1>6, <3>2, <3>3, KeptSame DEF SameSave
  <2>2. CASE a # m.mem.activity
    <3>1. PICK s \in State : s = [m.mem EXCEPT !.activity = a]
      BY <1>3, <1>4 DEF State
    <3>2. s.activity = a /\ s.calls = m.mem.calls /\ s.claim = m.mem.claim
      BY <1>3, <3>1 DEF State
    <3>3. PICK n : n = [m EXCEPT !.active = t, !.mem = s, !.dirty = TRUE]
      OBVIOUS
    <3>4. /\ n \in Runtime /\ n.mem = s /\ n.dirty /\ n.holder = m.holder /\ n.snap = m.snap
          /\ n.eval = m.eval
      BY <3>3 DEF Runtime
    <3>5. [m EXCEPT !.active = t, !.mem.activity = a, !.dirty = m.dirty \/ a # m.mem.activity] = n
      <4>1. (m.dirty \/ a # m.mem.activity) = TRUE
        BY <2>2, Zenon
      <4>2. [m EXCEPT !.active = t, !.mem.activity = a, !.dirty = TRUE] = n
        BY <3>1, <3>3 DEF Runtime
      <4> QED
        BY <4>1, <4>2, Zenon
    <3>6. Covers(s, called, told) /\ Grown(m.mem, s)
      <4>1. m.mem.calls \in Nat
        BY <1>3 DEF State
      <4> QED
        BY <1>4, <1>6, <3>2, <4>1 DEF Covers, Grown
    <3>7. /\ n.eval = "count" => called < n.mem.calls
          /\ n.mem.calls <= DailyLimit /\ (n.eval = "policy" => n.mem.calls < DailyLimit)
      BY <1>6, <3>2, <3>4 DEF Kept
    <3>8. db \in State
      BY DEF Tied, Typed
    <3>9. Kept(n, db, called, told)
      BY <1>6, <3>4, <3>6, <3>7, <3>8, KeptChanged
    <3> QED
      BY <1>5, <3>2, <3>4, <3>5, <3>9
  <2> QED
    BY <2>1, <2>2
<1>8. rt'[session].mem.claim = rt[session].mem.claim
  BY <1>0, <1>1, <1>7 DEF Tied, Typed
<1>9. Claimant'
  BY <1>5, <1>8, SameClaimant DEF Recorded
<1>10. /\ Covers(db', called', told') /\ db'.calls <= DailyLimit /\ Kept(n, db', called', told')
       /\ \A e \in DOMAIN told' : told'[e] <= 1
       /\ session' = r
  BY <1>0, <1>5, <1>7 DEF Recorded
<1> QED
  BY <1>0, <1>7, <1>9, <1>10, StepRecorded

(* A turn settles on the key's runtime, of which a save may have left m.   *)
LEMMA SettleRecorded ==
    ASSUME Tied, Tied', Recorded, Undisturbed', NEW t \in Turns, NEW r \in Instances,
           NEW m \in Runtime, r = session, SettleTurn(t, r, m),
           Kept(m, db', called, told), m.mem.claim = rt[r].mem.claim,
           Covers(db', called, told), db'.calls <= DailyLimit,
           called' = called, told' = told, heart' = heart,
           session' # session => used'["evictions"] > 0
    PROVE  Recorded'
<1>1. PICK n \in Runtime : n = Settled(m, t)
  BY SettledIs
<1>2. /\ SameSave(m, n) /\ (n.eval = m.eval \/ (n.eval = "debounce" /\ m.eval = "none"))
      /\ rt' = [rt EXCEPT ![r] = n] /\ session' \in Swept(session, rt'[session])
  BY <1>1, SettledIs DEF SettleTurn
<1>3. rt'[r] = n
  BY <1>2 DEF Tied, Typed
<1>4. Kept(n, db', called', told') /\ n.mem.claim = rt[r].mem.claim
  BY <1>2, KeptSame DEF SameSave
<1>5. session' = r \/ (session' = 0 /\ Idle(n))
  BY <1>2, <1>3, SweptIs
<1>6. CASE session' = r
  BY <1>2, <1>3, <1>4, <1>6, SameClaimant, StepRecorded DEF Recorded
<1>7. CASE session' = 0 /\ Idle(n) /\ session' # r
  <2>1. Claimant' /\ ~(used'["shutdowns"] > 0) /\ ~(used'["beats"] > 0)
    BY <1>7, EvictedIs
  <2>2. Quiet(n)
    BY <1>3, <1>7, <2>1, IdleIsQuiet
  <2>3. \A e \in DOMAIN told' : told'[e] <= 1
    BY DEF Recorded
  <2> QED
    BY <1>2, <1>4, <1>7, <2>1, <2>2, <2>3, StepRecorded
<1> QED
  BY <1>5, <1>6, <1>7

LEMMA ReleaseRecorded ==
    ASSUME Tied, Tied', Recorded, Undisturbed, Undisturbed', NEW t \in Turns, Release(t)
    PROVE  Recorded'
<1>0. PICK r \in Instances : r = turn[t].rt /\ r = session
  BY TurnPlace, CalmIs DEF Release
<1>1. PICK m \in Runtime : m = rt[r]
  BY TypedFields DEF Tied
<1>2. UNCHANGED <<db, heart, told, called>>
  BY DEF Release
<1>3. /\ Kept(m, db, called, told) /\ Covers(db, called, told) /\ db.calls <= DailyLimit
      /\ db \in State /\ \A e \in DOMAIN told : told[e] <= 1
  BY <1>0, <1>1, TypedFields DEF Tied, Typed, Recorded
<1>4. CASE SettleTurn(t, r, m) /\ Evicting(session')
  <2>1. session' # session => used'["evictions"] > 0
    BY <1>4, EvictingGrows DEF Tied
  <2> QED
    BY <1>0, <1>1, <1>2, <1>3, <1>4, <2>1, SettleRecorded
<1>5. CASE rt' = [rt EXCEPT ![r] = Persist([m EXCEPT !.dirty = TRUE], t)] /\ session' = session
  <2>1. PICK k : k = [m EXCEPT !.dirty = TRUE]
    OBVIOUS
  <2>2. /\ k \in Runtime /\ k.mem = m.mem /\ k.dirty /\ k.holder = m.holder /\ k.snap = m.snap
        /\ k.eval = m.eval
    BY <2>1 DEF Runtime
  <2>3. m.mem \in State /\ Grown(m.mem, m.mem)
    BY GrownOrder DEF Runtime
  <2>4. Kept(k, db, called, told)
    <3>1. /\ Covers(k.mem, called, told) /\ k.mem.calls <= DailyLimit
          /\ k.eval = "count" => called < k.mem.calls
          /\ k.eval = "policy" => k.mem.calls < DailyLimit
      BY <1>3, <2>2 DEF Kept
    <3>2. Grown(m.mem, k.mem)
      BY <2>2, <2>3
    <3> QED
      BY <1>3, <2>2, <3>1, <3>2, KeptChanged
  <2>5. t \in Persisters
    BY NobodyIs
  <2>6. PICK n \in Runtime : n = Persist(k, t)
    BY <2>2, <2>5, PersistIs
  <2>7. n.mem = k.mem /\ Kept(n, db, called, told)
    BY <1>3, <2>2, <2>4, <2>5, <2>6, PersistIs, KeptPersist
  <2>8. rt' = [rt EXCEPT ![r] = n] /\ rt'[r] = n
    BY <1>5, <2>1, <2>6 DEF Tied, Typed
  <2>9. Claimant'
    BY <1>0, <1>1, <1>2, <1>5, <2>2, <2>7, <2>8, SameClaimant DEF Recorded
  <2> QED
    BY <1>0, <1>2, <1>3, <1>5, <2>7, <2>8, <2>9, StepRecorded
<1> QED
  BY <1>0, <1>1, <1>4, <1>5 DEF Release

-----------------------------------------------------------------------------
(* What follows a save on the key's runtime r: m is what it leaves, and    *)
(* the record is m's state when it went through.                           *)
After(r, m, outcome) ==
    /\ m \in Runtime /\ m.mem = rt[r].mem /\ m.holder = Nobody
    /\ Kept(m, db', called, told)
    /\ Covers(db', called, told) /\ db'.calls <= DailyLimit
    /\ outcome = "saved" => db' = m.mem

LEMMA HeartRecorded ==
    ASSUME Tied, Tied', Recorded, NEW r \in Instances, r = session, NEW m,
           NEW outcome \in {"saved", "failed"}, After(r, m, outcome),
           HeartSaved(r, m, outcome), heart.pc = "persist",
           session' = session, called' = called
    PROVE  Recorded'
<1>1. /\ m \in Runtime /\ m.mem = rt[r].mem /\ m.holder = Nobody
      /\ Kept(m, db', called, told)
      /\ Covers(db', called, told) /\ db'.calls <= DailyLimit
      /\ (outcome = "saved" => db' = m.mem) /\ db' \in State
  BY DEF After, Tied, Typed
<1>2. PICK b \in Nat : b = heart.before
  BY DEF Tied, Typed, HeartType
<1>3. PICK i \in Nat : i = heart.epoch
  BY DEF Tied, Typed, HeartType
<1>4. /\ m.mem.claim = i /\ \A e \in DOMAIN told : told[e] > 0 => e <= b /\ e # i
  BY <1>1, <1>2, <1>3 DEF Recorded, Claimant
<1>5. told \in [1..Cardinality(Turns) -> Nat] /\ \A e \in DOMAIN told : told[e] <= 1
  BY DEF Tied, Typed, Recorded
<1>6. CASE /\ outcome = "saved" /\ rt' = [rt EXCEPT ![r] = WithIdleFact(m, i)]
           /\ told' = [told EXCEPT ![i] = @ + 1] /\ heart' = [heart EXCEPT !.pc = "rest"]
  <2>1. PICK f \in SUBSET Nat : f = (m.facts \cap {0}) \cup {i}
    BY <1>1, <1>3 DEF Runtime
  <2>2. PICK k \in Runtime : k = [m EXCEPT !.facts = f]
    BY <1>1 DEF Runtime
  <2>3. SameSave(m, k) /\ k.eval = m.eval
    BY <1>1, <2>2 DEF Runtime, SameSave
  <2>4. PICK n \in Runtime : n = Evaluating(k)
    BY EvaluatingIs
  <2>5. SameSave(k, n) /\ (n.eval = k.eval \/ (n.eval = "debounce" /\ k.eval = "none"))
    BY <2>4, EvaluatingIs
  <2>6. rt' = [rt EXCEPT ![r] = n]
    BY <1>6, <2>1, <2>2, <2>4 DEF WithIdleFact
  <2>7. SameSave(m, n) /\ (n.eval = m.eval \/ (n.eval = "debounce" /\ m.eval = "none"))
    BY <2>3, <2>5 DEF SameSave
  <2>8. DOMAIN told' = DOMAIN told /\ \A e \in DOMAIN told :
            told'[e] = IF e = i THEN told[e] + 1 ELSE told[e]
    BY <1>5, <1>6
  <2>9. \A e \in DOMAIN told' : told'[e] <= 1 /\ (told'[e] > 0 => told[e] > 0 \/ e = i)
    <3> SUFFICES ASSUME NEW e \in DOMAIN told
                 PROVE  told'[e] <= 1 /\ (told'[e] > 0 => told[e] > 0 \/ e = i)
      BY <2>8
    <3>1. told[e] \in Nat /\ told[e] <= 1
      BY <1>5
    <3>2. CASE e = i
      <4>1. ~(told[e] > 0)
        BY <1>4, <3>2
      <4> QED
        BY <2>8, <3>1, <3>2, <4>1
    <3>3. CASE e # i
      BY <2>8, <3>1, <3>3
    <3> QED
      BY <3>2, <3>3
  <2>10. Covers(m.mem, called, told')
    <3>1. called <= m.mem.calls /\ \A e \in DOMAIN told : told[e] > 0 => e <= m.mem.claim
      BY <1>1 DEF Kept, Covers
    <3>2. \A e \in DOMAIN told' : told'[e] > 0 => e <= m.mem.claim
      BY <1>3, <1>4, <2>8, <2>9, <3>1
    <3> QED
      BY <3>1, <3>2 DEF Covers
  <2>11. Kept(m, db', called, told')
    <3>1. m.eval = "count" => called < m.mem.calls
      BY <1>1 DEF Kept
    <3> QED
      BY <1>1, <2>10, <3>1, KeptMore
  <2>12. Kept(n, db', called', told')
    BY <1>1, <2>7, <2>11, KeptSame
  <2>13. Claimant'
    BY <1>6 DEF Claimant, Tied, Typed, HeartType
  <2> QED
    BY <1>1, <1>6, <2>6, <2>9, <2>10, <2>12, <2>13, StepRecorded
<1>7. CASE /\ rt' = [rt EXCEPT ![r] = [m EXCEPT !.mem.claim = b, !.dirty = TRUE]]
           /\ heart' = [heart EXCEPT !.pc = "rest"] /\ told' = told
  <2>1. PICK n : n = [m EXCEPT !.mem.claim = b, !.dirty = TRUE]
    OBVIOUS
  <2>2. /\ n \in Runtime /\ n.eval = m.eval /\ n.holder = m.holder /\ n.snap = m.snap /\ n.dirty
        /\ n.mem.claim = b /\ n.mem.calls = m.mem.calls /\ n.mem.activity = m.mem.activity
    BY <1>1, <2>1, ClaimedIs
  <2>3. m.mem.calls \in Nat /\ m.mem.activity \in Nat
    BY <1>1 DEF Runtime, State
  <2>4. Grown(m.mem, n.mem)
    BY <2>2, <2>3 DEF Grown
  <2>5. Covers(n.mem, called, told)
    BY <1>1, <1>4, <2>2 DEF Covers, Kept
  <2>6. /\ n.eval = "count" => called < n.mem.calls
        /\ n.mem.calls <= DailyLimit /\ (n.eval = "policy" => n.mem.calls < DailyLimit)
    BY <1>1, <2>2 DEF Kept
  <2>7. Kept(n, db', called', told')
    BY <1>1, <1>7, <2>2, <2>4, <2>5, <2>6, KeptChanged
  <2>8. Claimant'
    BY <1>7 DEF Claimant, Tied, Typed, HeartType
  <2>9. rt' = [rt EXCEPT ![r] = n]
    BY <1>7, <2>1
  <2> QED
    BY <1>1, <1>5, <1>7, <2>2, <2>7, <2>8, <2>9, StepRecorded
<1> QED
  BY <1>2, <1>3, <1>6, <1>7 DEF HeartSaved

LEMMA EvalRecorded ==
    ASSUME Tied, Tied', Recorded, NEW r \in Instances, r = session, NEW m,
           NEW outcome, After(r, m, outcome), EvalSaved(r, m, outcome),
           session' = session, heart' = heart, told' = told
    PROVE  Recorded'
<1>1. /\ m \in Runtime /\ m.mem = rt[r].mem /\ m.holder = Nobody
      /\ Kept(m, db', called, told)
      /\ Covers(db', called, told) /\ db'.calls <= DailyLimit
      /\ (outcome = "saved" => db' = m.mem) /\ db' \in State
  BY DEF After, Tied, Typed
<1>2. ASSUME NEW n \in Runtime, SameSave(m, n), rt' = [rt EXCEPT ![r] = n]
      PROVE  Claimant'
  <2>1. rt'[session].mem.claim = rt[session].mem.claim
    BY <1>1, <1>2 DEF Tied, Typed, SameSave
  <2> QED
    BY <2>1, SameClaimant DEF Recorded
<1>3. CASE /\ m.eval = "count" /\ outcome = "saved" /\ called' = called + 1
           /\ rt' = [rt EXCEPT ![r] = [m EXCEPT !.eval = "provider"]]
  <2>1. PICK n : n = [m EXCEPT !.eval = "provider"]
    OBVIOUS
  <2>2. n \in Runtime /\ SameSave(m, n) /\ n.eval = "provider" /\ rt' = [rt EXCEPT ![r] = n]
    BY <1>1, <1>3, <2>1 DEF Runtime, SameSave
  <2>3. Kept(n, db', called, told)
    BY <1>1, <2>2, KeptSame
  <2>4. Covers(m.mem, called', told)
    <3>1. called < m.mem.calls /\ \A e \in DOMAIN told : told[e] > 0 => e <= m.mem.claim
      BY <1>1, <1>3 DEF Kept, Covers
    <3>2. called \in Nat /\ m.mem.calls \in Nat
      BY <1>1 DEF Tied, Typed, Runtime, State
    <3>3. called' <= m.mem.calls
      BY <1>3, <3>1, <3>2
    <3> QED
      BY <3>1, <3>3 DEF Covers
  <2>5. Covers(n.mem, called', told) /\ n.holder = Nobody /\ n.eval # "count"
    BY <1>1, <2>2, <2>4 DEF SameSave
  <2>6. Kept(n, db', called', told)
    BY <2>2, <2>3, <2>5, KeptMore
  <2>7. Claimant' /\ Covers(db', called', told')
    BY <1>1, <1>2, <1>3, <2>2, <2>4
  <2>8. \A e \in DOMAIN told' : told'[e] <= 1
    BY DEF Recorded
  <2> QED
    BY <1>1, <2>2, <2>6, <2>7, <2>8, StepRecorded
<1>4. CASE called' = called /\ \E ended \in EvalEnds(m) : rt' = [rt EXCEPT ![r] = ended]
  <2>1. PICK n \in EvalEnds(m) : rt' = [rt EXCEPT ![r] = n]
    BY <1>4
  <2>2. n \in Runtime /\ SameSave(m, n) /\ n.eval \in {"none", "debounce"}
    BY <1>1, EvalEndsIs
  <2>3. Kept(n, db', called', told') /\ Claimant'
    BY <1>1, <1>2, <1>4, <2>1, <2>2, KeptSame
  <2>4. \A e \in DOMAIN told' : told'[e] <= 1
    BY DEF Recorded
  <2> QED
    BY <1>1, <1>4, <2>1, <2>2, <2>3, <2>4, StepRecorded
<1> QED
  BY <1>3, <1>4 DEF EvalSaved

LEMMA ResumeRecorded ==
    ASSUME Tied, Tied', Recorded, Undisturbed, Undisturbed', NEW r \in Instances,
           NEW p \in Persisters, InPersist(rt[r], p), r = session,
           NEW m, NEW outcome \in {"saved", "failed"}, After(r, m, outcome),
           Resume(r, p, m, outcome),
           p \in Turns /\ session' # session => used'["evictions"] > 0
    PROVE  Recorded'
<1>1. /\ m \in Runtime /\ m.mem = rt[r].mem /\ Kept(m, db', called, told)
      /\ Covers(db', called, told) /\ db'.calls <= DailyLimit
  BY DEF After
<1>2. CASE p \in Turns /\ SettleTurn(p, r, m) /\ UNCHANGED <<heart, life, told, called>>
  BY <1>1, <1>2, SettleRecorded
<1>3. CASE p = Heart /\ HeartSaved(r, m, outcome) /\ UNCHANGED <<session, turn, life, called>>
  <2>1. heart.pc = "persist"
    BY <1>3 DEF Tied, SaversKnown, SaversOf
  <2> QED
    BY <1>3, <2>1, HeartRecorded
<1>4. CASE p = Eval /\ EvalSaved(r, m, outcome) /\ UNCHANGED <<session, turn, heart, life, told>>
  BY <1>4, EvalRecorded
<1>5. CASE p = Closer
  BY <1>5, CalmIs
<1> QED
  BY <1>2, <1>3, <1>4, <1>5 DEF Resume

LEMMA SnapCovers ==
    ASSUME NEW m \in Runtime, NEW d, NEW c, NEW h, Kept(m, d, c, h), m.holder # Nobody
    PROVE  m.snap \in State /\ Covers(m.snap, c, h) /\ m.snap.calls <= DailyLimit
<1>1. /\ m.snap \in State /\ m.snap.calls \in Nat /\ m.mem.calls \in Nat /\ DailyLimit \in Nat
  BY BoundsAssumption DEF Runtime, State
<1>2. m.snap.calls <= m.mem.calls /\ m.mem.calls <= DailyLimit
  BY DEF Kept, Grown
<1> QED
  BY <1>1, <1>2 DEF Kept

LEMMA SavingRecorded ==
    ASSUME Tied, Tied', Recorded, Undisturbed, Undisturbed', NEW r \in Instances,
           NEW p \in Persisters, Saving(r, p)
    PROVE  Recorded'
<1>0. InPersist(rt[r], p)
  BY DEF Saving, SaveDone, SaveFails, SaveCancelled, TakeSaveLock, InPersist
<1>1. PICK m0 \in Runtime : m0 = rt[r]
  BY TypedFields DEF Tied
<1>2. /\ r = session /\ Kept(m0, db, called, told) /\ ~Quiet(m0)
  BY <1>0, <1>1, SaversWork, AtWork
<1>3. /\ Covers(db, called, told) /\ db.calls <= DailyLimit /\ db \in State
      /\ \A e \in DOMAIN told : told[e] <= 1
      /\ Nobody # p
  BY NobodyIs DEF Tied, Typed, Recorded
<1>4. PICK l \in Runtime : l = Leave(m0, p)
  BY LeaveIs
<1>5. /\ l.mem = m0.mem /\ l.dirty = m0.dirty /\ l.eval = m0.eval
      /\ l.holder = IF m0.holder = p THEN Nobody ELSE m0.holder
  BY <1>4, LeaveIs
<1>6. ASSUME used' = [used EXCEPT !["evictions"] =
                        IF p \in Turns /\ session' # session THEN @ + 1 ELSE @]
      PROVE  p \in Turns /\ session' # session => used'["evictions"] > 0
  BY <1>6, SettleGrows DEF Tied
<1>7. ASSUME rt' = [rt EXCEPT ![r] = Grab(@, p)], session' = session, heart' = heart,
             told' = told, called' = called, Kept(Grab(m0, p), db', called, told),
             Covers(db', called, told), db'.calls <= DailyLimit
      PROVE  Recorded'
  <2>1. PICK n \in Runtime : n = Grab(m0, p)
    BY GrabIs
  <2>2. n.mem = m0.mem /\ rt' = [rt EXCEPT ![r] = n] /\ rt'[r] = n
    BY <1>1, <1>7, <2>1, GrabIs DEF Tied, Typed
  <2>3. Claimant'
    BY <1>1, <1>2, <1>7, <2>2, SameClaimant DEF Recorded
  <2> QED
    BY <1>2, <1>3, <1>7, <2>1, <2>2, <2>3, StepRecorded, SMTT(20), ZenonT(30)
<1>8. CASE SaveDone(r, p)
  <2>1. m0.holder = p /\ db' = m0.snap
    BY <1>1, <1>8 DEF SaveDone
  <2>2. Covers(db', called, told) /\ db'.calls <= DailyLimit
    BY <1>2, <1>3, <2>1, SnapCovers
  <2>3. CASE /\ rt' = [rt EXCEPT ![r] = Grab(@, p)]
             /\ UNCHANGED <<session, turn, heart, life, told, called, used>>
    <3>1. Kept(Grab(m0, p), db', called, told)
      BY <1>2, <1>3, <2>1, KeptAgain
    <3> QED
      BY <1>7, <2>2, <2>3, <3>1
  <2>4. CASE /\ ~rt[r].dirty /\ Resume(r, p, Leave(rt[r], p), "saved")
             /\ used' = [used EXCEPT !.evictions =
                           IF p \in Turns /\ session' # session THEN @ + 1 ELSE @]
    <3>1. Kept(l, db', called, told) /\ db' = l.mem /\ l.holder = Nobody
      BY <1>1, <1>2, <1>3, <1>4, <1>5, <2>1, <2>4, KeptSaved
    <3>2. After(r, l, "saved")
      BY <1>1, <1>5, <2>2, <3>1 DEF After
    <3> QED
      BY <1>0, <1>1, <1>2, <1>4, <1>6, <2>4, <3>2, ResumeRecorded
  <2> QED
    BY <1>8, <2>3, <2>4 DEF SaveDone
<1>9. CASE SaveFails(r, p)
  <2>1. /\ m0.holder = p /\ db' = db
        /\ Resume(r, p, [Leave(m0, p) EXCEPT !.dirty = TRUE], "failed") /\ Spend("failures")
    BY <1>1, <1>9 DEF SaveFails
  <2>2. PICK n : n = [Leave(m0, p) EXCEPT !.dirty = TRUE]
    OBVIOUS
  <2>3. n \in Runtime /\ Kept(n, db, called, told)
    BY <1>2, <1>3, <2>1, <2>2, KeptFailed
  <2>4. n.mem = m0.mem /\ n.holder = Nobody
    BY <1>4, <1>5, <2>1, <2>2 DEF Runtime
  <2>5. After(r, n, "failed")
    BY <1>1, <1>3, <2>1, <2>3, <2>4 DEF After
  <2>6. p \in Turns /\ session' # session => used'["evictions"] > 0
    <3>1. SUFFICES ASSUME p \in Turns
                   PROVE  session' = session
      OBVIOUS
    <3>2. SettleTurn(p, r, n)
      BY <2>1, <2>2, <3>1, NobodyIs DEF Resume
    <3>3. PICK s \in Runtime : s = Settled(n, p)
      BY <2>3, <3>1, SettledIs
    <3>4. s.dirty = n.dirty
      BY <2>3, <3>1, <3>3, SettledIs DEF SameSave
    <3>5. n.dirty
      BY <1>4, <2>2 DEF Runtime
    <3>6. rt'[session] = s /\ session' \in Swept(session, rt'[session])
      BY <1>2, <3>2, <3>3 DEF SettleTurn, Tied, Typed
    <3> QED
      BY <3>4, <3>5, <3>6, SweptIs DEF Idle
  <2> QED
    BY <1>0, <1>2, <2>1, <2>2, <2>5, <2>6, ResumeRecorded
<1>10. CASE SaveCancelled(r, p)
  <2>1. used' = [used EXCEPT !["cancels"] = @ + 1] /\ "cancels" \in Bounds
    BY <1>10 DEF SaveCancelled, Spend, Bounds
  <2>2. used'["cancels"] # 0
    BY <2>1 DEF Tied, Typed, UsedType
  <2> QED
    BY <2>2 DEF Undisturbed
<1>11. CASE TakeSaveLock(r, p)
  <2>1. m0.holder = Nobody /\ db' = db
    BY <1>1, <1>11 DEF TakeSaveLock
  <2>3. CASE /\ rt' = [rt EXCEPT ![r] = Grab(@, p)]
             /\ UNCHANGED <<session, turn, heart, life, told, called, used>>
    <3>1. Kept(Grab(m0, p), db', called, told)
      BY <1>2, <1>3, <2>1, KeptFirst
    <3> QED
      BY <1>3, <1>7, <2>1, <2>3, <3>1
  <2>4. CASE /\ ~rt[r].dirty /\ Resume(r, p, Leave(rt[r], p), "saved")
             /\ used' = [used EXCEPT !.evictions =
                           IF p \in Turns /\ session' # session THEN @ + 1 ELSE @]
    <3>1. Kept(l, db, called, told)
      BY <1>2, <1>3, <1>4, <2>1, KeptSkipped
    <3>2. l.mem = db /\ l.holder = Nobody
      BY <1>1, <1>2, <1>3, <1>5, <2>1, <2>4 DEF Kept
    <3>3. After(r, l, "saved")
      BY <1>1, <1>3, <1>5, <2>1, <3>1, <3>2 DEF After
    <3> QED
      BY <1>0, <1>1, <1>2, <1>4, <1>6, <2>4, <3>3, ResumeRecorded
  <2> QED
    BY <1>11, <2>3, <2>4 DEF TakeSaveLock
<1> QED
  BY <1>8, <1>9, <1>10, <1>11 DEF Saving

-----------------------------------------------------------------------------
(* The evaluation, and what is left.                                       *)
LEMMA EvaluationRecorded ==
    ASSUME Tied, Tied', Recorded, Undisturbed, NEW r \in Instances, Evaluation(r)
    PROVE  Recorded'
<1>1. PICK m0 \in Runtime : m0 = rt[r]
  BY TypedFields DEF Tied
<1>2. /\ Covers(db, called, told) /\ db.calls <= DailyLimit /\ db \in State
      /\ \A e \in DOMAIN told : told[e] <= 1
  BY DEF Tied, Typed, Recorded
<1>3. ASSUME NEW n \in Runtime, EvalStep(r, n), r = session,
             Kept(n, db, called, told), n.mem.claim = m0.mem.claim
      PROVE  Recorded'
  <2>1. /\ rt' = [rt EXCEPT ![r] = n] /\ rt'[r] = n
        /\ UNCHANGED <<db, session, heart, told, called>>
    BY <1>3 DEF EvalStep, Tied, Typed
  <2>2. Claimant'
    BY <1>1, <1>3, <2>1, SameClaimant DEF Recorded
  <2> QED
    BY <1>2, <1>3, <2>1, <2>2, StepRecorded
<1>4. ASSUME NEW n \in Runtime, EvalStep(r, n), SameSave(rt[r], n), n.eval # "count",
             n.eval = "policy" => rt[r].mem.calls < DailyLimit,
             r = session \/ rt[r].eval # "none"
      PROVE  Recorded'
  <2>1. r = session /\ Kept(m0, db, called, told)
    BY <1>1, <1>4, TypedFields DEF Tied, Recorded, Quiet
  <2>2. Kept(n, db, called, told) /\ n.mem.claim = m0.mem.claim
    BY <1>1, <1>4, <2>1, KeptSame DEF SameSave
  <2> QED
    BY <1>3, <1>4, <2>1, <2>2
<1>5. ASSUME NEW k \in Runtime, EvalStep(r, Persist(k, Eval)), k.dirty,
             k.holder = rt[r].holder, k.snap = rt[r].snap,
             \/ /\ rt[r].eval = "policy" /\ k.eval = "count"
                /\ k.mem = [rt[r].mem EXCEPT !.calls = @ + 1]
             \/ rt[r].eval = "provider" /\ k.eval = "defer" /\ k.mem = rt[r].mem
      PROVE  Recorded'
  <2>1. r = session /\ Kept(m0, db, called, told)
    BY <1>1, <1>5, TypedFields DEF Tied, Recorded, Quiet
  <2>2. /\ called \in Nat /\ m0.mem \in State /\ m0.mem.calls \in Nat /\ DailyLimit \in Nat
        /\ called <= m0.mem.calls /\ m0.mem.calls <= DailyLimit
        /\ m0.eval = "policy" => m0.mem.calls < DailyLimit
        /\ Covers(m0.mem, called, told) /\ Grown(m0.mem, m0.mem)
    BY <2>1, BoundsAssumption, GrownOrder DEF Kept, Covers, Runtime, State, Tied, Typed
  <2>3. Kept(k, db, called, told) /\ k.mem.claim = m0.mem.claim
    <3>1. CASE /\ m0.eval = "policy" /\ k.eval = "count"
               /\ k.mem = [m0.mem EXCEPT !.calls = @ + 1]
      <4>1. /\ k.mem.calls = m0.mem.calls + 1 /\ k.mem.claim = m0.mem.claim
            /\ k.mem.activity = m0.mem.activity
        BY <2>2, <3>1, CountedIs
      <4>2. called < k.mem.calls /\ called <= k.mem.calls /\ k.mem.calls <= DailyLimit
        BY <2>2, <3>1, <4>1
      <4>3. m0.mem.activity \in Nat
        BY <2>2 DEF State
      <4>4. Grown(m0.mem, k.mem)
        BY <2>2, <4>1, <4>3 DEF Grown
      <4>5. Covers(k.mem, called, told)
        BY <2>2, <4>1, <4>2 DEF Covers
      <4> QED
        BY <1>1, <1>2, <1>5, <2>1, <3>1, <4>1, <4>2, <4>4, <4>5, KeptChanged
    <3>2. CASE m0.eval = "provider" /\ k.eval = "defer" /\ k.mem = m0.mem
      BY <1>1, <1>2, <1>5, <2>1, <2>2, <3>2, KeptChanged
    <3> QED
      BY <1>1, <1>5, <3>1, <3>2
  <2>4. PICK n \in Runtime : n = Persist(k, Eval)
    BY PersistIs, NobodyIs
  <2>5. n.mem = k.mem /\ Kept(n, db, called, told)
    BY <1>2, <2>3, <2>4, PersistIs, KeptPersist, NobodyIs
  <2> QED
    BY <1>3, <1>5, <2>1, <2>3, <2>4, <2>5
<1> QED
  BY <1>4, <1>5, EvaluationIs

LEMMA RestartRecorded ==
    ASSUME Tied, Tied', Recorded, Restart
    PROVE  Recorded'
<1>1. /\ db' \in {db} \cup {rt[r].snap : r \in {i \in Instances : rt[i].holder # Nobody}}
      /\ rt' = [r \in Instances |-> Fresh(Empty)] /\ session' = 0
      /\ heart' = [pc |-> "rest", rt |-> 0, epoch |-> 0, before |-> 0]
      /\ told' = told /\ called' = called
  BY DEF Restart
<1>2. \A r \in Instances : Quiet(rt'[r])
  BY <1>1, FreshIs DEF Quiet, Empty, State
<1>3. Covers(db', called, told) /\ db'.calls <= DailyLimit
  <2>1. CASE db' = db
    BY <2>1 DEF Recorded
  <2>2. CASE \E r \in Instances : rt[r].holder # Nobody /\ db' = rt[r].snap
    <3>1. PICK r \in Instances : rt[r].holder # Nobody /\ db' = rt[r].snap
      BY <2>2
    <3>2. rt[r] \in Runtime /\ Kept(rt[r], db, called, told)
      BY <3>1, AtWork DEF Quiet
    <3> QED
      BY <3>1, <3>2, SnapCovers
  <2> QED
    BY <1>1, <2>1, <2>2
<1>4. Claimant'
  BY <1>1 DEF Claimant
<1> QED
  BY <1>1, <1>2, <1>3, <1>4 DEF Recorded

LEMMA InitRecorded ==
    ASSUME Init
    PROVE  Recorded
<1>1. /\ db = Empty /\ session = 0 /\ called = 0 /\ heart.pc = "rest"
      /\ \A r \in Instances : rt[r] = Fresh(Empty)
      /\ told = [e \in 1..Cardinality(Turns) |-> 0]
  BY DEF Init
<1>2. \A r \in Instances : Quiet(rt[r])
  BY <1>1, FreshIs DEF Quiet, Empty, State
<1>3. Covers(db, called, told) /\ db.calls <= DailyLimit
  BY <1>1, BoundsAssumption DEF Covers, Empty
<1> QED
  BY <1>1, <1>2, <1>3 DEF Recorded, Claimant

(* What was undisturbed after a step was so before it.                     *)
LEMMA CalmSteps ==
    ASSUME Tied, Next, Undisturbed'
    PROVE  Undisturbed
<1> SUFFICES CountsGrow
  BY CalmBefore
<1>0. Typed
  BY DEF Tied
<1>1. {"loads", "cancels", "failures", "shutdowns", "restarts", "evictions", "facts", "beats"}
        \subseteq Bounds
  BY DEF Bounds
<1>2. ASSUME NEW t \in Turns, Turn(t)
      PROVE  CountsGrow
  BY <1>0, <1>2, SpendGrows, EvictingGrows DEF Turn, Arrive, Bind, Admit, Abandon, Release
<1>3. ASSUME NEW c \in Creators, TakeCreationLock(c) \/ Load(c)
      PROVE  CountsGrow
  BY <1>0, <1>1, <1>3, SpendGrows DEF TakeCreationLock, Load, Spend
<1>4. CASE Beat
  <2>1. PICK w \in BOOLEAN : w = (session' # session)
    OBVIOUS
  <2>2. used' = [used EXCEPT !["beats"] = @ + 1, !["evictions"] = IF w THEN @ + 1 ELSE @]
    BY <1>4, <2>1 DEF Beat
  <2> QED
    BY <1>0, <1>1, <2>2, SweepGrows
<1>5. CASE Observe
  <2>1. PICK w \in BOOLEAN : w = (session' # session)
    OBVIOUS
  <2>2. used' = [used EXCEPT !["facts"] = @ + 1, !["evictions"] = IF w THEN @ + 1 ELSE @]
    BY <1>5, <2>1 DEF Observe
  <2> QED
    BY <1>0, <1>1, <2>2, SweepGrows
<1>6. CASE OtherSession \/ Shutdown \/ Restart
  BY <1>0, <1>1, <1>6, SpendGrows DEF OtherSession, Shutdown, Restart, Spend
<1>7. CASE StopHeart \/ CloseRuntime
  BY <1>0, <1>7, SpendGrows DEF StopHeart, CloseRuntime
<1>8. ASSUME NEW r \in Instances, Evaluation(r) \/ EvalStops(r)
      PROVE  CountsGrow
  BY <1>0, <1>8, SpendGrows
     DEF Evaluation, Drain, Policy, Decide, Wake, EvalStops, EvalStep
<1>9. ASSUME NEW r \in Instances, NEW p \in Persisters, Saving(r, p)
      PROVE  CountsGrow
  <2>1. PICK w \in BOOLEAN : w = (p \in Turns /\ session' # session)
    OBVIOUS
  <2>2. CASE used' = [used EXCEPT !["evictions"] = IF w THEN @ + 1 ELSE @]
    BY <1>0, <2>2, SettleGrows
  <2>3. CASE UNCHANGED used \/ Spend("failures") \/ Spend("cancels")
    BY <1>0, <1>1, <2>3, SpendGrows DEF Spend
  <2> QED
    BY <1>9, <2>1, <2>2, <2>3 DEF Saving, SaveDone, SaveFails, SaveCancelled, TakeSaveLock
<1> QED
  BY <1>2, <1>3, <1>4, <1>5, <1>6, <1>7, <1>8, <1>9 DEF Next

LEMMA NextRecorded ==
    ASSUME Tied, Tied', Recorded, Undisturbed, Undisturbed', Next
    PROVE  Recorded'
<1>0. Typed
  BY DEF Tied
<1>1. ASSUME NEW t \in Turns, Turn(t)
      PROVE  Recorded'
  <2>1. CASE Arrive(t)
    BY <2>1, RestRecorded DEF Arrive
  <2>2. CASE Bind(t)
    BY <1>0, <2>2, EvictingGrows, SeekRecorded, NobodyIs DEF Bind
  <2>3. CASE Admit(t)
    BY <2>3, AdmitRecorded
  <2>4. CASE Abandon(t)
    <3>1. /\ UNCHANGED <<db, heart, told, called>>
          /\ session' # session => used'["evictions"] > 0
      BY <1>0, <2>4, EvictingGrows DEF Abandon
    <3>2. CASE turn[t].pc = "bound" /\ SettleTurn(t, turn[t].rt, rt[turn[t].rt])
      <4>1. PICK r \in Instances : r = turn[t].rt /\ r = session
        BY <3>2, TurnPlace, CalmIs
      <4>2. PICK m \in Runtime : m = rt[r]
        BY <1>0, TypedFields
      <4>3. /\ Kept(m, db', called, told) /\ Covers(db', called, told)
            /\ db'.calls <= DailyLimit
        BY <3>1, <4>1, <4>2, TypedFields DEF Tied, Recorded
      <4> QED
        BY <3>1, <3>2, <4>1, <4>2, <4>3, SettleRecorded
    <3>3. CASE UNCHANGED <<rt, session>>
      BY <3>1, <3>3, RestRecorded
    <3> QED
      BY <2>4, <3>2, <3>3 DEF Abandon
  <2>5. CASE Release(t)
    BY <2>5, ReleaseRecorded
  <2> QED
    BY <1>1, <2>1, <2>2, <2>3, <2>4, <2>5 DEF Turn
<1>2. ASSUME NEW c \in Creators, TakeCreationLock(c) \/ Load(c)
      PROVE  Recorded'
  BY <1>2, TakeRecorded, LoadRecorded
<1>3. CASE Beat
  <2>1. PICK w \in BOOLEAN : w = (session' # session)
    OBVIOUS
  <2>2. used' = [used EXCEPT !["beats"] = @ + 1, !["evictions"] = IF w THEN @ + 1 ELSE @]
    BY <1>3, <2>1 DEF Beat
  <2>3. session' # session => used'["evictions"] > 0
    BY <1>0, <2>1, <2>2, SweepGrows DEF Bounds
  <2> QED
    BY <1>3, <2>3, SeekRecorded, NobodyIs DEF Beat
<1>4. CASE Observe
  <2>1. PICK w \in BOOLEAN : w = (session' # session)
    OBVIOUS
  <2>2. used' = [used EXCEPT !["facts"] = @ + 1, !["evictions"] = IF w THEN @ + 1 ELSE @]
    BY <1>4, <2>1 DEF Observe
  <2>3. session' # session => used'["evictions"] > 0
    BY <1>0, <2>1, <2>2, SweepGrows DEF Bounds
  <2> QED
    BY <1>4, <2>3, SeekRecorded, NobodyIs DEF Observe
<1>5. CASE OtherSession
  <2>1. /\ session # 0 /\ 0 \in Swept(session, rt[session]) /\ session' = 0
        /\ used' = [used EXCEPT !["evictions"] = @ + 1]
        /\ UNCHANGED <<db, rt, heart, told, called>>
    BY <1>5 DEF OtherSession, Spend
  <2>2. used'["evictions"] > 0
    BY <1>0, <2>1 DEF Typed, UsedType
  <2>3. Idle(rt[session])
    BY <2>1, SweptIs
  <2> QED
    BY <2>1, <2>2, <2>3, RestRecorded
<1>6. ASSUME NEW r \in Instances, Evaluation(r)
      PROVE  Recorded'
  BY <1>6, EvaluationRecorded
<1>7. ASSUME NEW r \in Instances, EvalStops(r)
      PROVE  FALSE
  BY <1>7, CalmIs DEF EvalStops
<1>8. ASSUME NEW r \in Instances, NEW p \in Persisters, Saving(r, p)
      PROVE  Recorded'
  BY <1>8, SavingRecorded
<1>9. CASE StopHeart
  <2>1. heart'.pc # "persist" /\ UNCHANGED <<db, session, rt, told, called>>
    BY <1>0, <1>9 DEF StopHeart, Typed, HeartType
  <2> QED
    BY <2>1, RestRecorded
<1>10. CASE Shutdown
  <2>1. used' = [used EXCEPT !["shutdowns"] = @ + 1]
    BY <1>10 DEF Shutdown, Spend
  <2>2. used'["shutdowns"] # 0
    BY <1>0, <2>1 DEF Typed, UsedType
  <2> QED
    BY <2>2 DEF Undisturbed
<1>11. CASE CloseRuntime
  BY <1>11, CalmIs DEF CloseRuntime
<1>12. CASE Restart
  BY <1>12, RestartRecorded
<1> QED
  BY <1>1, <1>2, <1>3, <1>4, <1>5, <1>6, <1>7, <1>8, <1>9, <1>10, <1>11, <1>12 DEF Next

LEMMA StepRecordedInv == RecordedInv /\ [Next]_vars => RecordedInv'
<1> SUFFICES ASSUME RecordedInv, [Next]_vars
             PROVE  RecordedInv'
  OBVIOUS
<1>1. Tied /\ Tied'
  BY NextTied DEF RecordedInv
<1>2. CASE Next
  BY <1>1, <1>2, CalmSteps, NextRecorded DEF RecordedInv
<1>3. CASE UNCHANGED vars
  <2>1. Undisturbed' => Undisturbed
    BY <1>3 DEF vars, Undisturbed
  <2>2. Recorded => Recorded'
    BY <1>3 DEF vars, Recorded, Claimant
  <2> QED
    BY <1>1, <2>1, <2>2 DEF RecordedInv
<1> QED
  BY <1>2, <1>3

LEMMA SpecRecorded == Spec => []RecordedInv
<1>1. Init => RecordedInv
  BY InitTied, InitRecorded DEF RecordedInv
<1> QED
  BY <1>1, StepRecordedInv, PTL DEF Spec

(* Saved means saved: unless a fault of Undisturbed came, a clear flag     *)
(* with no save under way means that the record is the state               *)
(* (_persist_state).                                                       *)
THEOREM CleanStateIsStored == Spec => []CleanIsDurable
<1>1. RecordedInv => CleanIsDurable
  BY DEF RecordedInv, Recorded, Kept, CleanIsDurable
<1> QED
  BY <1>1, SpecRecorded, PTL

(* Every policy call is counted in the record before it is made, under the *)
(* same proviso (_evaluate_personal_policy).                               *)
THEOREM CallsStayCounted == Spec => []CallsAreCounted
<1>1. RecordedInv => CallsAreCounted
  BY DEF RecordedInv, Recorded, Covers, CallsAreCounted, EveryCallCounted
<1> QED
  BY <1>1, SpecRecorded, PTL

(* No more policy calls are made than the day's limit, restarts included,  *)
(* under the same proviso (daily_policy_call_limit).                       *)
THEOREM LimitIsKept == Spec => []CallsWithinLimit
<1>1. ASSUME RecordedInv
      PROVE  CallsWithinLimit
  <2>1. called \in Nat /\ db.calls \in Nat /\ DailyLimit \in Nat
    BY <1>1, BoundsAssumption DEF RecordedInv, Tied, Typed, State
  <2>2. Undisturbed => called <= db.calls /\ db.calls <= DailyLimit
    BY <1>1 DEF RecordedInv, Recorded, Covers
  <2> QED
    BY <2>1, <2>2 DEF CallsWithinLimit
<1> QED
  BY <1>1, SpecRecorded, PTL

(* The idle initiation of an epoch goes out once, restarts included, under *)
(* the same proviso (submit_idle).                                         *)
THEOREM EpochsAreToldOnce == Spec => []OncePerEpoch
<1>1. RecordedInv => OncePerEpoch
  BY DEF RecordedInv, Recorded, OncePerEpoch
<1> QED
  BY <1>1, SpecRecorded, PTL

(* The record changes to what a save had taken, and only so.               *)
LEMMA RecordChanges ==
    ASSUME Tied, [Next]_vars
    PROVE  db' = db \/ \E r \in Instances : rt[r].holder # Nobody /\ db' = rt[r].snap
<1>1. ASSUME NEW t \in Turns, Turn(t)
      PROVE  db' = db
  BY <1>1 DEF Turn, Arrive, Bind, Admit, Abandon, Release
<1>2. ASSUME NEW r \in Instances, Evaluation(r) \/ EvalStops(r)
      PROVE  db' = db
  BY <1>2 DEF Evaluation, Drain, Policy, Decide, Wake, EvalStops, EvalStep
<1>3. ASSUME NEW r \in Instances, NEW p \in Persisters, Saving(r, p)
      PROVE  db' = db \/ (rt[r].holder # Nobody /\ db' = rt[r].snap)
  BY <1>3, NobodyIs DEF Saving, SaveDone, SaveFails, SaveCancelled, TakeSaveLock
<1>4. ASSUME NEW c \in Creators, TakeCreationLock(c) \/ Load(c)
      PROVE  db' = db
  BY <1>4 DEF TakeCreationLock, Load
<1>5. CASE Restart
  BY <1>5 DEF Restart
<1>6. CASE Beat \/ Observe \/ OtherSession \/ StopHeart \/ Shutdown \/ CloseRuntime
  BY <1>6 DEF Beat, Observe, OtherSession, StopHeart, Shutdown, CloseRuntime
<1>7. CASE UNCHANGED vars
  BY <1>7 DEF vars
<1> QED
  BY <1>1, <1>2, <1>3, <1>4, <1>5, <1>6, <1>7 DEF Next

(* A later save never takes back user activity or counted calls, under the *)
(* same proviso (_persist_state).                                          *)
THEOREM RecordOnlyGrows == Spec => RecordGrows
<1>1. ASSUME RecordedInv, [Next]_vars
      PROVE  Undisturbed => db'.activity >= db.activity /\ db'.calls >= db.calls
  <2> SUFFICES ASSUME Undisturbed
               PROVE  db'.activity >= db.activity /\ db'.calls >= db.calls
    OBVIOUS
  <2>1. Tied /\ Tied' /\ Recorded /\ db \in State /\ db' \in State
    BY <1>1, NextTied DEF RecordedInv, Tied, Typed
  <2>2. CASE db' = db
    BY <2>1, <2>2 DEF State
  <2>3. CASE \E r \in Instances : rt[r].holder # Nobody /\ db' = rt[r].snap
    <3>1. PICK r \in Instances : rt[r].holder # Nobody /\ db' = rt[r].snap
      BY <2>3
    <3>2. Kept(rt[r], db, called, told)
      BY <2>1, <3>1, AtWork DEF Quiet
    <3>3. Grown(db, db')
      BY <3>1, <3>2 DEF Kept
    <3>4. /\ db.activity \in Nat /\ db'.activity \in Nat /\ db.calls \in Nat /\ db'.calls \in Nat
      BY <2>1 DEF State
    <3> QED
      BY <3>3, <3>4 DEF Grown
  <2> QED
    BY <1>1, <2>1, <2>2, <2>3, RecordChanges
<1> QED
  BY <1>1, SpecRecorded, PTL DEF Spec, RecordGrows

(* The idle fact is submitted only by the heartbeat whose claim the record *)
(* holds.                                                                  *)
LEMMA ToldBySave ==
    ASSUME Tied, [Next]_vars
    PROVE  \/ told' = told
           \/ \E r \in Instances :
                 /\ SaveDone(r, Heart) \/ TakeSaveLock(r, Heart)
                 /\ ~rt[r].dirty /\ HeartSaved(r, Leave(rt[r], Heart), "saved")
<1>1. ASSUME NEW t \in Turns, Turn(t)
      PROVE  told' = told
  <2>1. CASE Bind(t)
    BY <2>1, NobodyIs
       DEF Bind, SeekRuntime, LookUp, Obtained, BindTurn, IdleCheck, Sense, Creating
  <2>2. CASE ~Bind(t)
    BY <1>1, <2>2 DEF Turn, Arrive, Admit, Abandon, Release
  <2> QED
    BY <2>1, <2>2
<1>2. ASSUME NEW r \in Instances, Evaluation(r) \/ EvalStops(r)
      PROVE  told' = told
  BY <1>2 DEF Evaluation, Drain, Policy, Decide, Wake, EvalStops, EvalStep
<1>3. ASSUME NEW r \in Instances, NEW p \in Persisters, Saving(r, p)
      PROVE  \/ told' = told
             \/ /\ SaveDone(r, Heart) \/ TakeSaveLock(r, Heart)
                /\ ~rt[r].dirty /\ HeartSaved(r, Leave(rt[r], Heart), "saved")
  <2>1. ASSUME NEW m, NEW outcome, Resume(r, p, m, outcome)
        PROVE  told' = told \/ (p = Heart /\ HeartSaved(r, m, outcome) /\ outcome = "saved")
    BY <2>1 DEF Resume, HeartSaved
  <2>2. CASE SaveDone(r, p)
    BY <2>1, <2>2 DEF SaveDone
  <2>3. CASE TakeSaveLock(r, p)
    BY <2>1, <2>3 DEF TakeSaveLock
  <2>4. CASE SaveFails(r, p)
    BY <2>1, <2>4 DEF SaveFails
  <2>5. CASE SaveCancelled(r, p)
    BY <2>1, <2>5 DEF SaveCancelled
  <2> QED
    BY <1>3, <2>2, <2>3, <2>4, <2>5 DEF Saving
<1>4. ASSUME NEW c \in Creators, TakeCreationLock(c) \/ Load(c)
      PROVE  told' = told
  BY <1>4, NobodyIs
     DEF TakeCreationLock, Load, LookUp, Obtained, BindTurn, IdleCheck, Sense, Creating
<1>5. CASE Beat \/ Observe
  BY <1>5, NobodyIs
     DEF Beat, Observe, SeekRuntime, LookUp, Obtained, BindTurn, IdleCheck, Sense, Creating
<1>6. CASE OtherSession \/ StopHeart \/ Shutdown \/ CloseRuntime \/ Restart
  BY <1>6 DEF OtherSession, StopHeart, Shutdown, CloseRuntime, CloserSaved, Restart
<1>7. CASE UNCHANGED vars
  BY <1>7 DEF vars
<1> QED
  BY <1>1, <1>2, <1>3, <1>4, <1>5, <1>6, <1>7 DEF Next

(* An idle initiation goes out only when the record holds its claim, under *)
(* the same proviso (submit_idle).                                         *)
THEOREM ClaimIsStoredFirst == Spec => ClaimBeforeFact
<1>1. ASSUME RecordedInv, [Next]_vars
      PROVE  Undisturbed => \A e \in DOMAIN told : told'[e] # told[e] => db'.claim >= e
  <2> SUFFICES ASSUME Undisturbed, NEW e \in DOMAIN told, told'[e] # told[e]
               PROVE  db'.claim >= e
    OBVIOUS
  <2>0. Tied /\ Recorded
    BY <1>1 DEF RecordedInv
  <2>1. PICK r \in Instances :
           /\ SaveDone(r, Heart) \/ TakeSaveLock(r, Heart)
           /\ ~rt[r].dirty /\ HeartSaved(r, Leave(rt[r], Heart), "saved")
    BY <1>1, <2>0, ToldBySave
  <2>2. InPersist(rt[r], Heart) /\ Heart \in Persisters /\ Heart # Nobody
    BY <2>1, NobodyIs DEF SaveDone, TakeSaveLock, InPersist
  <2>3. /\ r = session /\ session # 0 /\ rt[r] \in Runtime
        /\ Kept(rt[r], db, called, told) /\ heart.pc = "persist"
    BY <2>0, <2>2, SaversWork, AtWork DEF Tied, SaversKnown, SaversOf
  <2>4. db' = rt[r].mem
    <3>1. CASE SaveDone(r, Heart)
      BY <2>1, <2>2, <2>3, <3>1 DEF SaveDone, Kept
    <3>2. CASE TakeSaveLock(r, Heart)
      BY <2>1, <2>3, <3>2 DEF TakeSaveLock, Kept
    <3> QED
      BY <2>1, <3>1, <3>2
  <2>5. told' = [told EXCEPT ![heart.epoch] = @ + 1]
    BY <2>1 DEF HeartSaved
  <2>6. e = heart.epoch /\ heart.epoch \in Nat
    BY <2>0, <2>5 DEF Tied, Typed, HeartType
  <2>7. rt[r].mem.claim = heart.epoch
    BY <2>0, <2>3 DEF Recorded, Claimant
  <2> QED
    BY <2>4, <2>6, <2>7
<1> QED
  BY <1>1, SpecRecorded, PTL DEF Spec, ClaimBeforeFact

-----------------------------------------------------------------------------
(* The shape of the variables that decide who looks at the inbox next.     *)
Shape ==
    /\ eval.pc \in Pcs /\ eval = [pc |-> eval.pc, batch |-> eval.batch]
    /\ again \in BOOLEAN /\ wake \in BOOLEAN
    /\ bound \in Nat
    /\ eval.pc = "acting" => bound > 0     \* the action's own turn is bound

(* While the task decides or delivers a batch, whatever is pending arrived *)
(* after the drain, and its arrival asked the task to run again.           *)
Requested ==
    inbox # <<>> /\ eval.pc \in {"policy", "dispatch", "acting", "acted"} => again

IInv == Shape /\ Requested /\ NothingStranded

-----------------------------------------------------------------------------
(* Asking for an evaluation always leaves a task behind, and a live one    *)
(* with the request noted.                                                 *)
LEMMA EnsureTaskLooks ==
    ASSUME Shape, EnsureTask
    PROVE  /\ eval'.pc \in Pcs /\ again' \in BOOLEAN
           /\ eval' = [pc |-> eval'.pc, batch |-> eval'.batch]
           /\ eval'.pc # "none" /\ (eval'.pc = "acting" => eval.pc = "acting")
           /\ eval'.pc = "debounce" \/ again'
BY DEF Shape, EnsureTask, Alive, Debouncing, Pcs

(* However the task ends, what is pending has a new task or a wake-up, as  *)
(* long as it was not held for a busy runtime and a request is honoured.   *)
LEMMA TaskEndsSafely ==
    ASSUME Shape, NEW box, NEW held \in BOOLEAN, NEW at \in BOOLEAN,
           TaskEnds(box, held, at)
    PROVE  /\ eval'.pc \in {"none", "debounce"} /\ again' \in BOOLEAN /\ wake' \in BOOLEAN
           /\ eval' = [pc |-> eval'.pc, batch |-> eval'.batch]
           /\ box # <<>> /\ at => wake'
           /\ box # <<>> /\ again /\ ~held /\ ~at => eval'.pc = "debounce"
BY DEF Shape, TaskEnds, NoTask, Debouncing

-----------------------------------------------------------------------------
(* IntakeInit establishes the invariant: the inbox is empty.               *)
LEMMA InitIInv == IntakeInit => IInv
<1> SUFFICES ASSUME IntakeInit
             PROVE  IInv
  OBVIOUS
<1>1. /\ eval.pc \in Pcs /\ eval = [pc |-> eval.pc, batch |-> eval.batch]
      /\ bound \in Nat /\ eval.pc # "acting"
  BY DEF IntakeInit, NoTask, Pcs
<1>2. again \in BOOLEAN /\ wake \in BOOLEAN /\ Requested /\ NothingStranded
  BY DEF IntakeInit, Requested, NothingStranded
<1>3. QED
  BY <1>1, <1>2 DEF IInv, Shape

(* Every step preserves it.                                                *)
LEMMA StepIInv == IInv /\ [IntakeNext]_intakeVars => IInv'
<1> SUFFICES ASSUME IInv, [IntakeNext]_intakeVars
             PROVE  IInv'
  OBVIOUS
<1> USE DEF IInv
<1>1. ASSUME NEW key, NEW changed, NEW span, SubmitFact(key, changed, span)
      PROVE  IInv'
  BY <1>1, EnsureTaskLooks DEF SubmitFact, Shape, Requested, NothingStranded, Alive
<1>2. CASE SubmitExpired
  BY <1>2 DEF SubmitExpired, Shape, Requested, NothingStranded, Alive
<1>3. CASE SubmitHeartbeat
  <2>1. inbox # <<>>
    BY <1>3 DEF SubmitHeartbeat, Mats
  <2>2. CASE wake' = FALSE /\ eval' = Debouncing /\ again' = FALSE
    <3>1. eval'.pc = "debounce" /\ eval' = [pc |-> eval'.pc, batch |-> eval'.batch]
      BY <2>2 DEF Debouncing
    <3>2. bound' = bound
      BY <1>3 DEF SubmitHeartbeat
    <3>3. QED
      BY <2>2, <3>1, <3>2 DEF Shape, Requested, NothingStranded, Alive, Pcs
  <2>3. CASE UNCHANGED <<wake, eval, again>>
    BY <1>3, <2>1, <2>3 DEF SubmitHeartbeat, Shape, Requested, NothingStranded, Alive
  <2>4. QED
    BY <1>3, <2>2, <2>3 DEF SubmitHeartbeat
<1>4. CASE Expire
  <2>1. inbox' # <<>> => inbox # <<>>
    BY <1>4 DEF Expire
  <2>2. eval'.pc = eval.pc /\ eval' = [pc |-> eval'.pc, batch |-> eval'.batch]
    BY <1>4 DEF Expire, Shape
  <2>3. QED
    BY <1>4, <2>1, <2>2 DEF Expire, Shape, Requested, NothingStranded, Alive
<1>5. CASE TurnBinds
  BY <1>5 DEF TurnBinds, Shape, Requested, NothingStranded, Alive
<1>6. CASE TurnSettles
  <2>1. /\ bound \in Nat \ {0} /\ bound' = bound - 1 /\ bound' \in Nat
        /\ eval.pc = "acting" => bound' > 0
    BY <1>6 DEF TurnSettles, TurnSettled, Shape
  <2>2. CASE bound = 1 /\ inbox # <<>>
    BY <1>6, <2>1, <2>2, EnsureTaskLooks
       DEF TurnSettles, TurnSettled, Shape, Requested, NothingStranded, Alive
  <2>3. CASE ~(bound = 1 /\ inbox # <<>>)
    BY <1>6, <2>1, <2>3 DEF TurnSettles, TurnSettled, Shape, Requested, NothingStranded, Alive
  <2>4. QED
    BY <2>2, <2>3
<1>7. CASE WakeFires
  BY <1>7, EnsureTaskLooks DEF WakeFires, Shape, Requested, NothingStranded, Alive
<1>8. CASE TaskStep
  <2>1. CASE BatchEmpty
    BY <2>1, TaskEndsSafely
       DEF BatchEmpty, Closes, Shape, Requested, NothingStranded, Pcs
  <2>2. CASE GateRejects
    BY <2>2, TaskEndsSafely
       DEF GateRejects, Closes, Shape, Requested, NothingStranded, Pcs
  <2>3. CASE GateHolds
    BY <2>3, TaskEndsSafely
       DEF GateHolds, Closes, Shape, Requested, NothingStranded, Alive, Pcs
  <2>4. CASE GateHoldsBusy
    BY <2>4, TaskEndsSafely
       DEF GateHoldsBusy, Closes, Shape, Requested, NothingStranded, Alive, Pcs
  <2>5. CASE GateAccepts
    BY <2>5 DEF GateAccepts, Closes, Shape, Requested, NothingStranded, Pcs
  <2>6. CASE PolicySettles
    BY <2>6, TaskEndsSafely
       DEF PolicySettles, Shape, Requested, NothingStranded, Alive, Pcs
  <2>7. CASE PolicyDefers
    BY <2>7 DEF PolicyDefers, Shape, Requested, NothingStranded, Alive, Pcs
  <2>8. CASE DeferralSaved
    BY <2>8, TaskEndsSafely
       DEF DeferralSaved, Shape, Requested, NothingStranded, Alive, Pcs
  <2>9. CASE PolicyExpresses
    BY <2>9 DEF PolicyExpresses, Shape, Requested, NothingStranded, Alive, Pcs
  <2>10. CASE ActionBinds
    BY <2>10 DEF ActionBinds, Shape, Requested, NothingStranded, Alive, Pcs
  <2>11. CASE ActionSettles
    <3>1. bound' \in Nat /\ inbox' = inbox
      BY <2>11 DEF ActionSettles, Shape
    <3>2. eval'.pc = "acted" /\ eval' = [pc |-> eval'.pc, batch |-> eval'.batch]
      BY <2>11 DEF ActionSettles, Shape
    <3>3. again' \in BOOLEAN /\ wake' \in BOOLEAN /\ (again => again')
      BY <2>11 DEF ActionSettles, Shape
    <3>4. QED
      BY <2>11, <3>1, <3>2, <3>3
         DEF ActionSettles, Shape, Requested, NothingStranded, Alive, Pcs
  <2>12. CASE HandlerEnds
    BY <2>12, TaskEndsSafely
       DEF HandlerEnds, Shape, Requested, NothingStranded, Alive, Pcs
  <2>13. QED
    BY <1>8, <2>1, <2>2, <2>3, <2>4, <2>5, <2>6, <2>7, <2>8, <2>9, <2>10, <2>11, <2>12
       DEF TaskStep
<1>9. CASE UNCHANGED intakeVars
  BY <1>9 DEF intakeVars, Shape, Requested, NothingStranded, Alive
<1>10. QED
  BY <1>1, <1>2, <1>3, <1>4, <1>5, <1>6, <1>7, <1>8, <1>9 DEF IntakeNext

(* Pending observations are never stranded: a task will look at them, or a *)
(* wake-up is set, or a bound turn will look when it settles.              *)
THEOREM NothingStrandedHolds == IntakeSpec => []NothingStranded
<1>1. IntakeSpec => []IInv
  BY InitIInv, StepIInv, PTL DEF IntakeSpec
<1>2. IInv => NothingStranded
  BY DEF IInv
<1>3. QED
  BY <1>1, <1>2, PTL

-----------------------------------------------------------------------------
(* Picking items.  The indices I are counted through: the k-th is in I, no *)
(* index is met twice, and none is left out.                               *)
LEMMA NthCounts ==
    ASSUME NEW n \in Nat, NEW I \in SUBSET (1..n)
    PROVE  /\ Cardinality(I) \in 0..n
           /\ \A k \in 1..Cardinality(I) : Nth(I, k) \in I
           /\ \A k, l \in 1..Cardinality(I) : Nth(I, k) = Nth(I, l) => k = l
           /\ \A i \in I : \E k \in 1..Cardinality(I) : Nth(I, k) = i
<1> DEFINE c == Cardinality(I)
           upTo(i) == {j \in I : j <= i}
           rank == [i \in I |-> Cardinality(upTo(i))]
<1>1. IsFiniteSet(1..n) /\ Cardinality(1..n) = n
  BY FS_Interval
<1>0. \A i \in I : i \in Nat
  OBVIOUS
<1>2. IsFiniteSet(I) /\ c \in Nat /\ c <= n
  BY <1>1, FS_Subset, FS_CardinalityType
<1>3. \A i \in I : IsFiniteSet(upTo(i)) /\ Cardinality(upTo(i)) \in 1..c
  <2> TAKE i \in I
  <2>1. upTo(i) \in SUBSET I /\ i \in upTo(i)
    BY <1>2
  <2>2. IsFiniteSet(upTo(i)) /\ Cardinality(upTo(i)) <= c /\ Cardinality(upTo(i)) \in Nat
    BY <1>2, <2>1, FS_Subset, FS_CardinalityType
  <2>3. Cardinality(upTo(i)) # 0
    BY <2>1, <2>2, FS_EmptySet
  <2> QED
    BY <1>2, <2>2, <2>3
<1>4. ASSUME NEW i \in I, NEW j \in I, i < j
      PROVE  Cardinality(upTo(i)) # Cardinality(upTo(j))
  <2>1. i \in Nat /\ j \in Nat /\ j \in upTo(j) /\ j \notin upTo(i)
    BY <1>0, <1>4
  <2>2. \A k \in I : k <= i => k <= j
    BY <1>0, <1>4
  <2>3. upTo(i) \in SUBSET upTo(j)
    BY <2>2
  <2> QED
    BY <1>3, <2>1, <2>3, FS_Subset
<1>5. \A i, j \in I : Cardinality(upTo(i)) = Cardinality(upTo(j)) => i = j
  BY <1>0, <1>4
<1>6. rank \in Injection(I, 1..c)
  BY <1>3, <1>5 DEF Injection, IsInjective
<1>7. IsFiniteSet(1..c) /\ Cardinality(1..c) = c
  BY <1>2, FS_Interval
<1>8. rank \in Surjection(I, 1..c)
  BY <1>6, <1>7, FS_Injection
<1>9. \A k \in 1..c : \E i \in I : Cardinality(upTo(i)) = k
  BY <1>8 DEF Surjection
<1>10. \A k \in 1..c : Nth(I, k) \in I /\ Cardinality(upTo(Nth(I, k))) = k
  BY <1>9 DEF Nth
<1>11. \A i \in I : Cardinality(upTo(i)) \in 1..c /\ Nth(I, Cardinality(upTo(i))) = i
  BY <1>3, <1>5, <1>10
<1>12. \A k \in 1..c : Nth(I, k) \in I
  BY <1>10
<1>13. \A k, l \in 1..c : Nth(I, k) = Nth(I, l) => k = l
  BY <1>10
<1>14. \A i \in I : \E k \in 1..c : Nth(I, k) = i
  BY <1>11
<1>15. c \in 0..n
  BY <1>2
<1> HIDE DEF upTo
<1> QED
  BY <1>12, <1>13, <1>14, <1>15

(* So what is picked are the items at I, each once.                        *)
LEMMA PickedIs ==
    ASSUME NEW S, NEW s \in Seq(S), NEW I \in SUBSET DOMAIN s
    PROVE  \E f \in [1..Cardinality(I) -> I] :
              /\ Cardinality(I) \in 0..Len(s)
              /\ \A k, l \in 1..Cardinality(I) : f[k] = f[l] => k = l
              /\ \A i \in I : \E k \in 1..Cardinality(I) : f[k] = i
              /\ Picked(s, I) = [k \in 1..Cardinality(I) |-> s[f[k]]]
              /\ Picked(s, I) \in Seq(S) /\ Len(Picked(s, I)) = Cardinality(I)
              /\ DOMAIN Picked(s, I) = 1..Cardinality(I)
<1> DEFINE c == Cardinality(I)
           f == [k \in 1..c |-> Nth(I, k)]
<1>1. Len(s) \in Nat /\ DOMAIN s = 1..Len(s) /\ \A i \in 1..Len(s) : s[i] \in S
  OBVIOUS
<1>2. /\ c \in 0..Len(s)
      /\ \A k \in 1..c : Nth(I, k) \in I
      /\ \A k, l \in 1..c : Nth(I, k) = Nth(I, l) => k = l
      /\ \A i \in I : \E k \in 1..c : Nth(I, k) = i
  BY <1>1, NthCounts
<1> SUFFICES \E g \in [1..c -> I] :
              /\ c \in 0..Len(s)
              /\ \A k, l \in 1..c : g[k] = g[l] => k = l
              /\ \A i \in I : \E k \in 1..c : g[k] = i
              /\ Picked(s, I) = [k \in 1..c |-> s[g[k]]]
              /\ Picked(s, I) \in Seq(S) /\ Len(Picked(s, I)) = c
              /\ DOMAIN Picked(s, I) = 1..c
  OBVIOUS
<1> HIDE DEF c
<1>3. f \in [1..c -> I] /\ \A k \in 1..c : f[k] = Nth(I, k)
  BY <1>2
<1>4. Picked(s, I) = [k \in 1..c |-> s[f[k]]]
  BY <1>3 DEF Picked, c
<1>5. \A k \in 1..c : s[f[k]] \in S
  BY <1>1, <1>3
<1> HIDE DEF f
<1>6. Picked(s, I) \in Seq(S) /\ Len(Picked(s, I)) = c /\ DOMAIN Picked(s, I) = 1..c
  BY <1>2, <1>4, <1>5
<1>7. /\ \A k, l \in 1..c : f[k] = f[l] => k = l
      /\ \A i \in I : \E k \in 1..c : f[k] = i
  BY <1>2, <1>3
<1> QED
  BY <1>2, <1>3, <1>4, <1>6, <1>7

-----------------------------------------------------------------------------
(* A sound sequence has one item per identity and each revision once.      *)
OneEach(s)  == \A i, j \in DOMAIN s : s[i].key = s[j].key /\ s[i].key # NoKey => i = j
Distinct(s) == \A i, j \in DOMAIN s : s[i].mat = s[j].mat /\ s[i].mat # 0 => i = j
Sound(s)    == s \in Seq(Item) /\ OneEach(s) /\ Distinct(s)

(* The material of S is that of A and of B, and of only one of them.       *)
Parts(S, A, B) == S = A \cup B /\ A \cap B = {}

LEMMA SoundItems ==
    ASSUME NEW s, Sound(s)
    PROVE  /\ s \in Seq(Item) /\ Len(s) \in Nat /\ DOMAIN s = 1..Len(s)
           /\ \A i \in DOMAIN s : s[i] \in Item /\ s[i].mat \in Nat
           /\ Mats(s) \in SUBSET (Nat \ {0})
           /\ \A m : m \in Mats(s) <=> m # 0 /\ \E i \in DOMAIN s : s[i].mat = m
<1>1. s \in Seq(Item)
  BY DEF Sound
<1>2. Len(s) \in Nat /\ DOMAIN s = 1..Len(s) /\ \A i \in DOMAIN s : s[i] \in Item
  BY <1>1
<1>3. \A i \in DOMAIN s : s[i].mat \in Nat
  BY <1>2 DEF Item
<1> QED
  BY <1>1, <1>2, <1>3 DEF Mats

(* A sequence that shows some items of a sound one, each once, is sound.   *)
LEMMA ShownSound ==
    ASSUME NEW s, Sound(s), NEW p \in Seq(Item), NEW D, DOMAIN p = D,
           NEW E, DOMAIN s = E, NEW f \in [D -> E],
           \A k, l \in D : f[k] = f[l] => k = l,
           \A k \in D : p[k] = s[f[k]]
    PROVE  /\ Sound(p)
           /\ \A m : m \in Mats(p) <=> m # 0 /\ \E k \in D : s[f[k]].mat = m
<1>1. OneEach(p)
  BY DEF Sound, OneEach
<1>2. Distinct(p)
  BY DEF Sound, Distinct
<1>3. Sound(p)
  BY <1>1, <1>2 DEF Sound
<1> QED
  BY <1>3, SoundItems

(* What is picked from a sound sequence.                                   *)
LEMMA PickedSound ==
    ASSUME NEW s, Sound(s), NEW I \in SUBSET DOMAIN s
    PROVE  /\ Sound(Picked(s, I)) /\ Len(Picked(s, I)) <= Len(s)
           /\ \A m : m \in Mats(Picked(s, I)) <=> m # 0 /\ \E i \in I : s[i].mat = m
           /\ \A k \in DOMAIN Picked(s, I) : \E i \in I : Picked(s, I)[k] = s[i]
           /\ \A i \in I : \E k \in DOMAIN Picked(s, I) : Picked(s, I)[k] = s[i]
<1>1. /\ s \in Seq(Item) /\ Len(s) \in Nat /\ DOMAIN s = 1..Len(s)
      /\ \A i \in DOMAIN s : s[i] \in Item /\ s[i].mat \in Nat
  BY SoundItems
<1> DEFINE c == Cardinality(I)
           p == Picked(s, I)
<1>2. PICK f \in [1..c -> I] :
          /\ c \in 0..Len(s)
          /\ \A k, l \in 1..c : f[k] = f[l] => k = l
          /\ \A i \in I : \E k \in 1..c : f[k] = i
          /\ p = [k \in 1..c |-> s[f[k]]]
          /\ p \in Seq(Item) /\ Len(p) = c /\ DOMAIN p = 1..c
  BY <1>1, PickedIs
<1> HIDE DEF c, p
<1>3. \A k \in 1..c : f[k] \in I /\ p[k] = s[f[k]]
  BY <1>2
<1>4. f \in [DOMAIN p -> DOMAIN s]
  BY <1>2
<1>6. Sound(p)
  BY <1>2, <1>3, <1>4, ShownSound
<1>7. \A i \in I : \E k \in DOMAIN p : p[k] = s[i]
  BY <1>2, <1>3
<1>8. \A k \in DOMAIN p : \E i \in I : p[k] = s[i]
  BY <1>2, <1>3
<1>9. \A m : m \in Mats(p) <=> m # 0 /\ \E i \in I : s[i].mat = m
  BY <1>6, <1>7, <1>8, SoundItems
<1> QED
  BY <1>1, <1>2, <1>6, <1>7, <1>8, <1>9 DEF p

(* Picking the items at I and the others divides the material.             *)
LEMMA PickedParts ==
    ASSUME NEW s, Sound(s), NEW I \in SUBSET DOMAIN s, NEW J \in SUBSET DOMAIN s,
           I \cup J = DOMAIN s, I \cap J = {}
    PROVE  Parts(Mats(s), Mats(Picked(s, I)), Mats(Picked(s, J)))
<1>1. \A m : m \in Mats(s) <=> m # 0 /\ \E i \in DOMAIN s : s[i].mat = m
  BY SoundItems
<1>2. /\ \A m : m \in Mats(Picked(s, I)) <=> m # 0 /\ \E i \in I : s[i].mat = m
      /\ \A m : m \in Mats(Picked(s, J)) <=> m # 0 /\ \E i \in J : s[i].mat = m
  BY PickedSound
<1>3. \A m : m \in Mats(s) <=> m \in Mats(Picked(s, I)) \/ m \in Mats(Picked(s, J))
  BY <1>1, <1>2
<1>4. \A i \in I, j \in J : s[i].mat = s[j].mat => s[i].mat = 0
  BY DEF Sound, Distinct
<1>5. \A m : ~(m \in Mats(Picked(s, I)) /\ m \in Mats(Picked(s, J)))
  BY <1>2, <1>4
<1> QED
  BY <1>3, <1>5 DEF Parts

LEMMA LiveParts ==
    ASSUME NEW s, Sound(s)
    PROVE  /\ Sound(Live(s)) /\ Len(Live(s)) <= Len(s)
           /\ Parts(Mats(s), Mats(Live(s)), Mats(Expired(s)))
           /\ Sound(Expired(s))
<1> DEFINE I == {i \in DOMAIN s : s[i].life # "expired"}
           J == {i \in DOMAIN s : s[i].life = "expired"}
<1>1. I \in SUBSET DOMAIN s /\ J \in SUBSET DOMAIN s /\ I \cup J = DOMAIN s /\ I \cap J = {}
  OBVIOUS
<1>2. Live(s) = Picked(s, I) /\ Expired(s) = Picked(s, J)
  BY DEF Live, Expired
<1> HIDE DEF I, J
<1>3. Sound(Picked(s, I)) /\ Len(Picked(s, I)) <= Len(s) /\ Sound(Picked(s, J))
  BY <1>1, PickedSound
<1>4. Parts(Mats(s), Mats(Picked(s, I)), Mats(Picked(s, J)))
  BY <1>1, PickedParts
<1> QED
  BY <1>2, <1>3, <1>4

(* At most one item has the identity; it is taken out.                     *)
LEMMA SameParts ==
    ASSUME NEW s, Sound(s), NEW key
    PROVE  /\ Sound(Same(s, key)) /\ Sound(Other(s, key))
           /\ Len(Other(s, key)) <= Len(s)
           /\ Parts(Mats(s), Mats(Same(s, key)), Mats(Other(s, key)))
           /\ key # NoKey => \A i \in DOMAIN Other(s, key) : Other(s, key)[i].key # key
           /\ \A i \in DOMAIN Other(s, key) : \E j \in DOMAIN s : Other(s, key)[i] = s[j]
           /\ \A m, n \in Mats(Same(s, key)) : m = n
           /\ key = NoKey => Mats(Same(s, key)) = {}
           /\ \A m : m \in Mats(Same(s, key)) <=>
                        m # 0 /\ key # NoKey /\ \E i \in DOMAIN s : s[i].key = key /\ s[i].mat = m
<1> DEFINE I == {i \in DOMAIN s : s[i].key = key /\ key # NoKey}
           J == {i \in DOMAIN s : s[i].key # key \/ key = NoKey}
<1>1. I \in SUBSET DOMAIN s /\ J \in SUBSET DOMAIN s /\ I \cup J = DOMAIN s /\ I \cap J = {}
  OBVIOUS
<1>2. Same(s, key) = Picked(s, I) /\ Other(s, key) = Picked(s, J)
  BY DEF Same, Other
<1>3. /\ \A j \in J : key # NoKey => s[j].key # key
      /\ \A j \in J : j \in DOMAIN s
      /\ \A i : i \in I <=> i \in DOMAIN s /\ s[i].key = key /\ key # NoKey
  OBVIOUS
<1>4. \A i, j \in I : i = j
  BY DEF Sound, OneEach
<1> HIDE DEF I, J
<1>5. /\ \A m : m \in Mats(Picked(s, I)) <=> m # 0 /\ \E i \in I : s[i].mat = m
      /\ \A k \in DOMAIN Picked(s, J) : \E i \in J : Picked(s, J)[k] = s[i]
      /\ Sound(Picked(s, I)) /\ Sound(Picked(s, J)) /\ Len(Picked(s, J)) <= Len(s)
  BY <1>1, PickedSound
<1>6. Parts(Mats(s), Mats(Picked(s, I)), Mats(Picked(s, J)))
  BY <1>1, PickedParts
<1>7. key # NoKey => \A i \in DOMAIN Picked(s, J) : Picked(s, J)[i].key # key
  BY <1>3, <1>5
<1>8. \A i \in DOMAIN Picked(s, J) : \E j \in DOMAIN s : Picked(s, J)[i] = s[j]
  BY <1>3, <1>5
<1>9. \A m, n \in Mats(Picked(s, I)) : m = n
  BY <1>4, <1>5
<1>10. \A m : m \in Mats(Picked(s, I)) <=>
                 m # 0 /\ key # NoKey /\ \E i \in DOMAIN s : s[i].key = key /\ s[i].mat = m
  BY <1>3, <1>5
<1>11. key = NoKey => Mats(Picked(s, I)) = {}
  BY <1>10
<1> QED
  BY <1>2, <1>5, <1>6, <1>7, <1>8, <1>9, <1>10, <1>11

(* An item is added at the end.                                            *)
LEMMA AppendSound ==
    ASSUME NEW s, Sound(s), NEW x \in Item,
           x.key # NoKey => \A i \in DOMAIN s : s[i].key # x.key,
           x.mat # 0 => x.mat \notin Mats(s)
    PROVE  /\ Sound(Append(s, x)) /\ Len(Append(s, x)) = Len(s) + 1
           /\ Mats(Append(s, x)) = Mats(s) \cup ({x.mat} \ {0})
<1> DEFINE a == Append(s, x)
<1>1. /\ s \in Seq(Item) /\ Len(s) \in Nat /\ DOMAIN s = 1..Len(s)
      /\ \A m : m \in Mats(s) <=> m # 0 /\ \E i \in DOMAIN s : s[i].mat = m
  BY SoundItems
<1>2. /\ a \in Seq(Item) /\ Len(a) = Len(s) + 1 /\ DOMAIN a = 1..(Len(s) + 1)
      /\ \A i \in DOMAIN s : a[i] = s[i]
      /\ a[Len(s) + 1] = x
  BY <1>1
<1>3. \A i \in DOMAIN a : (i \in DOMAIN s /\ a[i] = s[i]) \/ (i = Len(s) + 1 /\ a[i] = x)
  BY <1>1, <1>2
<1> HIDE DEF a
<1>4. OneEach(a)
  BY <1>3 DEF OneEach, Sound
<1>5. x.mat # 0 => \A i \in DOMAIN s : s[i].mat # x.mat
  BY <1>1
<1>6. Distinct(a)
  BY <1>3, <1>5 DEF Distinct, Sound
<1>7. Sound(a)
  BY <1>2, <1>4, <1>6 DEF Sound
<1>8. \A i \in DOMAIN s : i \in DOMAIN a
  BY <1>1, <1>2
<1>9. Len(s) + 1 \in DOMAIN a
  BY <1>1, <1>2
<1>10. \A m : m \in Mats(a) <=> m # 0 /\ \E i \in DOMAIN a : a[i].mat = m
  BY <1>7, SoundItems
<1>11. \A m : m \in Mats(a) <=> m \in Mats(s) \/ (m = x.mat /\ m # 0)
  BY <1>1, <1>2, <1>3, <1>8, <1>9, <1>10
<1> QED
  BY <1>2, <1>7, <1>11 DEF a

(* The first n items leave.                                                *)
LEMMA CutParts ==
    ASSUME NEW s, Sound(s), NEW n \in 0..Len(s)
    PROVE  LET left == SubSeq(s, 1, n)
               kept == SubSeq(s, n + 1, Len(s))
           IN  /\ Sound(kept) /\ Len(kept) = Len(s) - n
               /\ Parts(Mats(s), Mats(left), Mats(kept))
               /\ Sound(left)
               /\ \A i \in DOMAIN kept : \E j \in DOMAIN s : kept[i] = s[j]
<1>1. PICK z \in Nat : z = Len(s)
  BY SoundItems
<1>2. /\ s \in Seq(Item) /\ DOMAIN s = 1..z /\ n \in 0..z
      /\ \A m : m \in Mats(s) <=> m # 0 /\ \E i \in 1..z : s[i].mat = m
      /\ \A i \in 1..z : s[i] \in Item
  BY <1>1, SoundItems
<1>3. PICK a \in Seq(Item) : /\ a = SubSeq(s, 1, n) /\ Len(a) = n /\ DOMAIN a = 1..n
                                /\ \A i \in 1..n : a[i] = s[i]
  <2>1. SubSeq(s, 1, n) \in Seq(Item) /\ Len(SubSeq(s, 1, n)) = n
    BY <1>1, <1>2
  <2>2. \A i \in 1..n : SubSeq(s, 1, n)[i] = s[i]
    BY <1>1, <1>2
  <2>3. DOMAIN SubSeq(s, 1, n) = 1..n
    BY <1>2, <2>1
  <2> QED
    BY <2>1, <2>2, <2>3
<1>4. PICK b \in Seq(Item) : /\ b = SubSeq(s, n + 1, z) /\ Len(b) = z - n
                                /\ DOMAIN b = 1..(z - n)
                                /\ \A i \in 1..(z - n) : b[i] = s[i + n]
  <2>1. SubSeq(s, n + 1, z) \in Seq(Item) /\ Len(SubSeq(s, n + 1, z)) = z - n
    BY <1>1, <1>2
  <2>2. \A i \in 1..(z - n) : SubSeq(s, n + 1, z)[i] = s[i + n]
    BY <1>1, <1>2
  <2>3. DOMAIN SubSeq(s, n + 1, z) = 1..(z - n)
    BY <1>2, <2>1
  <2> QED
    BY <2>1, <2>2, <2>3
<1>5. /\ \A i, j \in 1..z : s[i].key = s[j].key /\ s[i].key # NoKey => i = j
      /\ \A i, j \in 1..z : s[i].mat = s[j].mat /\ s[i].mat # 0 => i = j
  BY <1>2 DEF Sound, OneEach, Distinct
<1>6. Sound(a)
  <2>1. \A i \in 1..n : i \in 1..z
    BY <1>2
  <2>2. OneEach(a)
    BY <1>3, <1>5, <2>1 DEF OneEach
  <2>3. Distinct(a)
    BY <1>3, <1>5, <2>1, SMTT(20), ZenonT(30) DEF Distinct
  <2> QED
    BY <2>2, <2>3 DEF Sound
<1>7. Sound(b)
  <2>1. \A i \in 1..(z - n) : i + n \in 1..z /\ i \in Int
    BY <1>2
  <2>2. \A i, j \in 1..(z - n) : i + n = j + n => i = j
    BY <1>2
  <2>3. OneEach(b)
    <3> SUFFICES ASSUME NEW i \in 1..(z - n), NEW j \in 1..(z - n),
                        b[i].key = b[j].key, b[i].key # NoKey
                 PROVE  i = j
      BY <1>4 DEF OneEach
    <3>1. PICK k \in 1..z : k = i + n
      BY <2>1
    <3>2. PICK l \in 1..z : l = j + n
      BY <2>1
    <3>3. b[i] = s[k] /\ b[j] = s[l]
      BY <1>4, <3>1, <3>2
    <3>4. k = l
      BY <1>5, <3>3
    <3> QED
      BY <2>2, <3>1, <3>2, <3>4
  <2>4. Distinct(b)
    <3> SUFFICES ASSUME NEW i \in 1..(z - n), NEW j \in 1..(z - n),
                        b[i].mat = b[j].mat, b[i].mat # 0
                 PROVE  i = j
      BY <1>4 DEF Distinct
    <3>1. PICK k \in 1..z : k = i + n
      BY <2>1
    <3>2. PICK l \in 1..z : l = j + n
      BY <2>1
    <3>3. b[i] = s[k] /\ b[j] = s[l]
      BY <1>4, <3>1, <3>2
    <3>4. k = l
      BY <1>5, <3>3
    <3> QED
      BY <2>2, <3>1, <3>2, <3>4
  <2> QED
    BY <2>3, <2>4 DEF Sound
<1>8. /\ \A m : m \in Mats(a) <=> m # 0 /\ \E i \in 1..n : a[i].mat = m
      /\ \A m : m \in Mats(b) <=> m # 0 /\ \E i \in 1..(z - n) : b[i].mat = m
  <2>1. DOMAIN a = 1..n /\ DOMAIN b = 1..(z - n)
    BY <1>3, <1>4
  <2> QED
    BY <2>1 DEF Mats
<1>9. \A i \in 1..z : i \in 1..n \/ (i - n \in 1..(z - n) /\ (i - n) + n = i)
  BY <1>2
<1>10. \A m : m \in Mats(s) => m \in Mats(a) \/ m \in Mats(b)
  <2> SUFFICES ASSUME NEW m \in Mats(s)
               PROVE  m \in Mats(a) \/ m \in Mats(b)
    OBVIOUS
  <2>1. PICK i \in 1..z : m # 0 /\ s[i].mat = m
    BY <1>2
  <2>2. CASE i \in 1..n
    BY <1>3, <1>8, <2>1, <2>2
  <2>3. CASE i - n \in 1..(z - n) /\ (i - n) + n = i
    <3>1. b[i - n] = s[i]
      BY <1>4, <2>3
    <3> QED
      BY <1>8, <2>1, <2>3, <3>1
  <2> QED
    BY <1>9, <2>2, <2>3
<1>11. \A m : m \in Mats(a) \/ m \in Mats(b) => m \in Mats(s)
  <2>1. /\ \A i \in 1..n : i \in 1..z
        /\ \A i \in 1..(z - n) : i + n \in 1..z
    BY <1>2
  <2> QED
    BY <1>2, <1>3, <1>4, <1>8, <2>1
<1>13. \A m : ~(m \in Mats(a) /\ m \in Mats(b))
  <2> SUFFICES ASSUME NEW m \in Mats(a), m \in Mats(b)
               PROVE  FALSE
    OBVIOUS
  <2>1. PICK i \in 1..n : m # 0 /\ a[i].mat = m
    BY <1>8
  <2>2. PICK j \in 1..(z - n) : b[j].mat = m
    BY <1>8
  <2>3. i \in 1..z /\ j + n \in 1..z /\ i # j + n
    BY <1>2
  <2> QED
    BY <1>3, <1>4, <1>5, <2>1, <2>2, <2>3
<1>14. Parts(Mats(s), Mats(a), Mats(b))
  BY <1>10, <1>11, <1>13 DEF Parts
<1>15. \A i \in DOMAIN b : \E j \in DOMAIN s : b[i] = s[j]
  <2>1. \A i \in 1..(z - n) : b[i] = s[i + n] /\ i + n \in 1..z
    BY <1>2, <1>4
  <2> QED
    BY <1>2, <1>4, <2>1
<1> QED
  BY <1>1, <1>3, <1>4, <1>6, <1>7, <1>14, <1>15

-----------------------------------------------------------------------------
(* A bounded set of numbers that is not empty has a largest one.           *)
LEMMA LargestIs ==
    ASSUME NEW n \in Nat, NEW S \in SUBSET (0..n), S # {}
    PROVE  Largest(S) \in S /\ \A m \in S : m <= Largest(S)
<1> DEFINE R == OpToRel(<, Nat)
           T == {n - m : m \in S}
<1>1. IsWellFoundedOn(R, Nat)
  BY NatLessThanWellFounded
<1>2. \A x, y \in Nat : x < y => <<x, y>> \in R
  BY DEF OpToRel
<1>3. T \subseteq Nat /\ T # {}
  <2>1. PICK e : e \in S
    OBVIOUS
  <2>2. n - e \in T
    BY <2>1
  <2>3. \A m \in S : n - m \in Nat
    OBVIOUS
  <2> QED
    BY <2>2, <2>3
<1> HIDE DEF R
<1>4. PICK t \in T : \A u \in T : <<u, t>> \notin R
  BY <1>1, <1>3, WFMin
<1>5. PICK m \in S : t = n - m
  OBVIOUS
<1>6. \A k \in S : n - k \in T /\ n - k \in Nat /\ n - m \in Nat
  OBVIOUS
<1>7. \A k \in S : ~(n - k < n - m)
  BY <1>2, <1>4, <1>5, <1>6
<1>8. \A k \in S : k <= m
  BY <1>7
<1> QED
  BY <1>8 DEF Largest

(* A set with at most one positive number: its largest, or 0.              *)
LEMMA OneLargest ==
    ASSUME NEW S \in SUBSET (Nat \ {0}), \A m, n \in S : m = n
    PROVE  /\ Largest(S \cup {0}) \in Nat
           /\ \A m : m \in S <=> m # 0 /\ m = Largest(S \cup {0})
<1>1. CASE S = {}
  <2>1. S \cup {0} = {0}
    BY <1>1
  <2>2. Largest({0}) = 0
    BY DEF Largest
  <2> QED
    BY <1>1, <2>1, <2>2
<1>2. CASE S # {}
  <2>1. PICK v : v \in S
    BY <1>2
  <2>2. v \in Nat \ {0} /\ S = {v}
    BY <2>1
  <2>3. \E x \in {v, 0} : \A y \in {v, 0} : y <= x
    BY <2>2
  <2>4. \A x \in {v, 0} : (\A y \in {v, 0} : y <= x) => x = v
    BY <2>2
  <2>5. Largest({v, 0}) = v
    BY <2>3, <2>4 DEF Largest
  <2>6. S \cup {0} = {v, 0}
    BY <2>2
  <2> QED
    BY <2>2, <2>5, <2>6
<1> QED
  BY <1>1, <1>2

(* A sequence with the same items follows another.                         *)
LEMMA ConcatSound ==
    ASSUME NEW s, Sound(s), NEW t, Sound(t),
           \A i \in DOMAIN s, j \in DOMAIN t : s[i].key # NoKey => s[i].key # t[j].key,
           Mats(s) \cap Mats(t) = {}
    PROVE  Sound(s \o t) /\ Mats(s \o t) = Mats(s) \cup Mats(t)
<1>1. PICK y \in Nat, z \in Nat : y = Len(s) /\ z = Len(t)
  BY SoundItems
<1>2. /\ s \in Seq(Item) /\ t \in Seq(Item)
      /\ DOMAIN s = 1..y /\ DOMAIN t = 1..z
      /\ \A m : m \in Mats(s) <=> m # 0 /\ \E i \in 1..y : s[i].mat = m
      /\ \A m : m \in Mats(t) <=> m # 0 /\ \E i \in 1..z : t[i].mat = m
  BY <1>1, SoundItems
<1>3. PICK c \in Seq(Item) : /\ c = s \o t /\ DOMAIN c = 1..(y + z)
                                /\ \A i \in 1..(y + z) : c[i] = IF i <= y THEN s[i] ELSE t[i - y]
  <2>1. /\ s \o t \in Seq(Item) /\ Len(s \o t) = y + z
        /\ \A i \in 1..(y + z) : (s \o t)[i] = IF i <= y THEN s[i] ELSE t[i - y]
    BY <1>1, <1>2, ConcatProperties
  <2>2. DOMAIN (s \o t) = 1..(y + z)
    BY <2>1
  <2> QED
    BY <2>1, <2>2
<1>4. \A i \in 1..(y + z) : \/ i \in 1..y /\ c[i] = s[i]
                            \/ i - y \in 1..z /\ c[i] = t[i - y] /\ i = (i - y) + y
  BY <1>3
<1>5. /\ \A i, j \in 1..y : s[i].key = s[j].key /\ s[i].key # NoKey => i = j
      /\ \A i, j \in 1..z : t[i].key = t[j].key /\ t[i].key # NoKey => i = j
      /\ \A i, j \in 1..y : s[i].mat = s[j].mat /\ s[i].mat # 0 => i = j
      /\ \A i, j \in 1..z : t[i].mat = t[j].mat /\ t[i].mat # 0 => i = j
      /\ \A i \in 1..y, j \in 1..z : s[i].key = t[j].key => s[i].key = NoKey
      /\ \A i \in 1..y, j \in 1..z : s[i].mat = t[j].mat => s[i].mat = 0
  BY <1>2 DEF Sound, OneEach, Distinct
<1>6. OneEach(c)
  <2> SUFFICES ASSUME NEW i \in 1..(y + z), NEW j \in 1..(y + z),
                      c[i].key = c[j].key, c[i].key # NoKey
               PROVE  i = j
    BY <1>3 DEF OneEach
  <2>1. CASE i \in 1..y /\ c[i] = s[i] /\ j \in 1..y /\ c[j] = s[j]
    BY <1>5, <2>1
  <2>2. CASE i \in 1..y /\ c[i] = s[i] /\ j - y \in 1..z /\ c[j] = t[j - y]
    BY <1>5, <2>2
  <2>3. CASE i - y \in 1..z /\ c[i] = t[i - y] /\ j \in 1..y /\ c[j] = s[j]
    BY <1>5, <2>3
  <2>4. CASE i - y \in 1..z /\ c[i] = t[i - y] /\ j - y \in 1..z /\ c[j] = t[j - y]
    <3>1. i - y = j - y
      BY <1>5, <2>4
    <3> QED
      BY <3>1
  <2> QED
    BY <1>4, <2>1, <2>2, <2>3, <2>4
<1>7. Distinct(c)
  <2> SUFFICES ASSUME NEW i \in 1..(y + z), NEW j \in 1..(y + z),
                      c[i].mat = c[j].mat, c[i].mat # 0
               PROVE  i = j
    BY <1>3 DEF Distinct
  <2>1. CASE i \in 1..y /\ c[i] = s[i] /\ j \in 1..y /\ c[j] = s[j]
    BY <1>5, <2>1
  <2>2. CASE i \in 1..y /\ c[i] = s[i] /\ j - y \in 1..z /\ c[j] = t[j - y]
    BY <1>5, <2>2
  <2>3. CASE i - y \in 1..z /\ c[i] = t[i - y] /\ j \in 1..y /\ c[j] = s[j]
    BY <1>5, <2>3
  <2>4. CASE i - y \in 1..z /\ c[i] = t[i - y] /\ j - y \in 1..z /\ c[j] = t[j - y]
    <3>1. i - y = j - y
      BY <1>5, <2>4
    <3> QED
      BY <3>1
  <2> QED
    BY <1>4, <2>1, <2>2, <2>3, <2>4
<1>8. \A m : m \in Mats(c) <=> m # 0 /\ \E i \in 1..(y + z) : c[i].mat = m
  BY <1>3 DEF Mats
<1>9. \A m : m \in Mats(c) => m \in Mats(s) \/ m \in Mats(t)
  <2> SUFFICES ASSUME NEW m \in Mats(c)
               PROVE  m \in Mats(s) \/ m \in Mats(t)
    OBVIOUS
  <2>1. PICK i \in 1..(y + z) : m # 0 /\ c[i].mat = m
    BY <1>8
  <2>2. CASE i \in 1..y /\ c[i] = s[i]
    BY <1>2, <2>1, <2>2
  <2>3. CASE i - y \in 1..z /\ c[i] = t[i - y]
    BY <1>2, <2>1, <2>3
  <2> QED
    BY <1>4, <2>2, <2>3
<1>10. \A m : m \in Mats(s) => m \in Mats(c)
  <2>1. \A i \in 1..y : i \in 1..(y + z) /\ c[i] = s[i]
    BY <1>3
  <2> QED
    BY <1>2, <1>8, <2>1
<1>11. \A m : m \in Mats(t) => m \in Mats(c)
  <2> SUFFICES ASSUME NEW i \in 1..z, t[i].mat # 0
               PROVE  t[i].mat \in Mats(c)
    BY <1>2
  <2>1. PICK k \in 1..(y + z) : k = i + y
    OBVIOUS
  <2>2. ~(k <= y) /\ k - y = i
    BY <2>1
  <2>3. c[k] = t[i]
    BY <1>3, <2>2
  <2> QED
    BY <1>8, <2>3
<1> QED
  BY <1>3, <1>6, <1>7, <1>9, <1>10, <1>11 DEF Sound

LEMMA EmptySound == Sound(<<>>) /\ Mats(<<>>) = {}
BY DEF Sound, OneEach, Distinct, Mats

(* An item changes nothing but its life.                                   *)
LEMMA ExpireSound ==
    ASSUME NEW s, Sound(s), NEW i \in DOMAIN s
    PROVE  LET t == [s EXCEPT ![i].life = "expired"]
           IN  Sound(t) /\ Len(t) = Len(s) /\ Mats(t) = Mats(s)
<1> DEFINE t == [s EXCEPT ![i].life = "expired"]
<1>1. s \in Seq(Item) /\ Len(s) \in Nat /\ DOMAIN s = 1..Len(s) /\ \A j \in DOMAIN s : s[j] \in Item
  BY SoundItems
<1>2. PICK y \in Item : y = [s[i] EXCEPT !.life = "expired"] /\ y.key = s[i].key /\ y.mat = s[i].mat
  <2>1. s[i] \in Item
    BY <1>1
  <2>2. /\ [s[i] EXCEPT !.life = "expired"] \in Item
        /\ [s[i] EXCEPT !.life = "expired"].key = s[i].key
        /\ [s[i] EXCEPT !.life = "expired"].mat = s[i].mat
    BY <2>1 DEF Item
  <2> QED
    BY <2>2
<1>3. t = [s EXCEPT ![i] = y]
  BY <1>1, <1>2
<1> HIDE DEF t
<1>4. t \in Seq(Item) /\ Len(t) = Len(s) /\ DOMAIN t = DOMAIN s
  BY <1>1, <1>2, <1>3
<1>5. \A j \in DOMAIN s : t[j].key = s[j].key /\ t[j].mat = s[j].mat
  BY <1>1, <1>2, <1>3
<1>6. OneEach(t) /\ Distinct(t)
  BY <1>4, <1>5 DEF Sound, OneEach, Distinct
<1>7. \A m : m \in Mats(t) <=> m \in Mats(s)
  BY <1>4, <1>5 DEF Mats
<1> QED
  BY <1>4, <1>6, <1>7 DEF t, Sound

(* The first item leaves.                                                  *)
LEMMA TailParts ==
    ASSUME NEW s, Sound(s), Len(s) > 0
    PROVE  /\ Sound(Tail(s)) /\ Len(Tail(s)) = Len(s) - 1
           /\ Parts(Mats(s), Mats(<<Head(s)>>), Mats(Tail(s)))
           /\ \A i \in DOMAIN Tail(s) : \E j \in DOMAIN s : Tail(s)[i] = s[j]
<1>1. s \in Seq(Item) /\ Len(s) \in Nat /\ 1 \in 0..Len(s) /\ s # <<>>
  BY SoundItems
<1>2. PICK n \in 0..Len(s) : n = 1
  BY <1>1
<1>3. Tail(s) = SubSeq(s, n + 1, Len(s)) /\ <<Head(s)>> = SubSeq(s, 1, n)
  BY <1>1, <1>2
<1>4. /\ Sound(SubSeq(s, n + 1, Len(s))) /\ Len(SubSeq(s, n + 1, Len(s))) = Len(s) - n
      /\ Parts(Mats(s), Mats(SubSeq(s, 1, n)), Mats(SubSeq(s, n + 1, Len(s))))
      /\ \A i \in DOMAIN SubSeq(s, n + 1, Len(s)) :
            \E j \in DOMAIN s : SubSeq(s, n + 1, Len(s))[i] = s[j]
  BY CutParts
<1> QED
  BY <1>2, <1>3, <1>4

-----------------------------------------------------------------------------
(* admit conserves material: what the inbox and the new item held is in    *)
(* the inbox or lost, and not both; the inbox stays within its bound.      *)
LEMMA AdmitConserves ==
    ASSUME NEW box, Sound(box), Len(box) <= MaxPending,
           NEW item \in Item, item.mat # 0 => item.mat \notin Mats(box)
    PROVE  LET got == Admitted(box, item)
           IN  /\ Sound(got.box) /\ Len(got.box) <= MaxPending /\ got.box # <<>>
               /\ Parts(Mats(box) \cup ({item.mat} \ {0}), Mats(got.box), got.lost)
<1> DEFINE live == Live(box)
           same == Same(live, item.key)
           rest == Other(live, item.key)
           full == Len(rest) >= MaxPending
           kept == IF full THEN Tail(rest) ELSE rest
           mat  == IF item.mat # 0 THEN item.mat ELSE Largest(Mats(same) \cup {0})
           new  == [item EXCEPT !.mat = mat]
           head == IF full THEN Mats(<<Head(rest)>>) ELSE {}
           lost == Mats(Expired(box)) \cup (IF item.mat # 0 THEN Mats(same) ELSE {}) \cup head
<1>1. /\ Admitted(box, item).box = Append(kept, new)
      /\ Admitted(box, item).lost = lost
  BY DEF Admitted
<1>2. /\ Sound(live) /\ Len(live) <= Len(box)
      /\ Parts(Mats(box), Mats(live), Mats(Expired(box)))
  BY LiveParts
<1>3. /\ Sound(same) /\ Sound(rest) /\ Len(rest) <= Len(live)
      /\ Parts(Mats(live), Mats(same), Mats(rest))
      /\ item.key # NoKey => \A i \in DOMAIN rest : rest[i].key # item.key
      /\ \A m, n \in Mats(same) : m = n
  BY <1>2, SameParts
<1>4. /\ Len(box) \in Nat /\ Len(live) \in Nat /\ Len(rest) \in Nat
      /\ Mats(same) \in SUBSET (Nat \ {0})
      /\ MaxPending \in Nat \ {0}
  BY <1>2, <1>3, SoundItems, BoundAssumption
<1> HIDE DEF live, same, rest
<1>5. /\ Sound(kept) /\ Len(kept) \in Nat /\ Len(kept) < MaxPending
      /\ Parts(Mats(rest), head, Mats(kept))
      /\ \A i \in DOMAIN kept : \E j \in DOMAIN rest : kept[i] = rest[j]
  <2>1. CASE full
    <3>1. Len(rest) > 0 /\ kept = Tail(rest) /\ head = Mats(<<Head(rest)>>)
      BY <1>4, <2>1
    <3>2. Len(Tail(rest)) = Len(rest) - 1 /\ Len(rest) <= MaxPending
      BY <1>2, <1>3, <1>4, <3>1, TailParts
    <3> QED
      BY <1>3, <1>4, <3>1, <3>2, TailParts, SMTT(20), ZenonT(30)
  <2>2. CASE ~full
    <3>1. kept = rest /\ head = {} /\ Len(rest) < MaxPending
      BY <1>4, <2>2
    <3> QED
      BY <1>3, <1>4, <3>1 DEF Parts
  <2> QED
    BY <2>1, <2>2
<1>6. item.mat \in Nat /\ Largest(Mats(same) \cup {0}) \in Nat
  BY <1>3, <1>4, OneLargest DEF Item
<1>7. new \in Item /\ new.key = item.key /\ new.mat = mat /\ mat \in Nat
  BY <1>6 DEF Item
<1>8. {mat} \ {0} = IF item.mat # 0 THEN {item.mat} ELSE Mats(same)
  BY <1>3, <1>4, <1>6, OneLargest
<1> HIDE DEF kept, head, full, mat, new
<1>9. mat # 0 => mat \notin Mats(kept)
  BY <1>2, <1>3, <1>5, <1>8 DEF Parts
<1>10. item.key # NoKey => \A i \in DOMAIN kept : kept[i].key # new.key
  BY <1>3, <1>5, <1>7
<1>11. /\ Sound(Append(kept, new)) /\ Len(Append(kept, new)) = Len(kept) + 1
       /\ Mats(Append(kept, new)) = Mats(kept) \cup ({mat} \ {0})
  BY <1>5, <1>7, <1>9, <1>10, AppendSound
<1>12. Len(Append(kept, new)) <= MaxPending /\ Append(kept, new) # <<>>
  <2>1. PICK c : c = Append(kept, new)
    OBVIOUS
  <2>2. Len(c) <= MaxPending /\ Len(c) # 0
    BY <1>4, <1>5, <1>11, <2>1
  <2> QED
    BY <2>1, <2>2
<1>13. Parts(Mats(box) \cup ({item.mat} \ {0}), Mats(kept) \cup ({mat} \ {0}), lost)
  BY <1>2, <1>3, <1>5, <1>8 DEF Parts
<1> HIDE DEF lost
<1> QED
  BY <1>1, <1>11, <1>12, <1>13

-----------------------------------------------------------------------------
(* What a restore makes of the newer items, the material they inherit and  *)
(* the material that they replace.                                         *)
Heir(batch, x) ==
    [x EXCEPT !.mat = IF @ # 0 THEN @ ELSE Largest(Mats(Same(batch, x.key)) \cup {0})]
Heirs(batch, box) == [i \in DOMAIN box |-> Heir(batch, box[i])]
Inherited(batch, box) ==
    UNION {Mats(Same(batch, box[i].key)) : i \in {j \in DOMAIN box : box[j].mat = 0}}
Replaced(batch, box) ==
    UNION {Mats(Same(batch, box[i].key)) : i \in {j \in DOMAIN box : box[j].mat # 0}}
NewerKeys(box) == {box[i].key : i \in DOMAIN box} \ {NoKey}
Held(batch, box) == Picked(batch, {i \in DOMAIN batch : batch[i].key \notin NewerKeys(box)})

LEMMA HeirIs ==
    ASSUME NEW batch, Sound(batch), NEW x \in Item
    PROVE  /\ Heir(batch, x) \in Item /\ Heir(batch, x).key = x.key
           /\ x.mat # 0 => Heir(batch, x).mat = x.mat
           /\ x.mat = 0 => \A m : m \in Mats(Same(batch, x.key)) <=> m # 0 /\ m = Heir(batch, x).mat
<1> DEFINE mats == Mats(Same(batch, x.key))
           l    == Largest(mats \cup {0})
           v    == IF x.mat # 0 THEN x.mat ELSE l
<1>1. Sound(Same(batch, x.key)) /\ \A m, n \in mats : m = n
  BY SameParts
<1>2. mats \in SUBSET (Nat \ {0})
  BY <1>1, SoundItems
<1>3. l \in Nat /\ \A m : m \in mats <=> m # 0 /\ m = l
  BY <1>1, <1>2, OneLargest
<1> HIDE DEF mats, l
<1>4. v \in Nat
  BY <1>3 DEF Item
<1>5. PICK y : y = [x EXCEPT !.mat = v] /\ y = Heir(batch, x)
  BY DEF l, mats, Item, Heir
<1>6. y \in Item /\ y.key = x.key /\ y.mat = v
  BY <1>4, <1>5 DEF Item
<1> QED
  BY <1>3, <1>5, <1>6 DEF mats

(* At most one item of the batch has the identity of a newer one.          *)
LEMMA HeirsSound ==
    ASSUME NEW batch, Sound(batch), NEW box, Sound(box), Mats(box) \cap Mats(batch) = {}
    PROVE  LET H == Heirs(batch, box)
           IN  /\ Sound(H) /\ Len(H) = Len(box) /\ DOMAIN H = DOMAIN box
               /\ \A i \in DOMAIN box : H[i].key = box[i].key
               /\ Mats(H) = Mats(box) \cup Inherited(batch, box)
<1>1. PICK z \in Nat : z = Len(box) /\ DOMAIN box = 1..z /\ box \in Seq(Item)
  BY SoundItems
<1>2. /\ \A m : m \in Mats(box) <=> m # 0 /\ \E i \in 1..z : box[i].mat = m
      /\ \A m : m \in Mats(batch) <=> m # 0 /\ \E i \in DOMAIN batch : batch[i].mat = m
      /\ \A i \in 1..z : box[i] \in Item
  BY <1>1, SoundItems
<1>3. PICK M : M = [i \in 1..z |-> Mats(Same(batch, box[i].key))]
  OBVIOUS
<1>4. \A i \in 1..z : \A m :
        m \in M[i] <=> /\ m # 0 /\ box[i].key # NoKey
                       /\ \E j \in DOMAIN batch : batch[j].key = box[i].key /\ batch[j].mat = m
  <2> SUFFICES ASSUME NEW i \in 1..z, NEW m
               PROVE  m \in M[i] <=>
                        /\ m # 0 /\ box[i].key # NoKey
                        /\ \E j \in DOMAIN batch : batch[j].key = box[i].key /\ batch[j].mat = m
    OBVIOUS
  <2>1. M[i] = Mats(Same(batch, box[i].key))
    BY <1>3
  <2> QED
    BY <2>1, SameParts
<1>5. PICK H : H = Heirs(batch, box)
  OBVIOUS
<1>6. \A i \in 1..z : /\ H[i] \in Item /\ H[i].key = box[i].key
                      /\ box[i].mat # 0 => H[i].mat = box[i].mat
                      /\ box[i].mat = 0 => \A m : m \in M[i] <=> m # 0 /\ m = H[i].mat
  <2> SUFFICES ASSUME NEW i \in 1..z
               PROVE  /\ H[i] \in Item /\ H[i].key = box[i].key
                      /\ box[i].mat # 0 => H[i].mat = box[i].mat
                      /\ box[i].mat = 0 => \A m : m \in M[i] <=> m # 0 /\ m = H[i].mat
    OBVIOUS
  <2>1. M[i] = Mats(Same(batch, box[i].key)) /\ box[i] \in Item
    BY <1>2, <1>3
  <2>2. H[i] = Heir(batch, box[i])
    BY <1>1, <1>5 DEF Heirs
  <2> QED
    BY <2>1, <2>2, HeirIs
<1>7. DOMAIN H = 1..z /\ H \in Seq(Item) /\ Len(H) = z
  <2>1. H = [i \in 1..z |-> H[i]]
    BY <1>1, <1>5 DEF Heirs
  <2> QED
    BY <1>6, <2>1
<1>8. OneEach(H)
  BY <1>1, <1>6, <1>7 DEF OneEach, Sound
<1>9. Distinct(H)
  <2> SUFFICES ASSUME NEW i \in 1..z, NEW j \in 1..z, H[i].mat = H[j].mat, H[i].mat # 0
               PROVE  i = j
    BY <1>7 DEF Distinct
  <2>1. \A k \in 1..z : box[k].mat # 0 => H[k].mat = box[k].mat /\ box[k].mat \in Mats(box)
    BY <1>2, <1>6
  <2>2. ASSUME NEW k \in 1..z, box[k].mat = 0, H[k].mat # 0
        PROVE  /\ H[k].mat \in Mats(batch) /\ box[k].key # NoKey
               /\ \E e \in DOMAIN batch : batch[e].key = box[k].key /\ batch[e].mat = H[k].mat
    <3>1. H[k].mat \in M[k]
      BY <1>6, <2>2
    <3>2. PICK e \in DOMAIN batch : /\ batch[e].key = box[k].key /\ batch[e].mat = H[k].mat
                                    /\ box[k].key # NoKey
      BY <1>4, <3>1
    <3> QED
      BY <1>2, <2>2, <3>2
  <2>3. CASE box[i].mat # 0 /\ box[j].mat # 0
    BY <1>1, <2>1, <2>3 DEF Sound, Distinct
  <2>4. CASE box[i].mat = 0 /\ box[j].mat = 0
    <3>1. PICK d \in DOMAIN batch : /\ batch[d].key = box[i].key /\ batch[d].mat = H[i].mat
                                    /\ box[i].key # NoKey
      BY <2>2, <2>4
    <3>2. PICK e \in DOMAIN batch : batch[e].key = box[j].key /\ batch[e].mat = H[j].mat
      BY <2>2, <2>4
    <3>3. d = e
      BY <3>1, <3>2 DEF Sound, Distinct
    <3> QED
      BY <1>1, <3>1, <3>2, <3>3 DEF Sound, OneEach
  <2> QED
    BY <2>1, <2>2, <2>3, <2>4
<1>10. Sound(H)
  BY <1>7, <1>8, <1>9 DEF Sound
<1>11. \A m : m \in Inherited(batch, box) <=> \E i \in 1..z : box[i].mat = 0 /\ m \in M[i]
  BY <1>1, <1>3 DEF Inherited
<1>12. \A m : m \in Mats(H) <=> m # 0 /\ \E i \in 1..z : H[i].mat = m
  BY <1>7 DEF Mats
<1>13. \A m : m \in Mats(H) <=> m \in Mats(box) \/ m \in Inherited(batch, box)
  <2>1. ASSUME NEW m, m \in Mats(H)
        PROVE  m \in Mats(box) \/ m \in Inherited(batch, box)
    BY <1>2, <1>6, <1>11, <1>12, <2>1
  <2>2. ASSUME NEW m, m \in Mats(box)
        PROVE  m \in Mats(H)
    BY <1>2, <1>6, <1>12, <2>2
  <2>3. ASSUME NEW m, m \in Inherited(batch, box)
        PROVE  m \in Mats(H)
    BY <1>6, <1>11, <1>12, <2>3
  <2> QED
    BY <2>1, <2>2, <2>3
<1> QED
  BY <1>1, <1>5, <1>6, <1>7, <1>10, <1>13

(* The held items whose identity came back leave their material to it or   *)
(* lose it.                                                                *)
LEMMA HeldParts ==
    ASSUME NEW batch, Sound(batch), NEW box, Sound(box)
    PROVE  /\ Sound(Held(batch, box))
           /\ \A k \in DOMAIN Held(batch, box) : Held(batch, box)[k].key \notin NewerKeys(box)
           /\ Parts(Mats(batch), Mats(Held(batch, box)), Inherited(batch, box) \cup Replaced(batch, box))
           /\ Inherited(batch, box) \cap Replaced(batch, box) = {}
<1>1. PICK z \in Nat : z = Len(box) /\ DOMAIN box = 1..z /\ box \in Seq(Item)
  BY SoundItems
<1>2. PICK I \in SUBSET DOMAIN batch : I = {i \in DOMAIN batch : batch[i].key \notin NewerKeys(box)}
  OBVIOUS
<1>3. PICK J \in SUBSET DOMAIN batch : J = {i \in DOMAIN batch : batch[i].key \in NewerKeys(box)}
  OBVIOUS
<1>4. I \cup J = DOMAIN batch /\ I \cap J = {} /\ Held(batch, box) = Picked(batch, I)
  BY <1>2, <1>3 DEF Held
<1>5. /\ Sound(Picked(batch, I)) /\ Parts(Mats(batch), Mats(Picked(batch, I)), Mats(Picked(batch, J)))
      /\ \A k \in DOMAIN Picked(batch, I) : \E i \in I : Picked(batch, I)[k] = batch[i]
      /\ \A m : m \in Mats(Picked(batch, J)) <=> m # 0 /\ \E i \in J : batch[i].mat = m
  BY <1>4, PickedSound, PickedParts
<1>6. \A k \in DOMAIN Picked(batch, I) : Picked(batch, I)[k].key \notin NewerKeys(box)
  BY <1>2, <1>5
<1>7. PICK M : M = [i \in 1..z |-> Mats(Same(batch, box[i].key))]
  OBVIOUS
<1>8. \A i \in 1..z : \A m :
        m \in M[i] <=> /\ m # 0 /\ box[i].key # NoKey
                       /\ \E j \in DOMAIN batch : batch[j].key = box[i].key /\ batch[j].mat = m
  <2> SUFFICES ASSUME NEW i \in 1..z, NEW m
               PROVE  m \in M[i] <=>
                        /\ m # 0 /\ box[i].key # NoKey
                        /\ \E j \in DOMAIN batch : batch[j].key = box[i].key /\ batch[j].mat = m
    OBVIOUS
  <2>1. M[i] = Mats(Same(batch, box[i].key))
    BY <1>7
  <2> QED
    BY <2>1, SameParts
<1>9. /\ \A m : m \in Inherited(batch, box) <=> \E i \in 1..z : box[i].mat = 0 /\ m \in M[i]
      /\ \A m : m \in Replaced(batch, box) <=> \E i \in 1..z : box[i].mat # 0 /\ m \in M[i]
  BY <1>1, <1>7 DEF Inherited, Replaced
<1>10. \A k : k \in NewerKeys(box) <=> k # NoKey /\ \E i \in 1..z : box[i].key = k
  BY <1>1 DEF NewerKeys
<1>11. ASSUME NEW m
       PROVE  m \in Mats(Picked(batch, J)) <=> m \in Inherited(batch, box) \cup Replaced(batch, box)
  <2>1. ASSUME m \in Mats(Picked(batch, J))
        PROVE  m \in Inherited(batch, box) \cup Replaced(batch, box)
    <3>1. PICK j \in J : m # 0 /\ batch[j].mat = m
      BY <1>5, <2>1
    <3>2. j \in DOMAIN batch /\ batch[j].key \in NewerKeys(box)
      BY <1>3
    <3>3. PICK i \in 1..z : box[i].key = batch[j].key /\ box[i].key # NoKey
      BY <1>10, <3>2
    <3>4. m \in M[i]
      BY <1>8, <3>1, <3>2, <3>3
    <3> QED
      BY <1>9, <3>4
  <2>2. ASSUME m \in Inherited(batch, box) \cup Replaced(batch, box)
        PROVE  m \in Mats(Picked(batch, J))
    <3>1. PICK i \in 1..z : m \in M[i]
      BY <1>9, <2>2
    <3>2. PICK j \in DOMAIN batch : /\ batch[j].key = box[i].key /\ batch[j].mat = m
                                    /\ m # 0 /\ box[i].key # NoKey
      BY <1>8, <3>1
    <3>3. j \in J
      BY <1>3, <1>10, <3>2
    <3> QED
      BY <1>5, <3>2, <3>3
  <2> QED
    BY <2>1, <2>2
<1>12. ASSUME NEW m \in Inherited(batch, box), m \in Replaced(batch, box)
       PROVE  FALSE
  <2>1. PICK i \in 1..z : box[i].mat = 0 /\ m \in M[i]
    BY <1>9
  <2>2. PICK j \in 1..z : box[j].mat # 0 /\ m \in M[j]
    BY <1>9, <1>12
  <2>3. PICK d \in DOMAIN batch : /\ batch[d].key = box[i].key /\ batch[d].mat = m
                                  /\ m # 0 /\ box[i].key # NoKey
    BY <1>8, <2>1
  <2>4. PICK e \in DOMAIN batch : batch[e].key = box[j].key /\ batch[e].mat = m
    BY <1>8, <2>2
  <2>5. d = e
    BY <2>3, <2>4 DEF Sound, Distinct
  <2>6. i = j
    BY <1>1, <2>3, <2>4, <2>5 DEF Sound, OneEach
  <2> QED
    BY <2>1, <2>2, <2>6
<1>13. Mats(Picked(batch, J)) = Inherited(batch, box) \cup Replaced(batch, box)
  BY <1>11
<1> QED
  BY <1>4, <1>5, <1>6, <1>12, <1>13

(* restore conserves material: what the batch and the inbox held is in the *)
(* inbox or lost, and not both; the inbox stays within its bound.          *)
LEMMA RestoreConserves ==
    ASSUME NEW batch, Sound(batch), NEW box, Sound(box), Mats(box) \cap Mats(batch) = {}
    PROVE  LET got == Restored(batch, box)
           IN  /\ Sound(got.box) /\ Len(got.box) <= MaxPending
               /\ Parts(Mats(box) \cup Mats(batch), Mats(got.box), got.lost)
<1> DEFINE all  == Held(batch, box) \o Heirs(batch, box)
           over == IF Len(all) > MaxPending THEN Len(all) - MaxPending ELSE 0
           kept == SubSeq(all, over + 1, Len(all))
           left == SubSeq(all, 1, over)
<1>1. /\ Restored(batch, box).box = kept
      /\ Restored(batch, box).lost = Replaced(batch, box) \cup Mats(left)
  BY DEF Restored, Held, Heirs, Heir, Replaced, NewerKeys
<1>2. /\ Sound(Heirs(batch, box)) /\ DOMAIN Heirs(batch, box) = DOMAIN box
      /\ \A i \in DOMAIN box : Heirs(batch, box)[i].key = box[i].key
      /\ Mats(Heirs(batch, box)) = Mats(box) \cup Inherited(batch, box)
  BY HeirsSound
<1>3. /\ Sound(Held(batch, box))
      /\ \A k \in DOMAIN Held(batch, box) : Held(batch, box)[k].key \notin NewerKeys(box)
      /\ Parts(Mats(batch), Mats(Held(batch, box)), Inherited(batch, box) \cup Replaced(batch, box))
      /\ Inherited(batch, box) \cap Replaced(batch, box) = {}
  BY HeldParts
<1>4. \A i \in DOMAIN Held(batch, box), j \in DOMAIN Heirs(batch, box) :
         Held(batch, box)[i].key # NoKey => Held(batch, box)[i].key # Heirs(batch, box)[j].key
  BY <1>2, <1>3 DEF NewerKeys
<1>5. Mats(Held(batch, box)) \cap Mats(Heirs(batch, box)) = {}
  BY <1>2, <1>3 DEF Parts
<1>6. /\ Sound(all)
      /\ Mats(all) = Mats(Held(batch, box)) \cup Mats(Heirs(batch, box))
  BY <1>2, <1>3, <1>4, <1>5, ConcatSound
<1> HIDE DEF all
<1>7. Len(all) \in Nat /\ over \in 0..Len(all) /\ Len(all) - over <= MaxPending
  BY <1>6, SoundItems, BoundAssumption
<1> HIDE DEF over
<1>8. /\ Sound(kept) /\ Len(kept) = Len(all) - over
      /\ Parts(Mats(all), Mats(left), Mats(kept))
  BY <1>6, <1>7, CutParts
<1> HIDE DEF kept, left
<1>9. Parts(Mats(box) \cup Mats(batch), Mats(kept), Replaced(batch, box) \cup Mats(left))
  BY <1>2, <1>3, <1>6, <1>8 DEF Parts
<1> QED
  BY <1>1, <1>7, <1>8, <1>9

-----------------------------------------------------------------------------
(* The boxes are sound, hold no material twice and keep their bound; only  *)
(* a batch under decision is kept with the task.                           *)
Boxes ==
    /\ Sound(inbox) /\ Sound(eval.batch) /\ Len(inbox) <= MaxPending
    /\ Mats(inbox) \cap Mats(eval.batch) = {}
    /\ eval.pc # "policy" => eval.batch = <<>>

(* With the material R retained, of rev revisions, the mark is on a fact   *)
(* that is gone, and so are all others up to it and those told.            *)
Marked(R, rev, mark, handed) ==
    /\ rev \in Nat /\ mark \in 0..rev
    /\ R \cup handed \subseteq 1..rev
    /\ \A r \in 1..rev : r \in R \/ r <= mark
    /\ mark \notin R
    /\ handed \cap R = {}

FactsInv == Boxes /\ Marked(Retained, revision, settled, expressed)

(* The marks stay true when what leaves is settled, and only what leaves   *)
(* is told.                                                                *)
LEMMA MarksMove ==
    ASSUME NEW R, NEW rev, NEW mark, NEW handed, Marked(R, rev, mark, handed),
           NEW N, NEW rev2,
           (N = {} /\ rev2 = rev) \/ (N = {rev + 1} /\ rev2 = rev + 1),
           NEW R2, NEW L, Parts(R \cup N, R2, L),
           NEW handed2, handed \subseteq handed2, handed2 \subseteq handed \cup L
    PROVE  Marked(R2, rev2, Largest(L \cup {mark}), handed2)
<1> DEFINE S == L \cup {mark}
<1>1. /\ rev \in Nat /\ mark \in 0..rev /\ rev2 \in Nat /\ rev <= rev2
      /\ R \cup handed \subseteq 1..rev
      /\ \A r \in 1..rev : r \in R \/ r <= mark
      /\ mark \notin R /\ handed \cap R = {}
  BY DEF Marked
<1>2. N \subseteq 1..rev2 /\ N \cap (1..rev) = {} /\ \A r \in 1..rev2 : r \in 1..rev \/ r \in N
  BY <1>1
<1>3. /\ \A m : m \in R \/ m \in N <=> m \in R2 \/ m \in L
      /\ \A m : ~(m \in R2 /\ m \in L)
  BY DEF Parts
<1>4. 1..rev \subseteq 1..rev2
  BY <1>1
<1>5. R2 \subseteq 1..rev2 /\ L \subseteq 1..rev2 /\ handed2 \subseteq 1..rev2
  BY <1>1, <1>2, <1>3, <1>4
<1>6. S \in SUBSET (0..rev2) /\ mark \in S /\ L \subseteq S
  BY <1>1, <1>5
<1> HIDE DEF S
<1>7. Largest(S) \in S /\ \A m \in S : m <= Largest(S)
  BY <1>1, <1>6, LargestIs
<1>8. Largest(S) \in 0..rev2
  BY <1>6, <1>7
<1>9. ASSUME NEW r \in 1..rev2
      PROVE  r \in R2 \/ r <= Largest(S)
  <2>1. CASE r \in 1..rev /\ r \notin R
    BY <1>1, <1>6, <1>7, <1>8, <2>1
  <2>2. CASE r \in R \/ r \in N
    BY <1>3, <1>6, <1>7, <2>2
  <2> QED
    BY <1>2, <2>1, <2>2
<1>10. mark \notin R2
  BY <1>1, <1>2, <1>3
<1>11. Largest(S) \notin R2
  BY <1>3, <1>7, <1>10 DEF S
<1>12. handed2 \cap R2 = {}
  BY <1>1, <1>2, <1>3
<1> QED
  BY <1>1, <1>5, <1>8, <1>9, <1>11, <1>12 DEF Marked, S

(* So every step that conserves the material keeps the facts accounted.    *)
LEMMA FactsMove ==
    ASSUME FactsInv, NEW N, NEW L, Settle(L),
           (N = {} /\ revision' = revision) \/ (N = {revision + 1} /\ revision' = revision + 1),
           Sound(inbox'), Sound(eval'.batch), Len(inbox') <= MaxPending,
           Mats(inbox') \cap Mats(eval'.batch) = {},
           eval'.pc # "policy" => eval'.batch = <<>>,
           Parts(Mats(inbox) \cup Mats(eval.batch) \cup N, Mats(inbox') \cup Mats(eval'.batch), L),
           expressed \subseteq expressed', expressed' \subseteq expressed \cup L
    PROVE  FactsInv'
<1>1. Marked(Retained, revision, settled, expressed)
  BY DEF FactsInv
<1>2. Parts(Retained \cup N, Retained', L)
  BY DEF Retained
<1>3. settled' = Largest(L \cup {settled})
  BY DEF Settle
<1>4. Marked(Retained', revision', settled', expressed')
  BY <1>1, <1>2, <1>3, MarksMove
<1>5. Boxes'
  BY DEF Boxes
<1> QED
  BY <1>4, <1>5 DEF FactsInv

(* Steps that leave boxes and marks alone.                                 *)
LEMMA FactsStay ==
    ASSUME FactsInv, UNCHANGED <<inbox, revision, settled, expressed>>,
           eval'.batch = eval.batch, eval'.pc # "policy" => eval'.batch = <<>>
    PROVE  FactsInv'
BY DEF FactsInv, Boxes, Retained

(* What the steps need of the boxes.                                       *)
LEMMA BoxesHold ==
    ASSUME FactsInv
    PROVE  /\ Sound(inbox) /\ Sound(eval.batch) /\ Len(inbox) <= MaxPending
           /\ Mats(inbox) \cap Mats(eval.batch) = {}
           /\ eval.pc # "policy" => eval.batch = <<>> /\ Mats(eval.batch) = {}
           /\ Mats(inbox) \subseteq 1..revision /\ Mats(eval.batch) \subseteq 1..revision
           /\ revision \in Nat
<1>1. /\ Retained \subseteq 1..revision /\ revision \in Nat
  BY DEF FactsInv, Marked
<1>2. Boxes
  BY DEF FactsInv
<1> QED
  BY <1>1, <1>2, EmptySound DEF Boxes, Retained

LEMMA EnsureKeeps ==
    ASSUME FactsInv, EnsureTask
    PROVE  eval'.batch = eval.batch /\ (eval'.pc # "policy" => eval'.batch = <<>>)
BY BoxesHold DEF EnsureTask, Alive, Debouncing

LEMMA EndKeeps ==
    ASSUME NEW box, NEW held, NEW at, TaskEnds(box, held, at)
    PROVE  eval'.batch = <<>> /\ eval'.pc # "policy"
BY DEF TaskEnds, Debouncing, NoTask

LEMMA SubmitFactFacts ==
    ASSUME FactsInv, NEW key \in Keys \cup {NoKey}, NEW changed \in BOOLEAN,
           NEW span \in {"lasting", "live"}, SubmitFact(key, changed, span)
    PROVE  FactsInv'
<1> DEFINE mat  == IF changed THEN revision + 1 ELSE 0
           item == [key |-> key, mat |-> mat, life |-> span]
           got  == Admitted(inbox, item)
           N    == {mat} \ {0}
<1>1. /\ inbox' = got.box /\ Settle(got.lost) /\ EnsureTask
      /\ revision' = (IF changed THEN revision + 1 ELSE revision)
      /\ expressed' = expressed
  BY DEF SubmitFact
<1>2. /\ Sound(inbox) /\ Sound(eval.batch) /\ Len(inbox) <= MaxPending
      /\ Mats(inbox) \cap Mats(eval.batch) = {}
      /\ Mats(inbox) \subseteq 1..revision /\ Mats(eval.batch) \subseteq 1..revision
      /\ revision \in Nat
  BY BoxesHold
<1>3. item \in Item /\ item.mat = mat
  BY <1>2 DEF Item
<1>4. /\ mat # 0 => mat \notin Mats(inbox)
      /\ mat # 0 => mat \notin Mats(eval.batch)
      /\ (N = {} /\ revision' = revision) \/ (N = {revision + 1} /\ revision' = revision + 1)
  BY <1>1, <1>2
<1> HIDE DEF mat, item
<1>5. /\ Sound(got.box) /\ Len(got.box) <= MaxPending
      /\ Parts(Mats(inbox) \cup N, Mats(got.box), got.lost)
  BY <1>2, <1>3, <1>4, AdmitConserves
<1> HIDE DEF got
<1>6. Mats(eval.batch) \cap (Mats(inbox) \cup N) = {}
  BY <1>2, <1>4
<1> HIDE DEF N
<1>7. /\ Parts(Mats(inbox) \cup Mats(eval.batch) \cup N, Mats(got.box) \cup Mats(eval.batch), got.lost)
      /\ Mats(got.box) \cap Mats(eval.batch) = {}
  BY <1>5, <1>6 DEF Parts
<1>8. eval'.batch = eval.batch /\ (eval'.pc # "policy" => eval'.batch = <<>>)
  BY <1>1, EnsureKeeps
<1>9. /\ Sound(inbox') /\ Sound(eval'.batch) /\ Len(inbox') <= MaxPending
      /\ Mats(inbox') \cap Mats(eval'.batch) = {}
      /\ Parts(Mats(inbox) \cup Mats(eval.batch) \cup N, Mats(inbox') \cup Mats(eval'.batch), got.lost)
  BY <1>1, <1>2, <1>5, <1>7, <1>8
<1>10. Settle(got.lost) /\ expressed \subseteq expressed' /\ expressed' \subseteq expressed \cup got.lost
  BY <1>1
<1> QED
  BY <1>4, <1>8, <1>9, <1>10, FactsMove

LEMMA SubmitHeartbeatFacts ==
    ASSUME FactsInv, SubmitHeartbeat
    PROVE  FactsInv'
<1> DEFINE item == [key |-> Heartbeat, mat |-> 0, life |-> "live"]
           got  == Admitted(inbox, item)
<1>1. /\ inbox' = got.box /\ Settle(got.lost)
      /\ revision' = revision /\ expressed' = expressed
      /\ eval' = eval \/ (~Alive /\ eval' = Debouncing)
  BY DEF SubmitHeartbeat
<1>2. /\ Sound(inbox) /\ Sound(eval.batch) /\ Len(inbox) <= MaxPending
      /\ Mats(inbox) \cap Mats(eval.batch) = {}
      /\ eval.pc # "policy" => eval.batch = <<>>
  BY BoxesHold
<1>3. item \in Item /\ item.mat = 0
  BY DEF Item
<1> HIDE DEF item
<1>4. /\ Sound(got.box) /\ Len(got.box) <= MaxPending
      /\ Parts(Mats(inbox) \cup ({item.mat} \ {0}), Mats(got.box), got.lost)
  BY <1>2, <1>3, AdmitConserves
<1> HIDE DEF got
<1>5. {item.mat} \ {0} = {}
  BY <1>3
<1>6. Parts(Mats(inbox) \cup {}, Mats(got.box), got.lost) /\ Mats(eval.batch) \cap (Mats(inbox) \cup {}) = {}
  BY <1>2, <1>4, <1>5
<1>7. /\ Parts(Mats(inbox) \cup Mats(eval.batch) \cup {}, Mats(got.box) \cup Mats(eval.batch), got.lost)
      /\ Mats(got.box) \cap Mats(eval.batch) = {}
  BY <1>6 DEF Parts
<1>8. eval'.batch = eval.batch /\ (eval'.pc # "policy" => eval'.batch = <<>>)
  BY <1>1, <1>2 DEF Alive, Debouncing
<1>9. /\ Sound(inbox') /\ Sound(eval'.batch) /\ Len(inbox') <= MaxPending
      /\ Mats(inbox') \cap Mats(eval'.batch) = {}
      /\ Parts(Mats(inbox) \cup Mats(eval.batch) \cup {}, Mats(inbox') \cup Mats(eval'.batch), got.lost)
  BY <1>1, <1>2, <1>4, <1>7, <1>8
<1>10. Settle(got.lost) /\ expressed \subseteq expressed' /\ expressed' \subseteq expressed \cup got.lost
  BY <1>1
<1> QED
  BY <1>1, <1>8, <1>9, <1>10, FactsMove

LEMMA SubmitExpiredFacts ==
    ASSUME FactsInv, SubmitExpired
    PROVE  FactsInv'
<1>1. /\ inbox' = Live(inbox) /\ Settle(Mats(Expired(inbox)))
      /\ revision' = revision /\ expressed' = expressed /\ eval' = eval
  BY DEF SubmitExpired
<1>2. /\ Sound(inbox) /\ Sound(eval.batch) /\ Len(inbox) <= MaxPending
      /\ Mats(inbox) \cap Mats(eval.batch) = {}
      /\ eval.pc # "policy" => eval.batch = <<>>
  BY BoxesHold
<1>3. /\ Sound(Live(inbox)) /\ Len(Live(inbox)) <= Len(inbox)
      /\ Parts(Mats(inbox), Mats(Live(inbox)), Mats(Expired(inbox)))
  BY <1>2, LiveParts
<1>4. Len(inbox) \in Nat /\ Len(Live(inbox)) \in Nat /\ MaxPending \in Nat
  BY <1>2, <1>3, SoundItems, BoundAssumption
<1>5. Len(Live(inbox)) <= MaxPending
  BY <1>2, <1>3, <1>4
<1>6. /\ Parts(Mats(inbox) \cup Mats(eval.batch) \cup {},
               Mats(Live(inbox)) \cup Mats(eval.batch), Mats(Expired(inbox)))
      /\ Mats(Live(inbox)) \cap Mats(eval.batch) = {}
  BY <1>2, <1>3 DEF Parts
<1> DEFINE L == Mats(Expired(inbox))
<1>7. /\ Sound(inbox') /\ Sound(eval'.batch) /\ Len(inbox') <= MaxPending
      /\ Mats(inbox') \cap Mats(eval'.batch) = {}
      /\ eval'.pc # "policy" => eval'.batch = <<>>
      /\ Parts(Mats(inbox) \cup Mats(eval.batch) \cup {}, Mats(inbox') \cup Mats(eval'.batch), L)
  BY <1>1, <1>2, <1>3, <1>5, <1>6
<1>8. Settle(L) /\ expressed \subseteq expressed' /\ expressed' \subseteq expressed \cup L
  BY <1>1
<1> HIDE DEF L
<1> QED
  BY <1>1, <1>7, <1>8, FactsMove

LEMMA ExpireFacts ==
    ASSUME Shape, FactsInv, Expire
    PROVE  FactsInv'
<1>1. /\ Sound(inbox) /\ Sound(eval.batch) /\ Len(inbox) <= MaxPending
      /\ Mats(inbox) \cap Mats(eval.batch) = {}
      /\ eval.pc # "policy" => eval.batch = <<>>
  BY BoxesHold
<1> DEFINE SameFacts ==
              /\ Sound(inbox') /\ Len(inbox') = Len(inbox) /\ Mats(inbox') = Mats(inbox)
              /\ Sound(eval'.batch) /\ Mats(eval'.batch) = Mats(eval.batch)
              /\ eval'.pc # "policy" => eval'.batch = <<>>
<1>2. SameFacts
  <2>1. ASSUME NEW i \in DOMAIN inbox, inbox' = [inbox EXCEPT ![i].life = "expired"], UNCHANGED eval
        PROVE  SameFacts
    BY <1>1, <2>1, ExpireSound
  <2>2. ASSUME NEW i \in DOMAIN eval.batch, UNCHANGED inbox,
               eval' = [eval EXCEPT !.batch[i].life = "expired"]
        PROVE  SameFacts
    <3>1. eval'.batch = [eval.batch EXCEPT ![i].life = "expired"] /\ eval'.pc = eval.pc
      BY <2>2 DEF Shape
    <3>2. eval.pc = "policy"
      BY <1>1
    <3> QED
      BY <1>1, <2>2, <3>1, <3>2, ExpireSound
  <2> QED
    BY <2>1, <2>2 DEF Expire
<1>3. revision' = revision /\ settled' = settled /\ expressed' = expressed
  BY DEF Expire
<1>4. Retained' = Retained
  BY <1>2 DEF Retained
<1>5. Boxes'
  BY <1>1, <1>2 DEF Boxes
<1> QED
  BY <1>3, <1>4, <1>5 DEF FactsInv

(* The drain: expired items leave, the others are the batch.               *)
LEMMA DrainIs ==
    ASSUME FactsInv, Closes
    PROVE  /\ Sound(Batch) /\ Len(Batch) <= MaxPending
           /\ Parts(Mats(inbox), Mats(Batch), Mats(Expired(inbox)))
           /\ eval.batch = <<>> /\ Mats(eval.batch) = {}
           /\ revision' = revision /\ expressed' = expressed
<1>1. /\ Sound(inbox) /\ Len(inbox) <= MaxPending
      /\ eval.batch = <<>> /\ Mats(eval.batch) = {}
  BY BoxesHold, EmptySound DEF Closes
<1>2. /\ Sound(Batch) /\ Len(Batch) <= Len(inbox)
      /\ Parts(Mats(inbox), Mats(Batch), Mats(Expired(inbox)))
  BY <1>1, LiveParts DEF Batch
<1>3. Len(inbox) \in Nat /\ Len(Batch) \in Nat /\ MaxPending \in Nat
  BY <1>1, <1>2, SoundItems, BoundAssumption
<1> QED
  BY <1>1, <1>2, <1>3 DEF Closes

(* The whole batch leaves, or goes back to the inbox.                      *)
LEMMA DrainedFacts ==
    ASSUME FactsInv, Closes, inbox' = <<>>, eval'.batch = <<>>, eval'.pc # "policy",
           Settle(Mats(Expired(inbox)) \cup Mats(Batch))
    PROVE  FactsInv'
<1> DEFINE L == Mats(Expired(inbox)) \cup Mats(Batch)
<1>1. /\ Parts(Mats(inbox), Mats(Batch), Mats(Expired(inbox)))
      /\ Mats(eval.batch) = {} /\ revision' = revision /\ expressed' = expressed
  BY DrainIs
<1>2. /\ Sound(inbox') /\ Mats(inbox') = {} /\ Sound(eval'.batch) /\ Mats(eval'.batch) = {}
      /\ Len(inbox') <= MaxPending
  BY EmptySound, BoundAssumption
<1>3. Parts(Mats(inbox) \cup Mats(eval.batch) \cup {}, Mats(inbox') \cup Mats(eval'.batch), L)
  BY <1>1, <1>2 DEF Parts
<1>4. Settle(L) /\ expressed \subseteq expressed' /\ expressed' \subseteq expressed \cup L
  BY <1>1
<1> HIDE DEF L
<1> QED
  BY <1>1, <1>2, <1>3, <1>4, FactsMove

LEMMA BatchEmptyFacts == ASSUME FactsInv, BatchEmpty PROVE FactsInv'
<1>1. /\ Closes /\ inbox' = <<>> /\ Batch = <<>> /\ Settle(Mats(Expired(inbox)))
      /\ TaskEnds(<<>>, FALSE, FALSE)
  BY DEF BatchEmpty
<1>2. eval'.batch = <<>> /\ eval'.pc # "policy"
  BY <1>1, EndKeeps
<1>3. Mats(Expired(inbox)) \cup Mats(Batch) = Mats(Expired(inbox))
  BY <1>1, EmptySound
<1> QED
  BY <1>1, <1>2, <1>3, DrainedFacts

LEMMA GateRejectsFacts == ASSUME FactsInv, GateRejects PROVE FactsInv'
<1>1. /\ Closes /\ inbox' = <<>> /\ Settle(Mats(Expired(inbox)) \cup Mats(Batch))
      /\ TaskEnds(<<>>, FALSE, FALSE)
  BY DEF GateRejects
<1>2. eval'.batch = <<>> /\ eval'.pc # "policy"
  BY <1>1, EndKeeps
<1> QED
  BY <1>1, <1>2, DrainedFacts

LEMMA HeldFacts ==
    ASSUME FactsInv, Closes, inbox' = Restored(Batch, <<>>).box,
           Settle(Mats(Expired(inbox)) \cup Restored(Batch, <<>>).lost),
           eval'.batch = <<>>, eval'.pc # "policy"
    PROVE  FactsInv'
<1> DEFINE back == Restored(Batch, <<>>)
           L    == Mats(Expired(inbox)) \cup back.lost
<1>1. /\ Sound(Batch) /\ Parts(Mats(inbox), Mats(Batch), Mats(Expired(inbox)))
      /\ Mats(eval.batch) = {} /\ revision' = revision /\ expressed' = expressed
  BY DrainIs
<1>2. /\ Sound(back.box) /\ Len(back.box) <= MaxPending
      /\ Parts(Mats(<<>>) \cup Mats(Batch), Mats(back.box), back.lost)
  BY <1>1, EmptySound, RestoreConserves
<1> HIDE DEF back
<1>3. /\ Sound(inbox') /\ Len(inbox') <= MaxPending /\ Mats(inbox') = Mats(back.box)
      /\ Sound(eval'.batch) /\ Mats(eval'.batch) = {}
  BY <1>2, EmptySound DEF back
<1>4. Parts(Mats(inbox) \cup Mats(eval.batch) \cup {}, Mats(inbox') \cup Mats(eval'.batch), L)
  BY <1>1, <1>2, <1>3, EmptySound DEF Parts
<1>5. Settle(L) /\ expressed \subseteq expressed' /\ expressed' \subseteq expressed \cup L
  BY <1>1 DEF back
<1> HIDE DEF L
<1> QED
  BY <1>1, <1>3, <1>4, <1>5, FactsMove

LEMMA GateHoldsFacts == ASSUME FactsInv, GateHolds \/ GateHoldsBusy PROVE FactsInv'
<1>1. /\ Closes /\ inbox' = Restored(Batch, <<>>).box
      /\ Settle(Mats(Expired(inbox)) \cup Restored(Batch, <<>>).lost)
      /\ \/ TaskEnds(Restored(Batch, <<>>).box, TRUE, TRUE)
         \/ TaskEnds(Restored(Batch, <<>>).box, TRUE, FALSE)
  BY DEF GateHolds, GateHoldsBusy
<1>2. eval'.batch = <<>> /\ eval'.pc # "policy"
  BY <1>1, EndKeeps
<1> QED
  BY <1>1, <1>2, HeldFacts

LEMMA GateAcceptsFacts == ASSUME FactsInv, GateAccepts PROVE FactsInv'
<1> DEFINE L == Mats(Expired(inbox))
<1>1. /\ Closes /\ inbox' = <<>> /\ Settle(L) /\ eval' = [pc |-> "policy", batch |-> Batch]
  BY DEF GateAccepts
<1>2. /\ Sound(Batch) /\ Parts(Mats(inbox), Mats(Batch), L)
      /\ Mats(eval.batch) = {} /\ revision' = revision /\ expressed' = expressed
  BY <1>1, DrainIs
<1> HIDE DEF L
<1>3. /\ Sound(inbox') /\ Len(inbox') <= MaxPending /\ Mats(inbox') = {}
      /\ eval'.pc = "policy" /\ eval'.batch = Batch
  BY <1>1, EmptySound, BoundAssumption
<1>4. Parts(Mats(inbox) \cup Mats(eval.batch) \cup {}, Mats(inbox') \cup Mats(eval'.batch), L)
  BY <1>2, <1>3 DEF Parts
<1>5. Sound(eval'.batch) /\ Mats(inbox') \cap Mats(eval'.batch) = {}
  BY <1>2, <1>3
<1>6. expressed \subseteq expressed' /\ expressed' \subseteq expressed \cup L
  BY <1>2
<1> QED
  BY <1>1, <1>2, <1>3, <1>4, <1>5, <1>6, FactsMove

(* The decision settles the batch, whether it tells it or not.             *)
LEMMA DecidedFacts ==
    ASSUME FactsInv, eval.pc = "policy", Settle(Mats(eval.batch)),
           inbox' = inbox, revision' = revision,
           expressed' = expressed \/ expressed' = expressed \cup Mats(eval.batch),
           eval'.batch = <<>>
    PROVE  FactsInv'
<1> DEFINE L == Mats(eval.batch)
<1>1. Sound(inbox) /\ Len(inbox) <= MaxPending /\ Mats(inbox) \cap L = {}
  BY BoxesHold
<1>2. Sound(inbox') /\ Len(inbox') <= MaxPending /\ Sound(eval'.batch) /\ Mats(eval'.batch) = {}
  BY <1>1, EmptySound
<1>3. Parts(Mats(inbox) \cup L \cup {}, Mats(inbox') \cup Mats(eval'.batch), L)
  BY <1>1, <1>2 DEF Parts
<1>4. Settle(L) /\ expressed \subseteq expressed' /\ expressed' \subseteq expressed \cup L
  OBVIOUS
<1>5. Mats(inbox') \cap Mats(eval'.batch) = {}
  BY <1>2
<1> QED
  BY <1>2, <1>3, <1>4, <1>5, FactsMove

LEMMA PolicyDefersFacts == ASSUME FactsInv, PolicyDefers PROVE FactsInv'
<1> DEFINE back == Restored(eval.batch, inbox)
           L    == back.lost
<1>1. /\ inbox' = back.box /\ Settle(L) /\ eval' = [pc |-> "saving", batch |-> <<>>]
      /\ revision' = revision /\ expressed' = expressed
  BY DEF PolicyDefers
<1>2. Sound(inbox) /\ Sound(eval.batch) /\ Mats(inbox) \cap Mats(eval.batch) = {}
  BY BoxesHold
<1>3. /\ Sound(back.box) /\ Len(back.box) <= MaxPending
      /\ Parts(Mats(inbox) \cup Mats(eval.batch), Mats(back.box), L)
  BY <1>2, RestoreConserves
<1> HIDE DEF L, back
<1>4. /\ Sound(inbox') /\ Len(inbox') <= MaxPending /\ Mats(inbox') = Mats(back.box)
      /\ eval'.pc = "saving" /\ eval'.batch = <<>>
      /\ Sound(eval'.batch) /\ Mats(eval'.batch) = {}
  BY <1>1, <1>3, EmptySound
<1>5. Parts(Mats(inbox) \cup Mats(eval.batch) \cup {}, Mats(inbox') \cup Mats(eval'.batch), L)
  BY <1>3, <1>4 DEF Parts
<1>6. expressed \subseteq expressed' /\ expressed' \subseteq expressed \cup L
  BY <1>1
<1>7. Mats(inbox') \cap Mats(eval'.batch) = {}
  BY <1>4
<1> QED
  BY <1>1, <1>4, <1>5, <1>6, <1>7, FactsMove

LEMMA TaskFacts == ASSUME Shape, FactsInv, TaskStep PROVE FactsInv'
<1>1. eval.pc # "policy" => eval.batch = <<>>
  BY BoxesHold
<1>2. CASE BatchEmpty
  BY <1>2, BatchEmptyFacts
<1>3. CASE GateRejects
  BY <1>3, GateRejectsFacts
<1>4. CASE GateHolds \/ GateHoldsBusy
  BY <1>4, GateHoldsFacts
<1>5. CASE GateAccepts
  BY <1>5, GateAcceptsFacts
<1>6. CASE PolicySettles
  <2>1. eval'.batch = <<>>
    BY <1>6, EndKeeps DEF PolicySettles
  <2> QED
    BY <1>6, <2>1, DecidedFacts DEF PolicySettles
<1>7. CASE PolicyDefers
  BY <1>7, PolicyDefersFacts
<1>8. CASE PolicyExpresses
  <2>1. eval'.batch = <<>>
    BY <1>8 DEF PolicyExpresses
  <2> QED
    BY <1>8, <2>1, DecidedFacts DEF PolicyExpresses
<1>9. CASE DeferralSaved \/ HandlerEnds
  <2>1. eval.batch = <<>>
    BY <1>1, <1>9 DEF DeferralSaved, HandlerEnds
  <2>2. eval'.batch = <<>>
    BY <1>9, EndKeeps DEF DeferralSaved, HandlerEnds
  <2> QED
    BY <1>9, <2>1, <2>2, FactsStay DEF DeferralSaved, HandlerEnds
<1>10. CASE ActionBinds \/ ActionSettles
  <2>1. eval'.batch = eval.batch /\ eval.batch = <<>>
    BY <1>1, <1>10 DEF ActionBinds, ActionSettles, Shape
  <2> QED
    BY <1>10, <2>1, FactsStay DEF ActionBinds, ActionSettles
<1> QED
  BY <1>2, <1>3, <1>4, <1>5, <1>6, <1>7, <1>8, <1>9, <1>10 DEF TaskStep

LEMMA InitFacts == IntakeInit => FactsInv
<1> SUFFICES ASSUME IntakeInit
             PROVE  FactsInv
  OBVIOUS
<1>1. /\ inbox = <<>> /\ eval.batch = <<>> /\ revision = 0 /\ settled = 0 /\ expressed = {}
  BY DEF IntakeInit, NoTask
<1>2. Boxes
  BY <1>1, EmptySound, BoundAssumption DEF Boxes
<1>3. Retained = {}
  BY <1>1, EmptySound DEF Retained
<1>4. Marked(Retained, revision, settled, expressed)
  BY <1>1, <1>3 DEF Marked
<1> QED
  BY <1>2, <1>4 DEF FactsInv

LEMMA StepFacts == Shape /\ FactsInv /\ [IntakeNext]_intakeVars => FactsInv'
<1> SUFFICES ASSUME Shape, FactsInv, [IntakeNext]_intakeVars
             PROVE  FactsInv'
  OBVIOUS
<1>1. ASSUME NEW key \in Keys \cup {NoKey}, NEW changed \in BOOLEAN,
             NEW span \in {"lasting", "live"}, SubmitFact(key, changed, span)
      PROVE  FactsInv'
  BY <1>1, SubmitFactFacts
<1>2. CASE SubmitExpired \/ SubmitHeartbeat \/ Expire
  BY <1>2, SubmitExpiredFacts, SubmitHeartbeatFacts, ExpireFacts
<1>3. CASE TurnBinds
  BY <1>3, BoxesHold, FactsStay DEF TurnBinds
<1>4. CASE TurnSettles
  <2>1. EnsureTask \/ eval' = eval
    BY <1>4 DEF TurnSettles, TurnSettled
  <2>2. eval'.batch = eval.batch /\ (eval'.pc # "policy" => eval'.batch = <<>>)
    BY <2>1, EnsureKeeps, BoxesHold
  <2> QED
    BY <1>4, <2>2, FactsStay DEF TurnSettles
<1>5. CASE WakeFires
  <2>1. EnsureTask \/ eval' = eval
    BY <1>5 DEF WakeFires
  <2>2. eval'.batch = eval.batch /\ (eval'.pc # "policy" => eval'.batch = <<>>)
    BY <2>1, EnsureKeeps, BoxesHold
  <2> QED
    BY <1>5, <2>2, FactsStay DEF WakeFires
<1>6. CASE TaskStep
  BY <1>6, TaskFacts
<1>7. CASE UNCHANGED intakeVars
  BY <1>7, BoxesHold, FactsStay DEF intakeVars
<1> QED
  BY <1>1, <1>2, <1>3, <1>4, <1>5, <1>6, <1>7 DEF IntakeNext

LEMMA SpecFacts == IntakeSpec => []FactsInv
<1>1. IntakeSpec => []IInv
  BY InitIInv, StepIInv, PTL DEF IntakeSpec
<1>2. IInv => Shape
  BY DEF IInv
<1> QED
  BY <1>1, <1>2, InitFacts, StepFacts, PTL DEF IntakeSpec

(* Material that is neither pending nor being decided has been settled,    *)
(* whichever way it left: for any inbox bound, identities and number of    *)
(* facts, and any interleaving of arrivals, turns and the evaluation task. *)
THEOREM FactsAreAccounted == IntakeSpec => []EveryFactAccounted
<1>1. FactsInv => EveryFactAccounted
  BY DEF FactsInv, Marked, EveryFactAccounted
<1> QED
  BY <1>1, SpecFacts, PTL

(* What was handed to the action handler never returns to the inbox or to  *)
(* a batch, so _evaluate_observations cannot have it expressed again.      *)
THEOREM ToldAtMostOnce == IntakeSpec => []ToldOnce
<1>1. FactsInv => ToldOnce
  BY DEF FactsInv, Marked, ToldOnce
<1> QED
  BY <1>1, SpecFacts, PTL

(* last_settled_material_revision names a fact that is gone, so the newest *)
(* fact is new to the gate as long as it is retained.                      *)
THEOREM MarkNamesGone == IntakeSpec => []SettledIsGone
<1>1. FactsInv => SettledIsGone
  BY DEF FactsInv, Marked, SettledIsGone
<1> QED
  BY <1>1, SpecFacts, PTL

(* What else the variables may be.                                         *)
Rest ==
    /\ known \subseteq Keys
    /\ revision \in 0..MaxRevision
    /\ bound \in 0..MaxTurns

LEMMA StepRest == Shape /\ Rest /\ [IntakeNext]_intakeVars => Rest'
<1> SUFFICES ASSUME Shape, Rest, [IntakeNext]_intakeVars
             PROVE  Rest'
  OBVIOUS
<1> USE BoundAssumption DEF Rest
<1>1. ASSUME NEW key \in Keys \cup {NoKey}, NEW changed \in BOOLEAN, NEW span,
             SubmitFact(key, changed, span)
      PROVE  Rest'
  BY <1>1 DEF SubmitFact
<1>2. CASE SubmitExpired \/ SubmitHeartbeat \/ Expire \/ WakeFires
  BY <1>2 DEF SubmitExpired, SubmitHeartbeat, Expire, WakeFires
<1>3. CASE TurnBinds
  BY <1>3 DEF TurnBinds
<1>4. CASE TurnSettles
  BY <1>4 DEF TurnSettles, TurnSettled
<1>5. CASE TaskStep
  <2>1. CASE ActionBinds
    BY <2>1 DEF ActionBinds
  <2>2. CASE ActionSettles
    <3>1. bound > 0
      BY <2>2 DEF ActionSettles, Shape
    <3> QED
      BY <2>2, <3>1 DEF ActionSettles
  <2> QED
    BY <1>5, <2>1, <2>2
       DEF TaskStep, BatchEmpty, GateRejects, GateHolds, GateHoldsBusy, GateAccepts, Closes,
           PolicySettles, PolicyDefers, DeferralSaved, PolicyExpresses, HandlerEnds
<1>6. CASE UNCHANGED intakeVars
  BY <1>6 DEF intakeVars
<1> QED
  BY <1>1, <1>2, <1>3, <1>4, <1>5, <1>6 DEF IntakeNext

(* Type correctness; the inbox keeps its bound, also when a batch is put   *)
(* back in front of what arrived meanwhile, and one item per identity.     *)
THEOREM IntakeTyped == IntakeSpec => []IntakeTypeOK
<1>1. IntakeSpec => []IInv
  BY InitIInv, StepIInv, PTL DEF IntakeSpec
<1>2. IInv => Shape
  BY DEF IInv
<1>3. IntakeInit => Rest
  BY BoundAssumption DEF IntakeInit, Rest
<1>4. IntakeSpec => []Rest
  BY <1>1, <1>2, <1>3, StepRest, PTL DEF IntakeSpec
<1>5. Shape /\ Rest /\ FactsInv => IntakeTypeOK
  <2> SUFFICES ASSUME Shape, Rest, FactsInv
               PROVE  IntakeTypeOK
    OBVIOUS
  <2>1. /\ inbox \in Seq(Item) /\ eval.batch \in Seq(Item)
        /\ Len(inbox) <= MaxPending /\ OneEach(inbox)
    BY BoxesHold DEF Sound
  <2>2. settled \in 0..revision /\ expressed \subseteq 1..revision
    BY DEF FactsInv, Marked
  <2>3. eval \in [pc : Pcs, batch : Seq(Item)]
    BY <2>1 DEF Shape
  <2> QED
    BY <2>1, <2>2, <2>3 DEF Shape, Rest, OneEach, IntakeTypeOK
<1> QED
  BY <1>1, <1>2, <1>4, <1>5, SpecFacts, PTL

=============================================================================
