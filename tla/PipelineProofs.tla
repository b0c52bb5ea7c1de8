--------------------------- MODULE PipelineProofs ---------------------------
(***************************************************************************)
(* Proofs about the pipeline of a session's events, for every set of       *)
(* events, every number of handlers and of results: no result is shown     *)
(* twice or out of order, a bus that has stopped is quiet, and a stopped   *)
(* event starts nothing more.  Then about its rate limit, for every window *)
(* and every set of policies: no window holds more events than the limit   *)
(* of its last one allows, and no event is discarded without reason.       *)
(***************************************************************************)
EXTENDS EventPipeline, RateLimit, FiniteSetTheorems, SequenceTheorems, TLAPS

(* The records of the model.                                               *)
FrameType == [at : DOMAIN Stages, gen : {"none", "run", "yield"}]

ResultType ==
    [kind : {"none", "notice", "plain", "stream", "finish", "drained"}, id : Nat]

Bodies == {"handlers", "handler", "failed", "agent", "answers", "stream", "streamed"}

EventType == [
    pc      : {"queued", "task", "run", "done", "lost"},
    stack   : Seq(FrameType),
    body    : Bodies,
    left    : 0 .. Handlers,
    result  : ResultType,
    stopped : BOOLEAN,
    reopen  : BOOLEAN,
    send    : BOOLEAN,
    over    : BOOLEAN,
    cancel  : BOOLEAN,
    made    : Nat,
    idle    : Nat,
    sent    : Seq(Nat),
    owed    : SUBSET Nat,
    cut     : BOOLEAN,
    reset   : Nat,
    halted  : BOOLEAN,
    worked  : BOOLEAN,
    blocked : BOOLEAN,
    passed  : BOOLEAN,
    late    : BOOLEAN]

-----------------------------------------------------------------------------
(* The inductive invariant, event by event.  Only the content check and    *)
(* the process stage are ever suspended at a yield, and what is under the  *)
(* top of the stack is.                                                    *)
Framed(x) ==
    \A i \in 1 .. Len(x.stack) :
        /\ i < Len(x.stack) => x.stack[i].gen = "yield"
        /\ x.stack[i].gen = "yield" => x.stack[i].at \in {2, 4}

(* Results are numbered as they are made; a stream is the agent's last.    *)
Numbered(x) ==
    /\ x.result.id <= x.made
    /\ \A i \in 1 .. Len(x.sent) : x.sent[i] <= x.made
    /\ x.result.kind \notin {"plain", "stream"} => x.result.id = 0
    /\ x.result.kind = "stream" => x.body = "streamed"

InOrder(x) ==
    \A i, j \in 1 .. Len(x.sent) :
        i < j /\ x.sent[i] # 0 /\ x.sent[j] # 0 => x.sent[i] < x.sent[j]

(* The result is none of those that have been shown;                       *)
Unshown(x) ==
    x.result.id = 0 \/ \A i \in 1 .. Len(x.sent) : x.sent[i] < x.result.id

(*   or nothing will show it again: it has just been handed over, it is    *)
(*   about to be replaced, or the event is stopped and on its way out.     *)
Behind(x) ==
    \/ x.stack = <<>>
    \/ Top(x).at = 6 /\ Top(x).gen = "run"
    \/ Top(x).at = 2 /\ Top(x).gen = "yield"
    \/ Top(x).at = 4 /\ Top(x).gen = "yield" /\ (x.stopped \/ x.body = "streamed")
    \/ Top(x).at \in {3, 5} /\ x.stopped

(* A stop is in force or put off, and it is put off only while a handler   *)
(* is suspended right under the stages that deliver its result.            *)
StopHeld(x) ==
    /\ x.halted => x.stopped \/ x.reopen
    /\ x.reopen /\ x.stack # <<>> =>
          /\ x.body = "handler"
          /\ \/ Top(x).at = 4 /\ Top(x).gen = "yield"
             \/ Top(x).at \in {5, 6} /\ Len(x.stack) > 1 /\ x.stack[Len(x.stack) - 1].at = 4

Sound(x) ==
    /\ Framed(x) /\ Numbered(x) /\ InOrder(x) /\ (Unshown(x) \/ Behind(x))
    /\ StopHeld(x) /\ ~x.worked

(* Events that have no task yet are fresh, and in one place.               *)
Waiting ==
    /\ \A e \in Events :
          ev[e].pc \in {"queued", "task"} => ev[e].sent = <<>> /\ ~ev[e].reopen
    /\ \A i, j \in 1 .. Len(queue) : queue[i] = queue[j] => i = j
    /\ \A i \in 1 .. Len(queue) : ev[queue[i]].pc = "queued"
    /\ taken # <<>> =>
          /\ ev[taken[1]].pc = "queued"
          /\ \A i \in 1 .. Len(queue) : queue[i] # taken[1]

Typed ==
    /\ queue \in Seq(Events) /\ taken \in {<<>>} \cup {<<e>> : e \in Events}
    /\ bus \in {"accepting", "stopping", "stopped"}
    /\ ev \in [Events -> EventType]

PipelineInv == Typed /\ Waiting /\ StoppedIsQuiet /\ \A e \in Events : Sound(ev[e])

-----------------------------------------------------------------------------
(* What a step leaves alone of an event.                                   *)
SameFrames(x, y) == y.pc = x.pc /\ y.stack = x.stack
SameWords(x, y) ==
    y.body = x.body /\ y.result = x.result /\ y.made = x.made /\ y.sent = x.sent
SameStops(x, y) ==
    /\ y.stopped = x.stopped /\ y.reopen = x.reopen
    /\ y.halted = x.halted /\ y.worked = x.worked

(* The marks the invariant does not speak of.                              *)
LEMMA Marked ==
    ASSUME NEW x \in EventType, NEW b \in BOOLEAN, NEW n \in Nat, NEW y,
           \/ y = [x EXCEPT !.cut = b]
           \/ y = [x EXCEPT !.blocked = b]
           \/ y = [x EXCEPT !.over = b]
           \/ y = [x EXCEPT !.cancel = b]
           \/ y = [x EXCEPT !.idle = n]
           \/ y = [x EXCEPT !.reset = n]
           \/ y = [x EXCEPT !.left = n] /\ n <= Handlers
    PROVE  y \in EventType /\ SameFrames(x, y) /\ SameWords(x, y) /\ SameStops(x, y)
<1>1. CASE y = [x EXCEPT !.cut = b]
  BY <1>1 DEF EventType, SameFrames, SameWords, SameStops
<1>2. CASE y = [x EXCEPT !.blocked = b]
  BY <1>2 DEF EventType, SameFrames, SameWords, SameStops
<1>3. CASE y = [x EXCEPT !.over = b]
  BY <1>3 DEF EventType, SameFrames, SameWords, SameStops
<1>4. CASE y = [x EXCEPT !.cancel = b]
  BY <1>4 DEF EventType, SameFrames, SameWords, SameStops
<1>5. CASE y = [x EXCEPT !.idle = n]
  BY <1>5 DEF EventType, SameFrames, SameWords, SameStops
<1>6. CASE y = [x EXCEPT !.reset = n]
  BY <1>6 DEF EventType, SameFrames, SameWords, SameStops
<1>7. CASE y = [x EXCEPT !.left = n] /\ n <= Handlers
  <2>1. n \in 0 .. Handlers
    BY <1>7, HandlersAssumption
  <2> QED
    BY <1>7, <2>1 DEF EventType, SameFrames, SameWords, SameStops
<1> QED
  BY <1>1, <1>2, <1>3, <1>4, <1>5, <1>6, <1>7

(* The stack, and with it what it says of stages called.                   *)
LEMMA Stacked ==
    ASSUME NEW x \in EventType, NEW s \in Seq(FrameType), NEW y,
           y = [x EXCEPT !.stack = s]
    PROVE  /\ y \in EventType /\ y.stack = s /\ y.pc = x.pc
           /\ SameWords(x, y) /\ SameStops(x, y)
BY DEF EventType, SameWords, SameStops

LEMMA StackedLate ==
    ASSUME NEW x \in EventType, NEW s \in Seq(FrameType)
    PROVE  LET y == [x EXCEPT !.stack = s, !.late = @ \/ x.stopped]
           IN  /\ y \in EventType /\ y.stack = s /\ y.pc = x.pc
               /\ SameWords(x, y) /\ SameStops(x, y)
BY DEF EventType, SameWords, SameStops

(* The flags of a stop.                                                    *)
LEMMA BooleanFlags ==
    ASSUME NEW x \in EventType
    PROVE  /\ x.stopped \in BOOLEAN /\ x.reopen \in BOOLEAN
           /\ x.halted \in BOOLEAN /\ x.worked \in BOOLEAN
BY DEF EventType

LEMMA ClosedFlags ==
    ASSUME NEW x \in EventType
    PROVE  LET y == [x EXCEPT !.stopped = @ \/ x.reopen, !.reopen = FALSE]
           IN  /\ y \in EventType /\ SameFrames(x, y) /\ SameWords(x, y)
               /\ y.stopped = (x.stopped \/ x.reopen) /\ ~y.reopen
               /\ y.halted = x.halted /\ y.worked = x.worked
BY DEF EventType, SameFrames, SameWords

LEMMA StoppedIs ==
    ASSUME NEW x \in EventType
    PROVE  /\ Stopped(x) \in EventType
           /\ SameFrames(x, Stopped(x)) /\ SameWords(x, Stopped(x))
           /\ Stopped(x).stopped /\ Stopped(x).halted
           /\ Stopped(x).reopen = x.reopen /\ Stopped(x).worked = x.worked
BY DEF Stopped, EventType, SameFrames, SameWords

(* A stage begins the work of its own: the flags it leaves.                 *)
LEMMA StartedTyped ==
    ASSUME NEW x \in EventType
    PROVE  [x EXCEPT !.worked = x.worked \/ x.halted, !.passed = x.passed \/ x.blocked]
               \in EventType
<1>1. /\ x.worked \in BOOLEAN /\ x.halted \in BOOLEAN
      /\ x.passed \in BOOLEAN /\ x.blocked \in BOOLEAN
  BY DEF EventType
<1>2. ASSUME NEW w \in BOOLEAN, NEW p \in BOOLEAN
      PROVE  [x EXCEPT !.worked = w, !.passed = p] \in EventType
  BY DEF EventType
<1>3. (x.worked \/ x.halted) \in BOOLEAN /\ (x.passed \/ x.blocked) \in BOOLEAN
  OBVIOUS
<1> QED
  BY <1>2, <1>3, Zenon

LEMMA StartedIs ==
    ASSUME NEW x \in EventType
    PROVE  /\ Started(x) \in EventType
           /\ SameFrames(x, Started(x)) /\ SameWords(x, Started(x))
           /\ Started(x).stopped = x.stopped /\ Started(x).reopen = x.reopen
           /\ Started(x).halted = x.halted /\ Started(x).worked = (x.worked \/ x.halted)
<1>1. /\ x.worked \in BOOLEAN /\ x.halted \in BOOLEAN
      /\ x.passed \in BOOLEAN /\ x.blocked \in BOOLEAN
  BY DEF EventType
<1>2. Started(x) \in EventType
  BY <1>1, StartedTyped DEF Started
<1>3. SameFrames(x, Started(x)) /\ SameWords(x, Started(x))
  BY DEF Started, EventType, SameFrames, SameWords
<1>4. /\ Started(x).stopped = x.stopped /\ Started(x).reopen = x.reopen
      /\ Started(x).halted = x.halted /\ Started(x).worked = (x.worked \/ x.halted)
  BY <1>1 DEF Started, EventType
<1> QED
  BY <1>2, <1>3, <1>4

(* Where the process stage is, and the result.                             *)
LEMMA Resulted ==
    ASSUME NEW x \in EventType, NEW r \in ResultType
    PROVE  LET y == [x EXCEPT !.result = r]
           IN  /\ y \in EventType /\ SameFrames(x, y) /\ SameStops(x, y)
               /\ y.body = x.body /\ y.result = r /\ y.made = x.made /\ y.sent = x.sent
BY DEF EventType, SameFrames, SameStops

LEMMA Placed ==
    ASSUME NEW x \in EventType, NEW b \in Bodies
    PROVE  LET y == [x EXCEPT !.body = b]
           IN  /\ y \in EventType /\ SameFrames(x, y) /\ SameStops(x, y)
               /\ y.body = b /\ y.result = x.result /\ y.made = x.made /\ y.sent = x.sent
BY DEF EventType, SameFrames, SameStops

LEMMA PlacedSilent ==
    ASSUME NEW x \in EventType, NEW b \in Bodies, NEW r \in ResultType
    PROVE  LET y == [x EXCEPT !.body = b, !.result = r]
           IN  /\ y \in EventType /\ SameFrames(x, y) /\ SameStops(x, y)
               /\ y.body = b /\ y.result = r /\ y.made = x.made /\ y.sent = x.sent
BY DEF EventType, SameFrames, SameStops

LEMMA MadeIs ==
    ASSUME NEW x \in EventType, NEW kind \in {"plain", "stream"}
    PROVE  LET y == Made(x, kind)
           IN  /\ y \in EventType /\ SameFrames(x, y) /\ SameStops(x, y)
               /\ y.body = x.body /\ y.sent = x.sent /\ y.made = x.made + 1
               /\ y.result = [kind |-> kind, id |-> x.made + 1]
<1>1. x.made \in Nat
  BY DEF EventType
<1>2. x.made + 1 \in Nat
  BY <1>1
<1>3. [kind |-> kind, id |-> x.made + 1] \in ResultType
  BY <1>2 DEF ResultType
<1> QED
  BY <1>2, <1>3 DEF Made, EventType, SameFrames, SameStops

LEMMA NoticesTyped == NoResult \in ResultType /\ Notice \in ResultType
BY DEF NoResult, Notice, ResultType

LEMMA FreshTyped ==
    /\ Fresh \in EventType /\ Fresh.pc = "queued" /\ Fresh.sent = <<>>
    /\ Fresh.stack = <<>> /\ ~Fresh.reopen /\ ~Fresh.halted /\ ~Fresh.worked
    /\ Fresh.result = NoResult /\ Fresh.made = 0
<1>1. 0 \in Nat /\ Handlers \in 0 .. Handlers
  BY HandlersAssumption
<1>2. /\ <<>> \in Seq(FrameType) /\ <<>> \in Seq(Nat) /\ NoResult \in ResultType
      /\ "handlers" \in Bodies /\ {} \in SUBSET Nat
  BY NoticesTyped DEF Bodies
<1> QED
  BY <1>1, <1>2 DEF Fresh, EventType

-----------------------------------------------------------------------------
(* The stack.                                                              *)
LEMMA StageNames ==
    /\ Len(Stages) = 6 /\ DOMAIN Stages = 1 .. 6
    /\ \A i \in 1 .. 6 :
          /\ Stages[i] = "front" <=> i = 1
          /\ Stages[i] = "safety" <=> i = 2
          /\ Stages[i] = "preprocess" <=> i = 3
          /\ Stages[i] = "process" <=> i = 4
          /\ Stages[i] = "decorate" <=> i = 5
          /\ Stages[i] = "respond" <=> i = 6
<1>1. Len(Stages) = 6 /\ DOMAIN Stages = 1 .. 6
  BY DEF Stages
<1>2. /\ Stages[1] = "front" /\ Stages[2] = "safety" /\ Stages[3] = "preprocess"
      /\ Stages[4] = "process" /\ Stages[5] = "decorate" /\ Stages[6] = "respond"
  BY DEF Stages
<1>3. \A i \in 1 .. 6 : i = 1 \/ i = 2 \/ i = 3 \/ i = 4 \/ i = 5 \/ i = 6
  OBVIOUS
<1> QED
  BY <1>1, <1>2, <1>3

LEMMA TopTyped ==
    ASSUME NEW x \in EventType, x.stack # <<>>
    PROVE  /\ x.stack \in Seq(FrameType) /\ Len(x.stack) \in Nat \ {0}
           /\ Top(x) \in FrameType /\ Top(x).at \in 1 .. 6
           /\ Top(x).gen \in {"none", "run", "yield"}
<1>1. x.stack \in Seq(FrameType)
  BY DEF EventType
<1>2. Len(x.stack) \in Nat \ {0}
  BY <1>1
<1>3. Top(x) \in FrameType
  BY <1>1, <1>2 DEF Top
<1> QED
  BY <1>1, <1>2, <1>3, StageNames DEF FrameType

(* The top is taken off, or another put in its place.                      *)
LEMMA FrontIs ==
    ASSUME NEW S, NEW s \in Seq(S), s # <<>>
    PROVE  /\ Front(s) \in Seq(S) /\ Len(Front(s)) = Len(s) - 1
           /\ \A i \in 1 .. Len(s) - 1 : Front(s)[i] = s[i]
<1>1. Len(s) \in Nat /\ Len(s) > 0
  OBVIOUS
<1> DEFINE n == Len(s) - 1
<1>2. n \in Nat /\ n <= Len(s) /\ 1 \in 1 .. Len(s) + 1
  BY <1>1
<1>3. /\ SubSeq(s, 1, n) \in Seq(S) /\ Len(SubSeq(s, 1, n)) = n
      /\ \A i \in 1 .. n : SubSeq(s, 1, n)[i] = s[i]
  <2>1. 1 \in Int /\ n \in Int /\ (\A i \in 1 .. n : s[i] \in S)
    BY <1>1, <1>2
  <2>2. /\ SubSeq(s, 1, n) \in Seq(S)
        /\ Len(SubSeq(s, 1, n)) = IF 1 <= n THEN n - 1 + 1 ELSE 0
        /\ \A i \in 1 .. n - 1 + 1 : SubSeq(s, 1, n)[i] = s[1 + i - 1]
    BY <2>1, SubSeqProperties
  <2> HIDE DEF n
  <2> QED
    BY <1>2, <2>2
<1> QED
  BY <1>3 DEF Front

LEMMA ReplacedIs ==
    ASSUME NEW S, NEW s \in Seq(S), s # <<>>, NEW f \in S
    PROVE  LET t == Append(Front(s), f)
           IN  /\ t \in Seq(S) /\ t # <<>> /\ Len(t) = Len(s) /\ t[Len(t)] = f
               /\ \A i \in 1 .. Len(s) - 1 : t[i] = s[i]
<1> DEFINE r == Front(s)
           t == Append(r, f)
<1>1. Len(s) \in Nat /\ Len(s) > 0
  OBVIOUS
<1>2. /\ r \in Seq(S) /\ Len(r) = Len(s) - 1
      /\ \A i \in 1 .. Len(s) - 1 : r[i] = s[i]
  BY FrontIs
<1> HIDE DEF r
<1>3. /\ t \in Seq(S) /\ Len(t) = Len(r) + 1 /\ t[Len(r) + 1] = f
      /\ \A i \in 1 .. Len(r) : t[i] = r[i]
  BY <1>2
<1> HIDE DEF t
<1>4. Len(t) = Len(s) /\ t # <<>>
  BY <1>1, <1>2, <1>3
<1>5. /\ t \in Seq(S) /\ t # <<>> /\ Len(t) = Len(s) /\ t[Len(t)] = f
      /\ \A i \in 1 .. Len(s) - 1 : t[i] = s[i]
  BY <1>1, <1>2, <1>3, <1>4
<1> QED
  BY <1>5 DEF r, t

(* A frame has returned to the stage under it, or the loop has gone on.    *)
Returned(x, y) ==
    \/ y.stack = <<>>
    \/ /\ y.stack # <<>> /\ Len(x.stack) > 1 /\ Top(y) = x.stack[Len(x.stack) - 1]
       /\ Top(y).gen = "yield" /\ Top(y).at \in {2, 4}

WentOn(x, y) ==
    /\ y.stack # <<>> /\ Top(x).at < 6
    /\ Top(y).at = Top(x).at + 1 /\ Top(y).gen = "none"
    /\ Len(y.stack) = Len(x.stack)
    /\ Len(x.stack) > 1 => y.stack[Len(x.stack) - 1] = x.stack[Len(x.stack) - 1]

LEMMA ReturnFramed ==
    ASSUME NEW x \in EventType, x.stack # <<>>, Framed(x),
           NEW y \in EventType, y.stack = Front(x.stack)
    PROVE  Framed(y) /\ Returned(x, y)
<1> DEFINE n == Len(x.stack)
<1>1. x.stack \in Seq(FrameType) /\ n \in Nat /\ n > 0
  BY TopTyped
<1>2. /\ y.stack \in Seq(FrameType) /\ Len(y.stack) = n - 1
      /\ \A i \in 1 .. n - 1 : y.stack[i] = x.stack[i]
  BY <1>1, FrontIs
<1> HIDE DEF n
<1>3. \A i \in 1 .. n : i < n => x.stack[i].gen = "yield" /\ x.stack[i].at \in {2, 4}
  BY DEF Framed, n
<1>4. \A i \in 1 .. n - 1 : y.stack[i].gen = "yield" /\ y.stack[i].at \in {2, 4}
  BY <1>1, <1>2, <1>3
<1>5. Framed(y)
  BY <1>1, <1>2, <1>4 DEF Framed
<1>6. CASE n = 1
  <2>1. Len(y.stack) = 0
    BY <1>2, <1>6
  <2>2. y.stack = <<>>
    BY <1>2, <2>1
  <2> QED
    BY <1>5, <2>2 DEF Returned
<1>7. CASE n > 1
  <2>1. Top(y) = y.stack[n - 1] /\ n - 1 \in 1 .. n - 1
    BY <1>1, <1>2, <1>7 DEF Top
  <2>2. y.stack # <<>>
    BY <1>1, <1>2, <1>7
  <2>3. Top(y) = x.stack[n - 1] /\ Top(y).gen = "yield" /\ Top(y).at \in {2, 4}
    BY <1>2, <1>4, <2>1
  <2> QED
    BY <1>5, <1>7, <2>2, <2>3 DEF Returned, n
<1> QED
  BY <1>1, <1>5, <1>6, <1>7

LEMMA ReplaceFramed ==
    ASSUME NEW x \in EventType, x.stack # <<>>, Framed(x),
           NEW f \in FrameType, f.gen = "yield" => f.at \in {2, 4},
           NEW y \in EventType, y.stack = Append(Front(x.stack), f)
    PROVE  /\ Framed(y) /\ y.stack # <<>> /\ Top(y) = f /\ Len(y.stack) = Len(x.stack)
           /\ Len(x.stack) > 1 => y.stack[Len(x.stack) - 1] = x.stack[Len(x.stack) - 1]
<1> DEFINE n == Len(x.stack)
<1>1. x.stack \in Seq(FrameType) /\ n \in Nat /\ n > 0
  BY TopTyped
<1>2. /\ y.stack # <<>> /\ Len(y.stack) = n /\ y.stack[n] = f
      /\ \A i \in 1 .. n - 1 : y.stack[i] = x.stack[i]
  BY <1>1, ReplacedIs
<1> HIDE DEF n
<1>3. \A i \in 1 .. n : i < n => x.stack[i].gen = "yield" /\ x.stack[i].at \in {2, 4}
  BY DEF Framed, n
<1>4. \A i \in 1 .. n : (i < n => y.stack[i].gen = "yield")
                         /\ (y.stack[i].gen = "yield" => y.stack[i].at \in {2, 4})
  <2> SUFFICES ASSUME NEW i \in 1 .. n
               PROVE  (i < n => y.stack[i].gen = "yield")
                         /\ (y.stack[i].gen = "yield" => y.stack[i].at \in {2, 4})
    OBVIOUS
  <2>1. CASE i = n
    BY <1>2, <2>1
  <2>2. CASE i < n
    <3>1. i \in 1 .. n - 1
      BY <1>1, <2>2
    <3> QED
      BY <1>2, <1>3, <2>2, <3>1
  <2>3. i = n \/ i < n
    BY <1>1
  <2> QED
    BY <2>1, <2>2, <2>3
<1>5. Framed(y)
  BY <1>2, <1>4 DEF Framed
<1>6. Top(y) = f
  BY <1>2 DEF Top
<1>7. n > 1 => y.stack[n - 1] = x.stack[n - 1]
  BY <1>1, <1>2
<1> QED
  BY <1>2, <1>5, <1>6, <1>7 DEF n

LEMMA OnwardIs ==
    ASSUME NEW x \in EventType, x.stack # <<>>, Framed(x)
    PROVE  /\ Onward(x) \in EventType /\ Framed(Onward(x)) /\ Onward(x).pc = x.pc
           /\ SameWords(x, Onward(x)) /\ SameStops(x, Onward(x))
           /\ \/ Returned(x, Onward(x)) /\ Top(x).at = 6
              \/ WentOn(x, Onward(x))
<1> DEFINE y == Onward(x)
<1>1. x.stack \in Seq(FrameType) /\ Top(x).at \in 1 .. 6
  BY TopTyped
<1>2. CASE Top(x).at = 6
  <2>1. y = [x EXCEPT !.stack = Front(x.stack)]
    BY <1>2, StageNames DEF Onward
  <2>2. Front(x.stack) \in Seq(FrameType)
    BY <1>1, FrontIs
  <2> HIDE DEF y
  <2>3. /\ y \in EventType /\ y.stack = Front(x.stack) /\ y.pc = x.pc
        /\ SameWords(x, y) /\ SameStops(x, y)
    BY <2>1, <2>2, Stacked
  <2>4. Framed(y) /\ Returned(x, y)
    BY <2>3, ReturnFramed
  <2> QED
    BY <1>2, <2>3, <2>4 DEF y
<1>3. CASE Top(x).at # 6
  <2> DEFINE f == Frame(Top(x).at + 1)
  <2>1. y = [x EXCEPT !.stack = Append(Front(x.stack), f), !.late = @ \/ x.stopped]
    BY <1>3, StageNames DEF Onward
  <2>2. /\ f \in FrameType /\ f.gen = "none" /\ f.at = Top(x).at + 1
    BY <1>1, <1>3, StageNames DEF Frame, FrameType
  <2> HIDE DEF y, f
  <2>3. Append(Front(x.stack), f) \in Seq(FrameType)
    BY <1>1, <2>2, ReplacedIs
  <2>4. /\ y \in EventType /\ y.stack = Append(Front(x.stack), f) /\ y.pc = x.pc
        /\ SameWords(x, y) /\ SameStops(x, y)
    <3> DEFINE s == Append(Front(x.stack), f)
               z == [x EXCEPT !.stack = s, !.late = @ \/ x.stopped]
    <3>1. y = z /\ s \in Seq(FrameType)
      BY <2>1, <2>3
    <3> HIDE DEF s
    <3>2. /\ z \in EventType /\ z.stack = s /\ z.pc = x.pc
          /\ SameWords(x, z) /\ SameStops(x, z)
      BY <3>1, StackedLate
    <3> HIDE DEF z
    <3>3. /\ y \in EventType /\ y.stack = s /\ y.pc = x.pc
          /\ SameWords(x, y) /\ SameStops(x, y)
      BY <3>1, <3>2
    <3> QED
      BY <3>3 DEF s
  <2>5. /\ Framed(y) /\ y.stack # <<>> /\ Top(y) = f /\ Len(y.stack) = Len(x.stack)
        /\ Len(x.stack) > 1 => y.stack[Len(x.stack) - 1] = x.stack[Len(x.stack) - 1]
    BY <2>2, <2>4, ReplaceFramed
  <2>6. WentOn(x, y)
    BY <1>1, <1>3, <2>2, <2>5 DEF WentOn
  <2> QED
    BY <2>4, <2>5, <2>6 DEF y
<1> QED
  BY <1>2, <1>3

LEMMA AfterIs ==
    ASSUME NEW x \in EventType, x.stack # <<>>, Framed(x)
    PROVE  /\ After(x) \in EventType /\ Framed(After(x)) /\ After(x).pc = x.pc
           /\ SameWords(x, After(x)) /\ SameStops(x, After(x))
           /\ \/ Returned(x, After(x)) /\ (x.stopped \/ Top(x).at = 6)
              \/ ~x.stopped /\ WentOn(x, After(x))
<1>1. CASE x.stopped
  <2> DEFINE y == [x EXCEPT !.stack = Front(x.stack)]
  <2>1. After(x) = y
    BY <1>1 DEF After
  <2>2. Front(x.stack) \in Seq(FrameType)
    BY TopTyped, FrontIs
  <2>3. /\ y \in EventType /\ y.stack = Front(x.stack) /\ y.pc = x.pc
        /\ SameWords(x, y) /\ SameStops(x, y)
    BY <2>2, Stacked
  <2> HIDE DEF y
  <2>4. Framed(y) /\ Returned(x, y)
    BY <2>3, ReturnFramed
  <2> QED
    BY <1>1, <2>1, <2>3, <2>4
<1>2. CASE ~x.stopped
  <2>1. After(x) = Onward(x)
    BY <1>2 DEF After
  <2> QED
    BY <1>2, <2>1, OnwardIs
<1> QED
  BY <1>1, <1>2

-----------------------------------------------------------------------------
(* What the stages do to the stack keeps an event sound.                   *)
Core(x) == Framed(x) /\ Numbered(x) /\ InOrder(x) /\ ~x.worked

LEMMA WordsKept ==
    ASSUME NEW x, NEW y, SameWords(x, y)
    PROVE  /\ Numbered(x) => Numbered(y)
           /\ InOrder(x) => InOrder(y)
           /\ Unshown(x) => Unshown(y)
BY DEF SameWords, Numbered, InOrder, Unshown

LEMMA AfterSound ==
    ASSUME NEW x \in EventType, x.stack # <<>>, Core(x), StopHeld(x),
           Top(x).at # 4, Top(x).gen # "yield",
           Unshown(x) \/ x.stopped \/ (Top(x).at = 6 /\ x.body = "streamed")
    PROVE  After(x) \in EventType /\ After(x).pc = x.pc /\ Sound(After(x))
<1> DEFINE y == After(x)
<1>1. /\ y \in EventType /\ Framed(y) /\ y.pc = x.pc
      /\ SameWords(x, y) /\ SameStops(x, y)
      /\ \/ Returned(x, y) /\ (x.stopped \/ Top(x).at = 6)
         \/ ~x.stopped /\ WentOn(x, y)
  BY AfterIs DEF Core
<1> HIDE DEF y
<1>2. Numbered(y) /\ InOrder(y) /\ (Unshown(x) => Unshown(y))
  BY <1>1, WordsKept DEF Core
<1>3. /\ y.stopped = x.stopped /\ y.reopen = x.reopen /\ y.halted = x.halted
      /\ ~y.worked /\ y.body = x.body
  BY <1>1 DEF SameStops, SameWords, Core
<1>4. Top(x).at \in 1 .. 6 /\ Len(x.stack) \in Nat \ {0}
  BY TopTyped
<1>5. Unshown(y) \/ Behind(y)
  <2>1. CASE Unshown(x)
    BY <1>2, <2>1
  <2>2. CASE Returned(x, y) /\ (x.stopped \/ x.body = "streamed")
    BY <1>3, <2>2 DEF Returned, Behind
  <2>3. WentOn(x, y) => Top(x).at # 6
    BY DEF WentOn
  <2> QED
    BY <1>1, <2>1, <2>2, <2>3
<1>6. StopHeld(y)
  <2>1. y.halted => y.stopped \/ y.reopen
    BY <1>3 DEF StopHeld
  <2>2. ASSUME y.reopen, y.stack # <<>>
        PROVE  /\ y.body = "handler"
               /\ \/ Top(y).at = 4 /\ Top(y).gen = "yield"
                  \/ /\ Top(y).at \in {5, 6} /\ Len(y.stack) > 1
                     /\ y.stack[Len(y.stack) - 1].at = 4
    <3>1. /\ x.body = "handler" /\ Top(x).at \in {5, 6} /\ Len(x.stack) > 1
          /\ x.stack[Len(x.stack) - 1].at = 4
      BY <1>3, <2>2 DEF StopHeld
    <3>2. CASE Returned(x, y)
      BY <1>3, <2>2, <3>1, <3>2 DEF Returned
    <3>3. CASE WentOn(x, y)
      BY <1>3, <1>4, <3>1, <3>3 DEF WentOn
    <3> QED
      BY <1>1, <3>2, <3>3
  <2> QED
    BY <2>1, <2>2 DEF StopHeld
<1>7. Sound(y)
  BY <1>1, <1>2, <1>3, <1>5, <1>6 DEF Sound
<1> QED
  BY <1>1, <1>7 DEF y

LEMMA ClosedSound ==
    ASSUME NEW x \in EventType, x.stack # <<>>, Core(x), Top(x).at \in {2, 4},
           x.halted => x.stopped \/ x.reopen,
           Unshown(x) \/ x.stopped
    PROVE  Closed(x) \in EventType /\ Closed(x).pc = x.pc /\ Sound(Closed(x))
<1> DEFINE z == [x EXCEPT !.stopped = @ \/ x.reopen, !.reopen = FALSE]
           y == Onward(z)
<1>1. /\ z \in EventType /\ SameFrames(x, z) /\ SameWords(x, z)
      /\ z.stopped = (x.stopped \/ x.reopen) /\ ~z.reopen
      /\ z.halted = x.halted /\ z.worked = x.worked
  BY ClosedFlags
<1>2. Closed(x) = y
  BY DEF Closed
<1> HIDE DEF z
<1>3. z.stack = x.stack /\ Top(z) = Top(x) /\ Framed(z) /\ z.pc = x.pc
  BY <1>1 DEF SameFrames, Top, Framed, Core
<1>4. /\ y \in EventType /\ Framed(y) /\ y.pc = x.pc
      /\ SameWords(z, y) /\ SameStops(z, y) /\ WentOn(z, y)
  <2>1. Top(z).at # 6
    BY <1>3
  <2> QED
    BY <1>1, <1>3, <2>1, OnwardIs
<1> HIDE DEF y
<1>5. Numbered(y) /\ InOrder(y) /\ (Unshown(x) => Unshown(y))
  <2>1. Numbered(z) /\ InOrder(z) /\ (Unshown(x) => Unshown(z))
    BY <1>1, WordsKept DEF Core
  <2> QED
    BY <1>4, <2>1, WordsKept
<1>6. /\ y.stopped = (x.stopped \/ x.reopen) /\ ~y.reopen
      /\ y.halted = x.halted /\ ~y.worked
  BY <1>1, <1>4 DEF SameStops, Core
<1>7. Top(y).at \in {3, 5}
  BY <1>3, <1>4 DEF WentOn
<1>8. Unshown(y) \/ Behind(y)
  BY <1>5, <1>6, <1>7 DEF Behind
<1>9. StopHeld(y)
  BY <1>6 DEF StopHeld
<1>10. Sound(y)
  BY <1>4, <1>5, <1>6, <1>8, <1>9 DEF Sound
<1> QED
  BY <1>2, <1>4, <1>10

LEMMA YieldedSound ==
    ASSUME NEW x \in EventType, x.stack # <<>>, Core(x), Top(x).at \in {2, 4},
           x.halted => x.stopped \/ x.reopen,
           x.reopen => Top(x).at = 4 /\ x.body = "handler",
           Unshown(x)
    PROVE  Yielded(x) \in EventType /\ Yielded(x).pc = x.pc /\ Sound(Yielded(x))
<1>1. CASE x.stopped
  <2>1. Yielded(x) = Closed(x)
    BY <1>1 DEF Yielded
  <2> QED
    BY <2>1, ClosedSound
<1>2. CASE ~x.stopped
  <2> DEFINE n == Top(x).at
             f == [at |-> n, gen |-> "yield"]
             g == Frame(n + 1)
             s == Append(Front(x.stack), f)
             t == Append(s, g)
             y == [x EXCEPT !.stack = t]
  <2>1. Yielded(x) = y
    BY <1>2 DEF Yielded
  <2>2. f \in FrameType /\ g \in FrameType /\ g.gen = "none" /\ g.at = n + 1
    BY StageNames DEF Frame, FrameType
  <2>3. n = 2 \/ n = 4
    OBVIOUS
  <2>4. f.at = n /\ f.gen = "yield"
    OBVIOUS
  <2>5. x.stack \in Seq(FrameType) /\ Len(x.stack) \in Nat \ {0}
    BY TopTyped
  <2> HIDE DEF f, g, n
  <2>6. /\ s \in Seq(FrameType) /\ Len(s) = Len(x.stack) /\ s[Len(s)] = f
        /\ \A i \in 1 .. Len(x.stack) - 1 : s[i] = x.stack[i]
    BY <2>2, <2>5, ReplacedIs
  <2> HIDE DEF s
  <2>7. /\ t \in Seq(FrameType) /\ Len(t) = Len(s) + 1 /\ t[Len(s) + 1] = g
        /\ \A i \in 1 .. Len(s) : t[i] = s[i]
    BY <2>2, <2>6, AppendProperties
  <2> HIDE DEF t
  <2>8. /\ y \in EventType /\ y.stack = t /\ y.pc = x.pc
        /\ SameWords(x, y) /\ SameStops(x, y)
    BY <2>7, Stacked
  <2> HIDE DEF y
  <2> DEFINE k == Len(x.stack)
  <2>9. k \in Nat /\ k >= 1 /\ Len(t) = k + 1 /\ t[k + 1] = g /\ t[k] = f
        /\ \A i \in 1 .. k - 1 : t[i] = x.stack[i]
    BY <2>5, <2>6, <2>7
  <2>10. \A i \in 1 .. k : i < k =>
            x.stack[i].gen = "yield" /\ x.stack[i].at \in {2, 4}
    BY DEF Core, Framed
  <2> HIDE DEF k
  <2>11. Framed(y)
    <3> SUFFICES ASSUME NEW i \in 1 .. k + 1
                 PROVE  /\ i < k + 1 => t[i].gen = "yield"
                        /\ t[i].gen = "yield" => t[i].at \in {2, 4}
      BY <2>8, <2>9 DEF Framed
    <3>1. CASE i = k + 1
      BY <2>2, <2>9, <3>1
    <3>2. CASE i = k
      BY <2>3, <2>4, <2>9, <3>2
    <3>3. CASE i < k
      <4>1. i \in 1 .. k - 1 /\ i \in 1 .. k
        BY <2>9, <3>3
      <4> QED
        BY <2>9, <2>10, <3>3, <4>1
    <3> QED
      BY <2>9, <3>1, <3>2, <3>3
  <2>12. /\ y.stack # <<>> /\ Top(y) = g /\ Len(y.stack) > 1
         /\ y.stack[Len(y.stack) - 1] = f
    BY <2>8, <2>9 DEF Top
  <2>13. Numbered(y) /\ InOrder(y) /\ Unshown(y)
    BY <2>8, WordsKept DEF Core
  <2>14. StopHeld(y)
    BY <2>2, <2>3, <2>4, <2>8, <2>12 DEF StopHeld, SameStops, SameWords, n
  <2>15. Sound(y)
    BY <2>8, <2>11, <2>13, <2>14 DEF Sound, Core, SameStops
  <2> QED
    BY <2>1, <2>8, <2>15
<1> QED
  BY <1>1, <1>2

LEMMA RunningIs ==
    ASSUME NEW x \in EventType, x.stack # <<>>, Core(x), Top(x).at \in {4, 6}
    PROVE  LET y == Running(x)
           IN  /\ y \in EventType /\ y.pc = x.pc /\ SameWords(x, y) /\ SameStops(x, y)
               /\ Core(y) /\ (Unshown(x) => Unshown(y))
               /\ y.stack # <<>> /\ Top(y).at = Top(x).at /\ Top(y).gen = "run"
               /\ Len(y.stack) = Len(x.stack)
               /\ Len(x.stack) > 1 => y.stack[Len(x.stack) - 1] = x.stack[Len(x.stack) - 1]
<1> DEFINE y == Running(x)
           f == [at |-> Top(x).at, gen |-> "run"]
<1>1. x.stack \in Seq(FrameType) /\ f \in FrameType /\ f.at = Top(x).at /\ f.gen = "run"
  BY TopTyped, StageNames DEF FrameType
<1>2. y = [x EXCEPT !.stack = Append(Front(x.stack), f)]
  BY DEF Running
<1> HIDE DEF y, f
<1> DEFINE s == Append(Front(x.stack), f)
<1>3. s \in Seq(FrameType) /\ y = [x EXCEPT !.stack = s]
  BY <1>1, <1>2, ReplacedIs
<1> HIDE DEF s
<1>4. /\ y \in EventType /\ y.stack = s /\ y.pc = x.pc
      /\ SameWords(x, y) /\ SameStops(x, y)
  BY <1>3, Stacked
<1>5. /\ Framed(y) /\ y.stack # <<>> /\ Top(y) = f /\ Len(y.stack) = Len(x.stack)
      /\ Len(x.stack) > 1 => y.stack[Len(x.stack) - 1] = x.stack[Len(x.stack) - 1]
  BY <1>1, <1>4, ReplaceFramed DEF Core, s
<1>6. Numbered(y) /\ InOrder(y) /\ (Unshown(x) => Unshown(y))
  BY <1>4, WordsKept DEF Core
<1>7. Core(y)
  BY <1>4, <1>5, <1>6 DEF Core, SameStops
<1> QED
  BY <1>1, <1>4, <1>5, <1>6, <1>7 DEF y

-----------------------------------------------------------------------------
(* What the stages do to the results and the flags.                        *)
LEMMA FramesKept ==
    ASSUME NEW x, NEW y, SameFrames(x, y)
    PROVE  /\ Framed(x) => Framed(y)
           /\ y.stack = x.stack /\ Top(y) = Top(x) /\ y.pc = x.pc
BY DEF SameFrames, Framed, Top

LEMMA StopsKept ==
    ASSUME NEW x, NEW y, SameFrames(x, y), SameWords(x, y), SameStops(x, y),
           StopHeld(x)
    PROVE  StopHeld(y)
BY DEF SameFrames, SameStops, SameWords, StopHeld, Top

(* A result without a number, and another place in the process stage.      *)
LEMMA SilentCore ==
    ASSUME NEW x \in EventType, Core(x), NEW y \in EventType, SameFrames(x, y),
           y.worked = x.worked, y.made = x.made, y.sent = x.sent,
           y.result.id = 0, y.result.kind \notin {"plain", "stream"}
    PROVE  Core(y) /\ Unshown(y)
<1>1. x.made \in Nat
  BY DEF EventType
<1> QED
  BY <1>1, FramesKept DEF Core, Numbered, InOrder, Unshown

LEMMA BodyCore ==
    ASSUME NEW x \in EventType, Core(x), x.body # "streamed",
           NEW y \in EventType, SameFrames(x, y),
           y.worked = x.worked, y.made = x.made, y.sent = x.sent, y.result = x.result
    PROVE  Core(y) /\ (Unshown(x) => Unshown(y))
BY FramesKept DEF Core, Numbered, InOrder, Unshown

LEMMA SameCore ==
    ASSUME NEW x, Core(x), NEW y, SameFrames(x, y), SameWords(x, y), y.worked = x.worked
    PROVE  Core(y) /\ (Unshown(x) => Unshown(y))
BY FramesKept, WordsKept DEF Core

LEMMA NewResultCore ==
    ASSUME NEW x \in EventType, Core(x), NEW y \in EventType, SameFrames(x, y),
           y.worked = x.worked, y.made = x.made + 1, y.sent = x.sent,
           y.result.id = x.made + 1,
           y.result.kind = "plain" \/ (y.result.kind = "stream" /\ y.body = "streamed")
    PROVE  Core(y) /\ Unshown(y)
<1>1. x.made \in Nat /\ x.sent \in Seq(Nat)
  BY DEF EventType
<1>2. \A i \in 1 .. Len(x.sent) : x.sent[i] \in Nat /\ x.sent[i] <= x.made
  BY <1>1 DEF Core, Numbered
<1>3. \A i \in 1 .. Len(x.sent) : x.sent[i] < x.made + 1 /\ x.sent[i] <= x.made + 1
  BY <1>1, <1>2
<1>4. Numbered(y) /\ Unshown(y)
  BY <1>1, <1>3 DEF Numbered, Unshown
<1>5. InOrder(y)
  BY DEF Core, InOrder
<1> QED
  BY <1>4, <1>5, FramesKept DEF Core

LEMMA SentIs ==
    ASSUME NEW x \in EventType
    PROVE  LET y == [x EXCEPT !.sent = Append(@, x.result.id), !.send = TRUE]
           IN  /\ y \in EventType /\ SameFrames(x, y) /\ SameStops(x, y)
               /\ y.body = x.body /\ y.result = x.result /\ y.made = x.made
               /\ y.sent = Append(x.sent, x.result.id)
<1>1. x.result.id \in Nat /\ x.sent \in Seq(Nat)
  BY DEF EventType, ResultType
<1>2. Append(x.sent, x.result.id) \in Seq(Nat)
  BY <1>1
<1> QED
  BY <1>2 DEF EventType, SameFrames, SameStops

(* A result that has not been shown is, with a greater number than those   *)
(* before it.                                                              *)
LEMMA SentCore ==
    ASSUME NEW x \in EventType, Core(x), Unshown(x), NEW y \in EventType, SameFrames(x, y),
           y.worked = x.worked, y.made = x.made, y.result = x.result, y.body = x.body,
           y.sent = Append(x.sent, x.result.id)
    PROVE  Core(y)
<1> DEFINE n == Len(x.sent)
           r == x.result.id
           s == x.sent
           t == y.sent
<1>1. s \in Seq(Nat) /\ r \in Nat /\ x.made \in Nat /\ n \in Nat
  BY DEF EventType, ResultType
<1>2. Len(t) = n + 1 /\ t[n + 1] = r /\ \A i \in 1 .. n : t[i] = s[i]
  BY <1>1, AppendProperties
<1>3. /\ r <= x.made /\ \A i \in 1 .. n : s[i] <= x.made
      /\ r = 0 \/ \A i \in 1 .. n : s[i] < r
      /\ \A i, j \in 1 .. n : i < j /\ s[i] # 0 /\ s[j] # 0 => s[i] < s[j]
  BY DEF Core, Numbered, Unshown, InOrder
<1>4. x.result.kind \notin {"plain", "stream"} => r = 0
  BY DEF Core, Numbered
<1>5. x.result.kind = "stream" => x.body = "streamed"
  BY DEF Core, Numbered
<1> HIDE DEF n, r, s
<1>6. \A i \in 1 .. n + 1 : i \in 1 .. n \/ i = n + 1
  BY <1>1
<1>7. \A i \in 1 .. n + 1 : t[i] <= x.made
  BY <1>2, <1>3, <1>6
<1>8. \A i, j \in 1 .. n + 1 : i < j /\ t[i] # 0 /\ t[j] # 0 => t[i] < t[j]
  <2> SUFFICES ASSUME NEW i \in 1 .. n + 1, NEW j \in 1 .. n + 1, i < j,
                      t[i] # 0, t[j] # 0
               PROVE  t[i] < t[j]
    OBVIOUS
  <2>1. i \in 1 .. n
    BY <1>1
  <2>2. CASE j \in 1 .. n
    BY <1>2, <1>3, <2>1, <2>2
  <2>3. CASE j = n + 1
    BY <1>2, <1>3, <2>1, <2>3
  <2> QED
    BY <1>6, <2>2, <2>3
<1>9. Numbered(y)
  BY <1>2, <1>3, <1>4, <1>5, <1>7 DEF Numbered, r
<1>10. InOrder(y)
  BY <1>2, <1>8 DEF InOrder
<1> QED
  BY <1>9, <1>10, FramesKept DEF Core

LEMMA OfferedSound ==
    ASSUME NEW x \in EventType, x.stack # <<>>, Core(x), Top(x).at = 4,
           x.halted => x.stopped, x.stopped => x.body = "handler", Unshown(x)
    PROVE  Offered(x) \in EventType /\ Offered(x).pc = x.pc /\ Sound(Offered(x))
<1> DEFINE defer == x.stopped /\ x.result # NoResult
           y == [x EXCEPT !.stopped = x.stopped /\ ~defer, !.reopen = defer]
<1>1. Offered(x) = Yielded(y)
  BY DEF Offered
<1>2. defer \in BOOLEAN
  OBVIOUS
<1>3. /\ y \in EventType /\ SameFrames(x, y) /\ SameWords(x, y)
      /\ y.stopped = (x.stopped /\ ~defer) /\ y.reopen = defer
      /\ y.halted = x.halted /\ y.worked = x.worked
  <2>1. CASE defer
    <3>1. y = [x EXCEPT !.stopped = FALSE, !.reopen = TRUE]
      BY <2>1
    <3> HIDE DEF y
    <3>2. /\ y \in EventType /\ SameFrames(x, y) /\ SameWords(x, y)
          /\ y.stopped = FALSE /\ y.reopen = TRUE
          /\ y.halted = x.halted /\ y.worked = x.worked
      BY <3>1 DEF EventType, SameFrames, SameWords
    <3> QED
      BY <2>1, <3>2
  <2>2. CASE ~defer
    <3>1. x.stopped \in BOOLEAN
      BY DEF EventType
    <3>2. y = [x EXCEPT !.stopped = x.stopped, !.reopen = FALSE]
      BY <2>2, <3>1
    <3> HIDE DEF y
    <3>3. /\ y \in EventType /\ SameFrames(x, y) /\ SameWords(x, y)
          /\ y.stopped = x.stopped /\ y.reopen = FALSE
          /\ y.halted = x.halted /\ y.worked = x.worked
      BY <3>1, <3>2 DEF EventType, SameFrames, SameWords
    <3> QED
      BY <2>2, <3>1, <3>3
  <2> QED
    BY <2>1, <2>2
<1> HIDE DEF y
<1>4. y.stack = x.stack /\ Top(y) = Top(x) /\ y.pc = x.pc
  BY <1>3, FramesKept
<1>5. Core(y) /\ Unshown(y)
  BY <1>3, SameCore
<1>6. (y.halted => y.stopped \/ y.reopen) /\ (y.reopen => y.body = "handler")
  BY <1>3 DEF SameWords
<1> QED
  BY <1>1, <1>3, <1>4, <1>5, <1>6, YieldedSound

LEMMA SoundKept ==
    ASSUME NEW x \in EventType, Sound(x), NEW y,
           SameFrames(x, y), SameWords(x, y), SameStops(x, y)
    PROVE  Sound(y)
<1>1. Framed(y) /\ Numbered(y) /\ InOrder(y) /\ StopHeld(y)
  BY FramesKept, WordsKept, StopsKept DEF Sound
<1>2. Unshown(x) => Unshown(y)
  BY WordsKept
<1>3. Behind(x) => Behind(y)
  BY DEF Behind, SameFrames, SameWords, SameStops, Top
<1> QED
  BY <1>1, <1>2, <1>3 DEF Sound, SameStops

LEMMA StoppedAfterSound ==
    ASSUME NEW x \in EventType, x.stack # <<>>, Core(x), StopHeld(x),
           Top(x).at # 4, Top(x).gen # "yield",
           NEW y \in EventType, SameFrames(x, y), Core(y),
           y.stopped, y.reopen = x.reopen, y.body = x.body
    PROVE  After(y) \in EventType /\ After(y).pc = x.pc /\ Sound(After(y))
<1>1. y.stack # <<>> /\ Top(y) = Top(x) /\ y.pc = x.pc /\ y.stack = x.stack
  BY FramesKept
<1>2. StopHeld(y)
  BY <1>1 DEF StopHeld
<1> QED
  BY <1>1, <1>2, AfterSound

-----------------------------------------------------------------------------
(* The steps of one event's task.                                          *)
Good(y) == y \in EventType /\ Sound(y) /\ y.pc \in {"run", "done"}

Stepped(e) ==
    /\ ev[e].pc \in {"task", "run"}
    /\ \E y \in EventType : Become(e, y) /\ Good(y)

LEMMA GoodStep ==
    ASSUME NEW e \in Events, ev[e].pc \in {"task", "run"},
           NEW y \in EventType, Become(e, y), Good(y)
    PROVE  Stepped(e)
BY DEF Stepped

(* What the invariant says of an event at a stage.                         *)
LEMMA AtStage ==
    ASSUME PipelineInv, NEW e \in Events, NEW s, At(ev[e], s)
    PROVE  LET x == ev[e]
           IN  /\ x \in EventType /\ x.stack # <<>> /\ Core(x) /\ StopHeld(x)
               /\ x.pc = "run" /\ Top(x).at \in 1 .. 6 /\ Stages[Top(x).at] = s
               /\ Gen(x) \in {"none", "run", "yield"}
               /\ Gen(x) = "yield" => Top(x).at \in {2, 4}
               /\ Top(x).gen = Gen(x)
               /\ Unshown(x) \/ Behind(x)
<1> DEFINE x == ev[e]
<1>1. x \in EventType /\ Sound(x) /\ x.stack # <<>> /\ x.pc = "run"
      /\ Stages[Top(x).at] = s
  BY DEF PipelineInv, Typed, At
<1> HIDE DEF x
<1>2. /\ x.stack \in Seq(FrameType) /\ Len(x.stack) \in Nat \ {0}
      /\ Top(x).at \in 1 .. 6 /\ Top(x).gen \in {"none", "run", "yield"}
  BY <1>1, TopTyped
<1>3. Top(x).gen = "yield" => Top(x).at \in {2, 4}
  BY <1>1, <1>2 DEF Sound, Framed, Top
<1>4. Core(x) /\ StopHeld(x) /\ (Unshown(x) \/ Behind(x))
  BY <1>1 DEF Sound, Core
<1>5. Gen(x) = Top(x).gen
  BY DEF Gen
<1> QED
  BY <1>1, <1>2, <1>3, <1>4, <1>5 DEF x

LEMMA AtCoroutine ==
    ASSUME PipelineInv, NEW e \in Events,
           \/ At(ev[e], "front") \/ At(ev[e], "preprocess") \/ At(ev[e], "decorate")
    PROVE  LET x == ev[e]
           IN  /\ x \in EventType /\ x.stack # <<>> /\ Core(x) /\ StopHeld(x)
               /\ x.pc = "run" /\ Top(x).at \in {1, 3, 5} /\ Top(x).gen # "yield"
               /\ Unshown(x) \/ x.stopped
<1> DEFINE x == ev[e]
<1>1. PICK s \in {"front", "preprocess", "decorate"} : At(ev[e], s)
  OBVIOUS
<1>2. /\ x \in EventType /\ x.stack # <<>> /\ Core(x) /\ StopHeld(x)
      /\ x.pc = "run" /\ Top(x).at \in 1 .. 6 /\ Stages[Top(x).at] = s
      /\ Gen(x) = "yield" => Top(x).at \in {2, 4}
      /\ Top(x).gen = Gen(x)
      /\ Unshown(x) \/ Behind(x)
  BY <1>1, AtStage
<1> HIDE DEF x
<1>3. Top(x).at \in {1, 3, 5}
  BY <1>2, StageNames
<1>4. Unshown(x) \/ x.stopped
  BY <1>2, <1>3 DEF Behind
<1> QED
  BY <1>2, <1>3, <1>4 DEF x

LEMMA AtSafety ==
    ASSUME PipelineInv, NEW e \in Events, At(ev[e], "safety")
    PROVE  LET x == ev[e]
           IN  /\ x \in EventType /\ x.stack # <<>> /\ Core(x)
               /\ x.pc = "run" /\ Top(x).at = 2 /\ ~x.reopen
               /\ x.halted => x.stopped
               /\ Gen(x) = "none" => Unshown(x)
<1> DEFINE x == ev[e]
<1>2. /\ x \in EventType /\ x.stack # <<>> /\ Core(x) /\ StopHeld(x)
      /\ x.pc = "run" /\ Top(x).at \in 1 .. 6 /\ Stages[Top(x).at] = "safety"
      /\ Top(x).gen = Gen(x)
      /\ Unshown(x) \/ Behind(x)
  BY AtStage
<1> HIDE DEF x
<1>3. Top(x).at = 2
  BY <1>2, StageNames
<1>4. ~x.reopen /\ (x.halted => x.stopped)
  BY <1>2, <1>3 DEF StopHeld
<1>5. Gen(x) = "none" => Unshown(x)
  BY <1>2, <1>3 DEF Behind
<1> QED
  BY <1>2, <1>3, <1>4, <1>5 DEF x

LEMMA AtProcess ==
    ASSUME PipelineInv, NEW e \in Events, At(ev[e], "process")
    PROVE  LET x == ev[e]
           IN  /\ x \in EventType /\ x.stack # <<>> /\ Core(x)
               /\ x.pc = "run" /\ Top(x).at = 4
               /\ x.halted => x.stopped \/ x.reopen
               /\ x.reopen => x.body = "handler"
               /\ Gen(x) # "yield" => Unshown(x) /\ ~x.reopen /\ (x.halted => x.stopped)
               /\ Gen(x) = "yield" => Unshown(x) \/ x.stopped \/ x.body = "streamed"
<1> DEFINE x == ev[e]
<1>2. /\ x \in EventType /\ x.stack # <<>> /\ Core(x) /\ StopHeld(x)
      /\ x.pc = "run" /\ Top(x).at \in 1 .. 6 /\ Stages[Top(x).at] = "process"
      /\ Top(x).gen = Gen(x)
      /\ Unshown(x) \/ Behind(x)
  BY AtStage
<1> HIDE DEF x
<1>3. Top(x).at = 4
  BY <1>2, StageNames
<1>4. (x.halted => x.stopped \/ x.reopen) /\ (x.reopen => x.body = "handler")
  BY <1>2 DEF StopHeld
<1>5. Gen(x) # "yield" => Unshown(x) /\ ~x.reopen /\ (x.halted => x.stopped)
  BY <1>2, <1>3 DEF Behind, StopHeld
<1>6. Gen(x) = "yield" => Unshown(x) \/ x.stopped \/ x.body = "streamed"
  BY <1>2, <1>3 DEF Behind
<1> QED
  BY <1>2, <1>3, <1>4, <1>5, <1>6 DEF x

LEMMA AtRespond ==
    ASSUME PipelineInv, NEW e \in Events, At(ev[e], "respond")
    PROVE  LET x == ev[e]
           IN  /\ x \in EventType /\ x.stack # <<>> /\ Core(x) /\ StopHeld(x)
               /\ x.pc = "run" /\ Top(x).at = 6 /\ Top(x).gen # "yield"
               /\ Gen(x) = "none" => Unshown(x)
<1> DEFINE x == ev[e]
<1>2. /\ x \in EventType /\ x.stack # <<>> /\ Core(x) /\ StopHeld(x)
      /\ x.pc = "run" /\ Top(x).at \in 1 .. 6 /\ Stages[Top(x).at] = "respond"
      /\ Gen(x) = "yield" => Top(x).at \in {2, 4}
      /\ Top(x).gen = Gen(x)
      /\ Unshown(x) \/ Behind(x)
  BY AtStage
<1> HIDE DEF x
<1>3. Top(x).at = 6 /\ Top(x).gen # "yield"
  BY <1>2, StageNames
<1>5. Gen(x) = "none" => Unshown(x)
  BY <1>2, <1>3 DEF Behind
<1> QED
  BY <1>2, <1>3, <1>5 DEF x

LEMMA BeginSteps ==
    ASSUME PipelineInv, NEW e \in Events, Begin(e)
    PROVE  Stepped(e)
<1> DEFINE x == ev[e]
           y == [x EXCEPT !.pc = "run", !.stack = <<Frame(1)>>]
<1>1. x \in EventType /\ Sound(x) /\ x.pc = "task" /\ x.sent = <<>> /\ ~x.reopen
  BY DEF PipelineInv, Typed, Waiting, Begin
<1>2. Become(e, y)
  BY DEF Begin
<1> HIDE DEF x
<1>3. Frame(1) \in FrameType /\ Frame(1).gen = "none" /\ Frame(1).at = 1
  BY StageNames DEF Frame, FrameType
<1>4. <<Frame(1)>> \in Seq(FrameType)
  BY <1>3
<1>5. /\ y \in EventType /\ y.pc = "run" /\ y.stack = <<Frame(1)>>
      /\ SameWords(x, y) /\ SameStops(x, y)
  BY <1>1, <1>4 DEF EventType, SameWords, SameStops
<1> HIDE DEF y
<1>6. Len(y.stack) = 1 /\ y.stack[1] = Frame(1)
  BY <1>5
<1>7. Framed(y)
  BY <1>3, <1>6 DEF Framed
<1>8. Unshown(y)
  BY <1>1, <1>5 DEF Unshown, SameWords
<1>9. Numbered(y) /\ InOrder(y)
  BY <1>1, <1>5, WordsKept DEF Sound
<1>10. StopHeld(y)
  BY <1>1, <1>3, <1>5, <1>6 DEF StopHeld, SameStops, Sound
<1>11. Sound(y)
  BY <1>1, <1>5, <1>7, <1>8, <1>9, <1>10 DEF Sound, SameStops
<1> QED
  BY <1>1, <1>2, <1>5, <1>11, GoodStep DEF Good, x

(* An event that is dropped keeps what it has shown.                       *)
LEMMA OverSound ==
    ASSUME NEW x \in EventType, Sound(x), NEW y, y = Over(x)
    PROVE  y \in EventType /\ Sound(y) /\ y.pc = "done" /\ y.stack = <<>>
<1>1. /\ Fresh \in EventType /\ Fresh.stack = <<>> /\ Fresh.result = NoResult
      /\ ~Fresh.halted /\ ~Fresh.reopen /\ ~Fresh.worked
  BY FreshTyped
<1>2. /\ x.made \in Nat /\ x.sent \in Seq(Nat) /\ x.owed \in SUBSET Nat /\ x.cut \in BOOLEAN
  BY DEF EventType
<1>3. /\ y \in EventType /\ y.pc = "done" /\ y.stack = <<>> /\ y.result = NoResult
      /\ y.made = x.made /\ y.sent = x.sent
      /\ ~y.halted /\ ~y.reopen /\ ~y.worked
  BY <1>1, <1>2 DEF Over, EventType
<1>4. Framed(y) /\ StopHeld(y) /\ Unshown(y)
  BY <1>3 DEF Framed, StopHeld, Unshown, NoResult
<1>5. Numbered(y) /\ InOrder(y)
  BY <1>2, <1>3 DEF Sound, Numbered, InOrder, NoResult
<1> QED
  BY <1>3, <1>4, <1>5 DEF Sound

LEMMA BreaksSteps ==
    ASSUME PipelineInv, NEW e \in Events, Breaks(e)
    PROVE  Stepped(e)
<1> DEFINE x == ev[e]
           w == [x EXCEPT !.cut = TRUE]
           y == Over(w)
<1>1. x \in EventType /\ Sound(x) /\ x.pc \in {"task", "run"}
  BY DEF PipelineInv, Typed, Breaks
<1>2. Become(e, y)
  BY DEF Breaks
<1> HIDE DEF x
<1>3. w \in EventType /\ SameFrames(x, w) /\ SameWords(x, w) /\ SameStops(x, w)
  BY <1>1 DEF EventType, SameFrames, SameWords, SameStops
<1> HIDE DEF w
<1>4. Sound(w)
  BY <1>1, <1>3, SoundKept
<1>5. y \in EventType /\ Sound(y) /\ y.pc = "done" /\ y.stack = <<>>
  BY <1>3, <1>4, OverSound
<1> QED
  BY <1>1, <1>2, <1>5, GoodStep DEF Good, x

LEMMA EndsSteps ==
    ASSUME PipelineInv, NEW e \in Events, Ends(e)
    PROVE  Stepped(e)
<1> DEFINE x == ev[e]
           y == Over(x)
<1>1. x \in EventType /\ Sound(x) /\ x.pc = "run"
  BY DEF PipelineInv, Typed, Ends
<1>2. Become(e, y)
  BY DEF Ends
<1> HIDE DEF x
<1>3. y \in EventType /\ Sound(y) /\ y.pc = "done" /\ y.stack = <<>>
  BY <1>1, OverSound
<1> QED
  BY <1>1, <1>2, <1>3, GoodStep DEF Good, x

LEMMA ShrugsSteps ==
    ASSUME PipelineInv, NEW e \in Events, Shrugs(e)
    PROVE  Stepped(e)
<1> DEFINE x == ev[e]
           y == [x EXCEPT !.cancel = FALSE, !.cut = TRUE]
<1>1. x \in EventType /\ Sound(x) /\ x.pc = "run"
  BY DEF PipelineInv, Typed, Shrugs, At
<1>2. Become(e, y)
  BY DEF Shrugs
<1> HIDE DEF x
<1>3. y \in EventType /\ SameFrames(x, y) /\ SameWords(x, y) /\ SameStops(x, y)
  BY <1>1 DEF EventType, SameFrames, SameWords, SameStops
<1> HIDE DEF y
<1>4. Sound(y) /\ y.pc = "run"
  BY <1>1, <1>3, SoundKept DEF SameFrames
<1> QED
  BY <1>1, <1>2, <1>3, <1>4, GoodStep DEF Good, x

-----------------------------------------------------------------------------
LEMMA FrontSteps ==
    ASSUME PipelineInv, NEW e \in Events, FrontStage(e)
    PROVE  Stepped(e)
<1> DEFINE x == ev[e]
<1>1. /\ x \in EventType /\ x.stack # <<>> /\ Core(x) /\ StopHeld(x)
      /\ x.pc = "run" /\ Top(x).at \in {1, 3, 5} /\ Top(x).gen # "yield"
      /\ Unshown(x) \/ x.stopped
  BY AtCoroutine DEF FrontStage, Ready
<1> HIDE DEF x
<1>2. CASE Become(e, After(x))
  <2>1. After(x) \in EventType /\ After(x).pc = "run" /\ Sound(After(x))
    BY <1>1, AfterSound
  <2> QED
    BY <1>1, <1>2, <2>1, GoodStep DEF Good, x
<1>3. CASE Become(e, After(Stopped(x)))
  <2> DEFINE y == Stopped(x)
  <2>1. /\ y \in EventType /\ SameFrames(x, y) /\ SameWords(x, y)
        /\ y.stopped /\ y.halted /\ y.reopen = x.reopen /\ y.worked = x.worked
    BY <1>1, StoppedIs
  <2> HIDE DEF y
  <2>2. After(y) \in EventType /\ After(y).pc = "run" /\ Sound(After(y))
    <3>1. Core(y)
      BY <1>1, <2>1, SameCore
    <3> QED
      BY <1>1, <2>1, <3>1, StoppedAfterSound DEF SameWords
  <2> QED
    BY <1>1, <1>3, <2>2, GoodStep DEF Good, x, y
<1> QED
  BY <1>2, <1>3 DEF FrontStage, x

LEMMA PreprocessSteps ==
    ASSUME PipelineInv, NEW e \in Events, Preprocess(e)
    PROVE  Stepped(e)
<1> DEFINE x == ev[e]
<1>1. /\ x \in EventType /\ x.stack # <<>> /\ Core(x) /\ StopHeld(x)
      /\ x.pc = "run" /\ Top(x).at \in {1, 3, 5} /\ Top(x).gen # "yield"
      /\ Unshown(x) \/ x.stopped
  BY AtCoroutine DEF Preprocess, Ready
<1>2. Become(e, After(x))
  BY DEF Preprocess
<1> HIDE DEF x
<1>3. After(x) \in EventType /\ After(x).pc = "run" /\ Sound(After(x))
  BY <1>1, AfterSound
<1> QED
  BY <1>1, <1>2, <1>3, GoodStep DEF Good, x

LEMMA SafetySteps ==
    ASSUME PipelineInv, NEW e \in Events, Safety(e)
    PROVE  Stepped(e)
<1> DEFINE x == ev[e]
           no == [x EXCEPT !.blocked = TRUE]
           z == [no EXCEPT !.result = Notice]
           w == Stopped(no)
<1>1. /\ x \in EventType /\ x.stack # <<>> /\ Core(x)
      /\ x.pc = "run" /\ Top(x).at = 2 /\ ~x.reopen
      /\ x.halted => x.stopped
      /\ Unshown(x)
  BY AtSafety DEF Safety, Ready
<1>2. \/ Become(e, Closed(x))
      \/ Become(e, Yielded(z))
      \/ Become(e, Closed(w))
  BY DEF Safety
<1> HIDE DEF x
<1>3. no \in EventType /\ SameFrames(x, no) /\ SameWords(x, no) /\ SameStops(x, no)
  BY <1>1, Marked
<1>4. /\ no.stack # <<>> /\ Top(no).at = 2 /\ no.pc = "run" /\ Core(no) /\ Unshown(no)
      /\ ~no.reopen /\ (no.halted => no.stopped)
  BY <1>1, <1>3, FramesKept, SameCore DEF SameStops
<1> HIDE DEF no
<1>5. CASE Become(e, Closed(x))
  <2>1. Closed(x) \in EventType /\ Closed(x).pc = "run" /\ Sound(Closed(x))
    BY <1>1, ClosedSound
  <2> QED
    BY <1>1, <1>5, <2>1, GoodStep DEF Good, x
<1>6. CASE Become(e, Yielded(z))
  <2>1. /\ z \in EventType /\ SameFrames(no, z) /\ SameStops(no, z)
        /\ z.result = Notice /\ z.made = no.made /\ z.sent = no.sent
    BY <1>3, Resulted, NoticesTyped
  <2> HIDE DEF z
  <2>2. /\ Core(z) /\ Unshown(z)
    BY <1>3, <1>4, <2>1, SilentCore DEF Notice, SameStops
  <2>3. /\ z.stack # <<>> /\ Top(z).at = 2 /\ z.pc = "run"
        /\ ~z.reopen /\ (z.halted => z.stopped)
    BY <1>4, <2>1, FramesKept DEF SameStops
  <2>4. Yielded(z) \in EventType /\ Yielded(z).pc = "run" /\ Sound(Yielded(z))
    BY <2>1, <2>2, <2>3, YieldedSound
  <2> QED
    BY <1>1, <1>6, <2>4, GoodStep DEF Good, x
<1>7. CASE Become(e, Closed(w))
  <2>1. /\ w \in EventType /\ SameFrames(no, w) /\ SameWords(no, w)
        /\ w.stopped /\ w.halted /\ w.reopen = no.reopen /\ w.worked = no.worked
    BY <1>3, StoppedIs
  <2> HIDE DEF w
  <2>2. Core(w) /\ w.stack # <<>> /\ Top(w).at = 2 /\ w.pc = "run"
    BY <1>4, <2>1, FramesKept, SameCore
  <2>3. Closed(w) \in EventType /\ Closed(w).pc = "run" /\ Sound(Closed(w))
    BY <2>1, <2>2, ClosedSound
  <2> QED
    BY <1>1, <1>7, <2>3, GoodStep DEF Good, x
<1> QED
  BY <1>2, <1>5, <1>6, <1>7

LEMMA SafetyAgainSteps ==
    ASSUME PipelineInv, NEW e \in Events, SafetyAgain(e)
    PROVE  Stepped(e)
<1> DEFINE x == ev[e]
           w == Stopped(x)
<1>1. /\ x \in EventType /\ x.stack # <<>> /\ Core(x)
      /\ x.pc = "run" /\ Top(x).at = 2
  BY AtSafety DEF SafetyAgain, Ready
<1>2. Become(e, Closed(w))
  BY DEF SafetyAgain
<1> HIDE DEF x
<1>3. /\ w \in EventType /\ SameFrames(x, w) /\ SameWords(x, w)
      /\ w.stopped /\ w.halted /\ w.worked = x.worked
  BY <1>1, StoppedIs
<1> HIDE DEF w
<1>4. Core(w) /\ w.stack # <<>> /\ Top(w).at = 2 /\ w.pc = "run"
  BY <1>1, <1>3, FramesKept, SameCore
<1>5. Closed(w) \in EventType /\ Closed(w).pc = "run" /\ Sound(Closed(w))
  BY <1>3, <1>4, ClosedSound
<1> QED
  BY <1>1, <1>2, <1>5, GoodStep DEF Good, x

-----------------------------------------------------------------------------
(* The steps of the process stage.                                         *)
(* A handler, or the agent, is at work.                                    *)
AtWork(x) ==
    /\ x \in EventType /\ x.stack # <<>> /\ Core(x) /\ x.pc = "run"
    /\ Top(x).at = 4 /\ Top(x).gen = "run" /\ Unshown(x) /\ ~x.reopen
    /\ x.halted => x.stopped

LEMMA BodyAtWork ==
    ASSUME PipelineInv, NEW e \in Events, NEW b, InBody(e, b)
    PROVE  AtWork(ev[e]) /\ ev[e].body = b
<1>1. At(ev[e], "process") /\ Gen(ev[e]) = "run" /\ ev[e].body = b
  BY DEF InBody, Ready
<1> QED
  BY <1>1, AtProcess DEF AtWork, Gen

(* It stays so, whatever it does that leaves frames and stops alone.       *)
LEMMA WorkSound ==
    ASSUME NEW x, AtWork(x)
    PROVE  Sound(x) /\ Good(x)
BY DEF AtWork, Sound, Core, StopHeld, Good

LEMMA ProcessSteps ==
    ASSUME PipelineInv, NEW e \in Events, Process(e)
    PROVE  Stepped(e)
<1> DEFINE x == ev[e]
<1>1. /\ x \in EventType /\ x.stack # <<>> /\ Core(x)
      /\ x.pc = "run" /\ Top(x).at = 4
      /\ x.halted => x.stopped \/ x.reopen
      /\ Unshown(x) /\ ~x.reopen
  BY AtProcess DEF Process, Ready
<1>2. Become(e, Running(x))
  BY DEF Process
<1> HIDE DEF x
<1>3. AtWork(Running(x))
  BY <1>1, RunningIs DEF AtWork, SameStops
<1>4. Running(x) \in EventType /\ Good(Running(x))
  BY <1>3, WorkSound DEF AtWork
<1> QED
  BY <1>1, <1>2, <1>4, GoodStep DEF x

LEMMA WorkKept ==
    ASSUME NEW x, AtWork(x), NEW y \in EventType, SameFrames(x, y), SameStops(x, y),
           Core(y), Unshown(y)
    PROVE  AtWork(y)
BY FramesKept DEF AtWork, SameStops

LEMMA StoppedWork ==
    ASSUME NEW x, AtWork(x)
    PROVE  LET y == Stopped(x)
           IN  AtWork(y) /\ y.stopped /\ SameWords(x, y) /\ y.halted
<1> DEFINE y == Stopped(x)
<1>1. /\ y \in EventType /\ SameFrames(x, y) /\ SameWords(x, y)
      /\ y.stopped /\ y.halted /\ y.reopen = x.reopen /\ y.worked = x.worked
  BY StoppedIs DEF AtWork
<1> HIDE DEF y
<1>2. Core(y) /\ Unshown(y)
  BY <1>1, SameCore DEF AtWork
<1>3. AtWork(y)
  BY <1>1, <1>2, FramesKept DEF AtWork
<1> QED
  BY <1>1, <1>3 DEF y

LEMMA StartedWork ==
    ASSUME NEW x, AtWork(x), ~x.stopped
    PROVE  AtWork(Started(x))
<1> DEFINE y == Started(x)
<1>1. /\ y \in EventType /\ SameFrames(x, y) /\ SameWords(x, y)
      /\ y.stopped = x.stopped /\ y.reopen = x.reopen /\ y.halted = x.halted
      /\ y.worked = (x.worked \/ x.halted)
  BY StartedIs DEF AtWork
<1> HIDE DEF y
<1>2. ~x.halted /\ ~x.worked
  BY DEF AtWork, Core
<1>3. SameStops(x, y)
  BY <1>1, <1>2, BooleanFlags DEF SameStops, AtWork
<1>4. Core(y) /\ Unshown(y)
  BY <1>1, <1>3, SameCore DEF AtWork, SameStops
<1> QED
  BY <1>1, <1>3, <1>4, WorkKept DEF y

LEMMA PlacedWork ==
    ASSUME NEW x, AtWork(x), x.body # "streamed", NEW b \in Bodies
    PROVE  AtWork([x EXCEPT !.body = b])
<1> DEFINE y == [x EXCEPT !.body = b]
<1>1. /\ y \in EventType /\ SameFrames(x, y) /\ SameStops(x, y)
      /\ y.result = x.result /\ y.made = x.made /\ y.sent = x.sent
  BY Placed DEF AtWork
<1> HIDE DEF y
<1>2. Core(y) /\ Unshown(y)
  BY <1>1, BodyCore DEF AtWork, SameStops
<1>3. AtWork(y)
  BY <1>1, <1>2, WorkKept
<1> QED
  BY <1>3 DEF y

LEMMA ClearedWork ==
    ASSUME NEW x, AtWork(x), NEW b \in Bodies
    PROVE  AtWork([x EXCEPT !.body = b, !.result = NoResult])
<1> DEFINE y == [x EXCEPT !.body = b, !.result = NoResult]
<1>1. /\ y \in EventType /\ SameFrames(x, y) /\ SameStops(x, y)
      /\ y.result = NoResult /\ y.made = x.made /\ y.sent = x.sent
  <2>1. x \in EventType /\ NoResult \in ResultType
    BY NoticesTyped DEF AtWork
  <2> QED
    BY <2>1 DEF EventType, SameFrames, SameStops
<1> HIDE DEF y
<1>2. y.result.id = 0 /\ y.result.kind \notin {"plain", "stream"}
  BY <1>1 DEF NoResult
<1>3. Core(y) /\ Unshown(y)
  BY <1>1, <1>2, SilentCore DEF AtWork, SameStops
<1>4. AtWork(y)
  BY <1>1, <1>3, WorkKept
<1> QED
  BY <1>4 DEF y

LEMMA MadeWork ==
    ASSUME NEW x, AtWork(x)
    PROVE  LET y == Made(x, "plain")
           IN  AtWork(y) /\ y.body = x.body /\ y.stopped = x.stopped
<1> DEFINE y == Made(x, "plain")
<1>1. /\ y \in EventType /\ SameFrames(x, y) /\ SameStops(x, y)
      /\ y.body = x.body /\ y.sent = x.sent /\ y.made = x.made + 1
      /\ y.result = [kind |-> "plain", id |-> x.made + 1]
  BY MadeIs DEF AtWork
<1> HIDE DEF y
<1>2. y.result.id = x.made + 1 /\ y.result.kind = "plain"
  BY <1>1
<1>3. Core(y) /\ Unshown(y)
  BY <1>1, <1>2, NewResultCore DEF AtWork, SameStops
<1>4. AtWork(y)
  BY <1>1, <1>3, WorkKept
<1> QED
  BY <1>1, <1>4 DEF y, SameStops

LEMMA OfferedWork ==
    ASSUME NEW x, AtWork(x), x.body = "handler" \/ ~x.stopped
    PROVE  Offered(x) \in EventType /\ Good(Offered(x))
BY OfferedSound DEF AtWork, Good

LEMMA YieldedWork ==
    ASSUME NEW x, AtWork(x)
    PROVE  Yielded(x) \in EventType /\ Good(Yielded(x))
BY YieldedSound DEF AtWork, Good

LEMMA ClosedWork ==
    ASSUME NEW x, AtWork(x)
    PROVE  Closed(x) \in EventType /\ Good(Closed(x))
BY ClosedSound DEF AtWork, Good

LEMMA WorkStep ==
    ASSUME NEW e \in Events, AtWork(ev[e]), NEW y \in EventType, Good(y), Become(e, y)
    PROVE  Stepped(e)
BY GoodStep DEF AtWork

LEMMA NextHandlerSteps ==
    ASSUME PipelineInv, NEW e \in Events, NextHandler(e)
    PROVE  Stepped(e)
<1> DEFINE x == ev[e]
<1>1. AtWork(x) /\ x.body = "handlers"
  BY BodyAtWork DEF NextHandler
<1>2. CASE MoreHandlers(x)
  <2> DEFINE y == [x EXCEPT !.left = @ - 1, !.body = "handler"]
  <2>1. Become(e, Started(y))
    BY <1>2 DEF NextHandler
  <2> HIDE DEF x
  <2>2. x \in EventType /\ x.left \in 0 .. Handlers /\ x.left > 0 /\ ~x.stopped
    BY <1>1, <1>2 DEF AtWork, EventType, MoreHandlers
  <2>3. x.left - 1 \in 0 .. Handlers
    BY <2>2, HandlersAssumption
  <2>4. /\ y \in EventType /\ SameFrames(x, y) /\ SameStops(x, y)
        /\ y.result = x.result /\ y.made = x.made /\ y.sent = x.sent
    BY <2>2, <2>3 DEF EventType, SameFrames, SameStops, Bodies
  <2> HIDE DEF y
  <2>5. Core(y) /\ Unshown(y)
    BY <1>1, <2>4, BodyCore DEF AtWork, SameStops
  <2>6. AtWork(y) /\ ~y.stopped
    BY <1>1, <2>2, <2>4, <2>5, WorkKept DEF SameStops
  <2>7. AtWork(Started(y))
    BY <2>6, StartedWork
  <2>8. Started(y) \in EventType /\ Good(Started(y))
    BY <2>7, WorkSound DEF AtWork
  <2> QED
    BY <1>1, <2>1, <2>8, WorkStep DEF x
<1>3. CASE ~MoreHandlers(x)
  <2> DEFINE y == [x EXCEPT !.body = "agent"]
  <2>1. Become(e, y)
    BY <1>3 DEF NextHandler
  <2> HIDE DEF x
  <2>2. AtWork(y)
    BY <1>1, PlacedWork DEF Bodies
  <2>3. y \in EventType /\ Good(y)
    BY <2>2, WorkSound DEF AtWork
  <2> QED
    BY <1>1, <2>1, <2>3, WorkStep DEF x
<1> QED
  BY <1>2, <1>3

LEMMA HandlerYieldsSteps ==
    ASSUME PipelineInv, NEW e \in Events, NEW stop \in BOOLEAN, HandlerYields(e, stop)
    PROVE  Stepped(e)
<1> DEFINE w == ev[e]
           x == IF stop THEN Stopped(w) ELSE w
           z == [x EXCEPT !.idle = @ + 1]
<1>1. AtWork(w) /\ w.body = "handler"
  BY BodyAtWork DEF HandlerYields
<1>2. Become(e, Offered(Made(x, "plain"))) \/ Become(e, Offered(z))
  BY DEF HandlerYields
<1> HIDE DEF w
<1>3. AtWork(x) /\ x.made = w.made /\ x.body = "handler"
  BY <1>1, StoppedWork DEF SameWords
<1> HIDE DEF x
<1>4. CASE Become(e, Offered(Made(x, "plain")))
  <2>1. AtWork(Made(x, "plain")) /\ Made(x, "plain").body = "handler"
    BY <1>3, <1>4, MadeWork
  <2>2. /\ Offered(Made(x, "plain")) \in EventType
        /\ Good(Offered(Made(x, "plain")))
    BY <2>1, OfferedWork
  <2> QED
    BY <1>1, <1>4, <2>2, WorkStep DEF w
<1>5. CASE Become(e, Offered(z))
  <2>1. x \in EventType /\ x.idle + 1 \in Nat
    BY <1>3 DEF AtWork, EventType
  <2>2. z \in EventType /\ SameFrames(x, z) /\ SameWords(x, z) /\ SameStops(x, z)
    BY <2>1, Marked
  <2> HIDE DEF z
  <2>3. AtWork(z)
    <3>1. Core(z) /\ Unshown(z)
      BY <1>3, <2>2, SameCore DEF AtWork, SameStops
    <3> QED
      BY <1>3, <2>2, <3>1, WorkKept
  <2>4. Offered(z) \in EventType /\ Good(Offered(z))
    BY <1>3, <2>2, <2>3, OfferedWork DEF SameWords
  <2> QED
    BY <1>1, <1>5, <2>4, WorkStep DEF w
<1> QED
  BY <1>2, <1>4, <1>5

LEMMA HandlerEndsSteps ==
    ASSUME PipelineInv, NEW e \in Events, NEW stop \in BOOLEAN, HandlerEnds(e, stop)
    PROVE  Stepped(e)
<1> DEFINE w == ev[e]
           x == IF stop THEN Stopped(w) ELSE w
           y == [x EXCEPT !.body = "agent"]
           z == [x EXCEPT !.body = "handlers", !.result = NoResult]
<1>1. AtWork(w) /\ w.body = "handler"
  BY BodyAtWork DEF HandlerEnds
<1>2. Become(e, y) \/ Become(e, z)
  BY DEF HandlerEnds
<1> HIDE DEF w
<1>3. AtWork(x) /\ x.body = "handler"
  BY <1>1, StoppedWork DEF SameWords
<1> HIDE DEF x
<1>4. AtWork(y) /\ AtWork(z)
  BY <1>3, PlacedWork, ClearedWork DEF Bodies
<1>5. y \in EventType /\ Good(y) /\ z \in EventType /\ Good(z)
  BY <1>4, WorkSound DEF AtWork
<1> QED
  BY <1>1, <1>2, <1>5, WorkStep DEF w

LEMMA HandlerFailsSteps ==
    ASSUME PipelineInv, NEW e \in Events, HandlerFails(e)
    PROVE  Stepped(e)
<1> DEFINE x == ev[e]
           m == Made(x, "plain")
           y == [m EXCEPT !.body = "failed"]
           s == Stopped(x)
           z == [s EXCEPT !.body = "agent"]
<1>1. AtWork(x) /\ x.body = "handler"
  BY BodyAtWork DEF HandlerFails
<1>2. \/ ~x.stopped /\ Become(e, Offered(y))
      \/ Become(e, z)
  BY DEF HandlerFails
<1> HIDE DEF x
<1>3. CASE ~x.stopped /\ Become(e, Offered(y))
  <2>1. AtWork(m) /\ m.body = "handler" /\ ~m.stopped
    BY <1>1, <1>3, MadeWork
  <2> HIDE DEF m
  <2>2. AtWork(y) /\ ~y.stopped
    <3>1. m \in EventType /\ "failed" \in Bodies
      BY <2>1 DEF AtWork, Bodies
    <3>2. SameStops(m, y)
      BY <3>1, Placed
    <3> QED
      BY <2>1, <3>1, <3>2, PlacedWork DEF SameStops
  <2> HIDE DEF y
  <2>3. Offered(y) \in EventType /\ Good(Offered(y))
    BY <2>2, OfferedWork
  <2> QED
    BY <1>1, <1>3, <2>3, WorkStep DEF x
<1>4. CASE Become(e, z)
  <2>1. AtWork(s) /\ s.body = "handler"
    BY <1>1, StoppedWork DEF SameWords
  <2> HIDE DEF s
  <2>2. AtWork(z)
    BY <2>1, PlacedWork DEF Bodies
  <2>3. z \in EventType /\ Good(z)
    BY <2>2, WorkSound DEF AtWork
  <2> QED
    BY <1>1, <1>4, <2>3, WorkStep DEF x
<1> QED
  BY <1>2, <1>3, <1>4

LEMMA AgentSteps ==
    ASSUME PipelineInv, NEW e \in Events, Agent(e)
    PROVE  Stepped(e)
<1> DEFINE x == ev[e]
<1>1. AtWork(x) /\ x.body = "agent"
  BY BodyAtWork DEF Agent
<1>2. \/ ~x.stopped /\ \E b \in {"answers", "stream"} : Become(e, Started([x EXCEPT !.body = b]))
      \/ Become(e, Closed(x))
  BY DEF Agent
<1> HIDE DEF x
<1>3. CASE ~x.stopped /\ \E b \in {"answers", "stream"} :
                            Become(e, Started([x EXCEPT !.body = b]))
  <2>1. PICK b \in {"answers", "stream"} : Become(e, Started([x EXCEPT !.body = b]))
    BY <1>3
  <2> DEFINE y == [x EXCEPT !.body = b]
  <2>2. AtWork(y)
    BY <1>1, PlacedWork DEF Bodies
  <2>3. ~y.stopped
    BY <1>1, <1>3 DEF AtWork, EventType
  <2> HIDE DEF y
  <2>4. AtWork(Started(y))
    BY <2>2, <2>3, StartedWork
  <2>5. Started(y) \in EventType /\ Good(Started(y))
    BY <2>4, WorkSound DEF AtWork
  <2> QED
    BY <1>1, <2>1, <2>5, WorkStep DEF x, y
<1>4. CASE Become(e, Closed(x))
  <2>1. Closed(x) \in EventType /\ Good(Closed(x))
    BY <1>1, ClosedWork
  <2> QED
    BY <1>1, <1>4, <2>1, WorkStep DEF x
<1> QED
  BY <1>2, <1>3, <1>4

LEMMA AgentYieldsSteps ==
    ASSUME PipelineInv, NEW e \in Events, AgentYields(e)
    PROVE  Stepped(e)
<1> DEFINE x == ev[e]
           m == Made(x, "stream")
           y == [m EXCEPT !.body = "streamed"]
<1>1. AtWork(x)
  BY BodyAtWork DEF AgentYields
<1>2. Become(e, Yielded(Made(x, "plain"))) \/ Become(e, Yielded(y))
  BY DEF AgentYields
<1> HIDE DEF x
<1>3. CASE Become(e, Yielded(Made(x, "plain")))
  <2>1. AtWork(Made(x, "plain"))
    BY <1>1, MadeWork
  <2>2. /\ Yielded(Made(x, "plain")) \in EventType
        /\ Good(Yielded(Made(x, "plain")))
    BY <2>1, YieldedWork
  <2> QED
    BY <1>1, <1>3, <2>2, WorkStep DEF x
<1>4. CASE Become(e, Yielded(y))
  <2>1. /\ m \in EventType /\ SameFrames(x, m) /\ SameStops(x, m)
        /\ m.sent = x.sent /\ m.made = x.made + 1
        /\ m.result = [kind |-> "stream", id |-> x.made + 1]
    BY <1>1, MadeIs DEF AtWork
  <2> HIDE DEF m
  <2>2. /\ y \in EventType /\ SameFrames(m, y) /\ SameStops(m, y) /\ y.body = "streamed"
        /\ y.result = m.result /\ y.made = m.made /\ y.sent = m.sent
    BY <2>1, Placed DEF Bodies
  <2> HIDE DEF y
  <2>3. /\ SameFrames(x, y) /\ SameStops(x, y) /\ y.sent = x.sent /\ y.made = x.made + 1
        /\ y.result.id = x.made + 1 /\ y.result.kind = "stream" /\ y.worked = x.worked
    BY <2>1, <2>2 DEF SameFrames, SameStops
  <2>4. Core(y) /\ Unshown(y)
    BY <1>1, <2>2, <2>3, NewResultCore DEF AtWork
  <2>5. AtWork(y)
    BY <1>1, <2>2, <2>3, <2>4, WorkKept
  <2>6. Yielded(y) \in EventType /\ Good(Yielded(y))
    BY <2>5, YieldedWork
  <2> QED
    BY <1>1, <1>4, <2>6, WorkStep DEF x
<1> QED
  BY <1>2, <1>3, <1>4

LEMMA AgentEndsSteps ==
    ASSUME PipelineInv, NEW e \in Events, AgentEnds(e)
    PROVE  Stepped(e)
<1> DEFINE x == ev[e]
<1>1. AtWork(x)
  BY BodyAtWork DEF AgentEnds
<1>2. Become(e, Closed(x))
  BY DEF AgentEnds
<1> HIDE DEF x
<1>3. Closed(x) \in EventType /\ Good(Closed(x))
  BY <1>1, ClosedWork
<1> QED
  BY <1>1, <1>2, <1>3, WorkStep DEF x

-----------------------------------------------------------------------------
(* The generator is taken up again after the later stages.                 *)
LEMMA ResumedWork ==
    ASSUME NEW x \in EventType, x.stack # <<>>, Core(x), x.pc = "run", Top(x).at = 4,
           x.halted => x.stopped \/ x.reopen, ~x.stopped, Unshown(x)
    PROVE  AtWork(Resumed(x))
<1> DEFINE w == Running(x)
           y == [w EXCEPT !.stopped = x.reopen, !.reopen = FALSE]
<1>1. /\ w \in EventType /\ w.pc = "run" /\ SameWords(x, w) /\ SameStops(x, w)
      /\ Core(w) /\ Unshown(w)
      /\ w.stack # <<>> /\ Top(w).at = 4 /\ Top(w).gen = "run"
  BY RunningIs
<1>2. Resumed(x) = y /\ x.reopen \in BOOLEAN
  BY BooleanFlags DEF Resumed
<1> HIDE DEF w
<1>3. /\ y \in EventType /\ SameFrames(w, y) /\ SameWords(w, y)
      /\ y.stopped = x.reopen /\ ~y.reopen
      /\ y.halted = w.halted /\ y.worked = w.worked
  BY <1>1, <1>2 DEF EventType, SameFrames, SameWords
<1> HIDE DEF y
<1>4. Core(y) /\ Unshown(y)
  BY <1>1, <1>3, SameCore
<1>5. y.stack # <<>> /\ Top(y) = Top(w) /\ y.pc = "run"
  BY <1>1, <1>3, FramesKept
<1>6. y.halted => y.stopped
  BY <1>1, <1>3 DEF SameStops
<1> QED
  BY <1>1, <1>2, <1>3, <1>4, <1>5, <1>6 DEF AtWork

LEMMA ProcessAgainSteps ==
    ASSUME PipelineInv, NEW e \in Events, ProcessAgain(e)
    PROVE  Stepped(e)
<1> DEFINE x == ev[e]
           w == Running(x)
           s == Stopped(w)
           f == [s EXCEPT !.body = "agent", !.result = NoResult]
           a == [w EXCEPT !.result = NoResult]
<1>1. /\ x \in EventType /\ x.stack # <<>> /\ Core(x)
      /\ x.pc = "run" /\ Top(x).at = 4
      /\ x.halted => x.stopped \/ x.reopen
      /\ x.reopen => x.body = "handler"
      /\ Unshown(x) \/ x.stopped \/ x.body = "streamed"
  BY AtProcess DEF ProcessAgain, Ready
<1>2. \/ x.stopped /\ Become(e, Closed(x))
      \/ ~x.stopped /\ x.body = "handler" /\ Become(e, Resumed(x))
      \/ ~x.stopped /\ x.body = "failed" /\ Become(e, f)
      \/ ~x.stopped /\ x.body = "answers" /\ Become(e, a)
      \/ /\ ~x.stopped /\ x.body = "streamed"
         /\ \E kind \in {"finish", "drained"} :
               Become(e, Closed([x EXCEPT !.result = [kind |-> kind, id |-> 0]]))
  BY DEF ProcessAgain
<1> HIDE DEF x
<1>3. CASE x.stopped /\ Become(e, Closed(x))
  <2>1. Closed(x) \in EventType /\ Closed(x).pc = "run" /\ Sound(Closed(x))
    BY <1>1, <1>3, ClosedSound
  <2> QED
    BY <1>1, <1>3, <2>1, GoodStep DEF Good, x
<1>4. CASE ~x.stopped /\ x.body = "handler" /\ Become(e, Resumed(x))
  <2>1. AtWork(Resumed(x))
    BY <1>1, <1>4, ResumedWork
  <2>2. Resumed(x) \in EventType /\ Good(Resumed(x))
    BY <2>1, WorkSound DEF AtWork
  <2> QED
    BY <1>1, <1>4, <2>2, GoodStep DEF x
<1>5. ASSUME ~x.stopped, x.body \in {"failed", "answers"}
      PROVE  AtWork(w) /\ w.body = x.body
  <2>1. /\ w \in EventType /\ w.pc = "run" /\ SameWords(x, w) /\ SameStops(x, w)
        /\ Core(w) /\ Unshown(w)
        /\ w.stack # <<>> /\ Top(w).at = 4 /\ Top(w).gen = "run"
    BY <1>1, <1>5, RunningIs
  <2> HIDE DEF w
  <2> QED
    BY <1>1, <1>5, <2>1 DEF AtWork, SameWords, SameStops
<1>6. CASE ~x.stopped /\ x.body = "failed" /\ Become(e, f)
  <2>1. AtWork(w)
    BY <1>5, <1>6
  <2> HIDE DEF w
  <2>2. AtWork(s)
    BY <2>1, StoppedWork
  <2> HIDE DEF s
  <2>3. AtWork(f)
    BY <2>2, ClearedWork DEF Bodies
  <2> HIDE DEF f
  <2>4. f \in EventType /\ Good(f)
    BY <2>3, WorkSound DEF AtWork
  <2> QED
    BY <1>1, <1>6, <2>4, GoodStep DEF x
<1>7. CASE ~x.stopped /\ x.body = "answers" /\ Become(e, a)
  <2>1. AtWork(w) /\ w \in EventType
    BY <1>5, <1>7 DEF AtWork
  <2> HIDE DEF w
  <2>2. /\ a \in EventType /\ SameFrames(w, a) /\ SameStops(w, a)
        /\ a.result = NoResult /\ a.made = w.made /\ a.sent = w.sent
    BY <2>1, NoticesTyped DEF EventType, SameFrames, SameStops
  <2> HIDE DEF a
  <2>3. Core(a) /\ Unshown(a)
    BY <2>1, <2>2, SilentCore DEF AtWork, NoResult, SameStops
  <2>4. AtWork(a)
    BY <2>1, <2>2, <2>3, WorkKept
  <2>5. Good(a)
    BY <2>4, WorkSound
  <2> QED
    BY <1>1, <1>7, <2>2, <2>5, GoodStep DEF x
<1>8. CASE /\ ~x.stopped /\ x.body = "streamed"
           /\ \E kind \in {"finish", "drained"} :
                 Become(e, Closed([x EXCEPT !.result = [kind |-> kind, id |-> 0]]))
  <2>1. PICK kind \in {"finish", "drained"} :
           Become(e, Closed([x EXCEPT !.result = [kind |-> kind, id |-> 0]]))
    BY <1>8
  <2> DEFINE r == [kind |-> kind, id |-> 0]
             y == [x EXCEPT !.result = r]
  <2>2. r \in ResultType /\ r.id = 0 /\ r.kind \notin {"plain", "stream"}
    BY DEF ResultType
  <2>3. Become(e, Closed(y))
    BY <2>1
  <2> HIDE DEF r
  <2>4. /\ y \in EventType /\ SameFrames(x, y) /\ SameStops(x, y)
        /\ y.result = r /\ y.made = x.made /\ y.sent = x.sent
    BY <1>1, <2>2, Resulted
  <2> HIDE DEF y
  <2>5. Core(y) /\ Unshown(y)
    BY <1>1, <2>2, <2>4, SilentCore DEF SameStops
  <2>6. /\ y.stack # <<>> /\ Top(y).at = 4 /\ y.pc = "run"
        /\ y.halted => y.stopped \/ y.reopen
    BY <1>1, <2>4, FramesKept DEF SameStops
  <2>7. Closed(y) \in EventType /\ Closed(y).pc = "run" /\ Sound(Closed(y))
    BY <2>4, <2>5, <2>6, ClosedSound
  <2> QED
    BY <1>1, <2>3, <2>7, GoodStep DEF Good, x
<1> QED
  BY <1>2, <1>3, <1>4, <1>6, <1>7, <1>8

LEMMA DecorateSteps ==
    ASSUME PipelineInv, NEW e \in Events, Decorate(e)
    PROVE  Stepped(e)
<1> DEFINE x == ev[e]
           s == Stopped(x)
           c == [s EXCEPT !.cut = TRUE]
           n == [x EXCEPT !.result = NoResult, !.cut = TRUE]
           r == [s EXCEPT !.result = Notice, !.cut = TRUE]
<1>1. /\ x \in EventType /\ x.stack # <<>> /\ Core(x) /\ StopHeld(x)
      /\ x.pc = "run" /\ Top(x).at \in {1, 3, 5} /\ Top(x).gen # "yield"
      /\ Unshown(x) \/ x.stopped
  BY AtCoroutine DEF Decorate, Ready
<1>2. \/ Become(e, After(x)) \/ Become(e, After(c))
      \/ Become(e, After(n)) \/ Become(e, After(r))
  BY DEF Decorate
<1> HIDE DEF x
<1>3. CASE Become(e, After(x))
  <2>1. After(x) \in EventType /\ After(x).pc = "run" /\ Sound(After(x))
    BY <1>1, AfterSound
  <2> QED
    BY <1>1, <1>3, <2>1, GoodStep DEF Good, x
<1>4. /\ s \in EventType /\ SameFrames(x, s) /\ SameWords(x, s)
      /\ s.stopped /\ s.reopen = x.reopen /\ s.worked = x.worked
  BY <1>1, StoppedIs
<1>5. Core(s)
  BY <1>1, <1>4, SameCore
<1> HIDE DEF s
<1>6. CASE Become(e, After(c))
  <2>1. c \in EventType /\ SameFrames(s, c) /\ SameWords(s, c) /\ SameStops(s, c)
    BY <1>4, Marked
  <2> HIDE DEF c
  <2>2. Core(c) /\ SameFrames(x, c) /\ c.stopped /\ c.reopen = x.reopen /\ c.body = x.body
    BY <1>4, <1>5, <2>1, SameCore DEF SameFrames, SameWords, SameStops
  <2>3. After(c) \in EventType /\ After(c).pc = "run" /\ Sound(After(c))
    BY <1>1, <2>1, <2>2, StoppedAfterSound
  <2> QED
    BY <1>1, <1>6, <2>3, GoodStep DEF Good, x
<1>7. CASE Become(e, After(n))
  <2>1. /\ n \in EventType /\ SameFrames(x, n) /\ SameStops(x, n)
        /\ n.result = NoResult /\ n.made = x.made /\ n.sent = x.sent /\ n.body = x.body
    BY <1>1, NoticesTyped DEF EventType, SameFrames, SameStops
  <2> HIDE DEF n
  <2>2. Core(n) /\ Unshown(n)
    BY <1>1, <2>1, SilentCore DEF NoResult, SameStops
  <2>3. n.stack # <<>> /\ Top(n) = Top(x) /\ n.pc = "run" /\ n.stack = x.stack
    BY <1>1, <2>1, FramesKept
  <2>4. StopHeld(n)
    BY <1>1, <2>1, <2>3 DEF StopHeld, SameStops
  <2>5. After(n) \in EventType /\ After(n).pc = "run" /\ Sound(After(n))
    BY <1>1, <2>1, <2>2, <2>3, <2>4, AfterSound
  <2> QED
    BY <1>1, <1>7, <2>5, GoodStep DEF Good, x
<1>8. CASE Become(e, After(r))
  <2>1. /\ r \in EventType /\ SameFrames(s, r) /\ SameStops(s, r)
        /\ r.result = Notice /\ r.made = s.made /\ r.sent = s.sent /\ r.body = s.body
    BY <1>4, NoticesTyped DEF EventType, SameFrames, SameStops
  <2> HIDE DEF r
  <2>2. Core(r)
    BY <1>4, <1>5, <2>1, SilentCore DEF Notice, SameStops
  <2>3. SameFrames(x, r) /\ r.stopped /\ r.reopen = x.reopen /\ r.body = x.body
    BY <1>4, <2>1 DEF SameFrames, SameStops, SameWords
  <2>4. After(r) \in EventType /\ After(r).pc = "run" /\ Sound(After(r))
    BY <1>1, <2>1, <2>2, <2>3, StoppedAfterSound
  <2> QED
    BY <1>1, <1>8, <2>4, GoodStep DEF Good, x
<1> QED
  BY <1>2, <1>3, <1>6, <1>7, <1>8

LEMMA RespondNothingSteps ==
    ASSUME PipelineInv, NEW e \in Events, RespondNothing(e)
    PROVE  Stepped(e)
<1> DEFINE x == ev[e]
           y == [x EXCEPT !.over = @ \/ x.result.kind = "finish"]
<1>1. /\ x \in EventType /\ x.stack # <<>> /\ Core(x) /\ StopHeld(x)
      /\ x.pc = "run" /\ Top(x).at = 6 /\ Top(x).gen # "yield"
      /\ Unshown(x)
  BY AtRespond DEF RespondNothing, Ready
<1>2. Become(e, After(y))
  BY DEF RespondNothing
<1> HIDE DEF x
<1>3. y \in EventType /\ SameFrames(x, y) /\ SameWords(x, y) /\ SameStops(x, y)
  BY <1>1 DEF EventType, SameFrames, SameWords, SameStops
<1> HIDE DEF y
<1>4. Core(y) /\ Unshown(y) /\ StopHeld(y)
  BY <1>1, <1>3, SameCore, StopsKept DEF SameStops
<1>5. y.stack # <<>> /\ Top(y) = Top(x) /\ y.pc = "run"
  BY <1>1, <1>3, FramesKept
<1>6. After(y) \in EventType /\ After(y).pc = "run" /\ Sound(After(y))
  BY <1>1, <1>3, <1>4, <1>5, AfterSound
<1> QED
  BY <1>1, <1>2, <1>6, GoodStep DEF Good, x

LEMMA RespondSteps ==
    ASSUME PipelineInv, NEW e \in Events, Respond(e)
    PROVE  Stepped(e)
<1> DEFINE x == ev[e]
           y == [x EXCEPT !.sent = Append(@, x.result.id), !.send = TRUE]
           w == Running(y)
<1>1. /\ x \in EventType /\ x.stack # <<>> /\ Core(x) /\ StopHeld(x)
      /\ x.pc = "run" /\ Top(x).at = 6
      /\ Unshown(x)
  BY AtRespond DEF Respond, Ready
<1>2. Become(e, w)
  BY DEF Respond
<1> HIDE DEF x
<1>3. /\ y \in EventType /\ SameFrames(x, y) /\ SameStops(x, y)
      /\ y.body = x.body /\ y.result = x.result /\ y.made = x.made
      /\ y.sent = Append(x.sent, x.result.id)
  BY <1>1, SentIs
<1> HIDE DEF y
<1>4. Core(y)
  BY <1>1, <1>3, SentCore DEF SameStops
<1>5. y.stack # <<>> /\ Top(y) = Top(x) /\ y.pc = "run" /\ y.stack = x.stack
  BY <1>1, <1>3, FramesKept
<1>6. /\ w \in EventType /\ w.pc = "run" /\ SameWords(y, w) /\ SameStops(y, w)
      /\ Core(w) /\ w.stack # <<>> /\ Top(w).at = 6 /\ Top(w).gen = "run"
      /\ Len(w.stack) = Len(x.stack)
      /\ Len(x.stack) > 1 => w.stack[Len(x.stack) - 1] = x.stack[Len(x.stack) - 1]
  BY <1>1, <1>3, <1>4, <1>5, RunningIs
<1> HIDE DEF w
<1>7. StopHeld(w)
  BY <1>1, <1>3, <1>6 DEF StopHeld, SameStops, SameWords
<1>8. Sound(w)
  BY <1>6, <1>7 DEF Sound, Core, Behind
<1> QED
  BY <1>1, <1>2, <1>6, <1>8, GoodStep DEF Good, x

LEMMA RespondedSteps ==
    ASSUME PipelineInv, NEW e \in Events, Responded(e)
    PROVE  Stepped(e)
<1> DEFINE x == ev[e]
           n == [x EXCEPT !.result = NoResult]
           s == Stopped(x)
           c == [s EXCEPT !.cut = TRUE]
<1>1. /\ x \in EventType /\ x.stack # <<>> /\ Core(x) /\ StopHeld(x)
      /\ x.pc = "run" /\ Top(x).at = 6 /\ Top(x).gen # "yield"
  BY AtRespond DEF Responded, Ready
<1>2. \/ x.result.kind \in {"stream", "drained"} /\ Become(e, After(x))
      \/ Become(e, After(n))
      \/ Become(e, After(c))
  BY DEF Responded, SentOff
<1> HIDE DEF x
<1>3. CASE x.result.kind \in {"stream", "drained"} /\ Become(e, After(x))
  <2>1. Unshown(x) \/ x.body = "streamed"
    BY <1>1, <1>3 DEF Core, Numbered, Unshown
  <2>2. After(x) \in EventType /\ After(x).pc = "run" /\ Sound(After(x))
    BY <1>1, <2>1, AfterSound
  <2> QED
    BY <1>1, <1>3, <2>2, GoodStep DEF Good, x
<1>4. CASE Become(e, After(n))
  <2>1. /\ n \in EventType /\ SameFrames(x, n) /\ SameStops(x, n)
        /\ n.result = NoResult /\ n.made = x.made /\ n.sent = x.sent /\ n.body = x.body
    BY <1>1, NoticesTyped DEF EventType, SameFrames, SameStops
  <2> HIDE DEF n
  <2>2. Core(n) /\ Unshown(n)
    BY <1>1, <2>1, SilentCore DEF NoResult, SameStops
  <2>3. n.stack # <<>> /\ Top(n) = Top(x) /\ n.pc = "run" /\ n.stack = x.stack
    BY <1>1, <2>1, FramesKept
  <2>4. StopHeld(n)
    BY <1>1, <2>1, <2>3 DEF StopHeld, SameStops
  <2>5. After(n) \in EventType /\ After(n).pc = "run" /\ Sound(After(n))
    BY <1>1, <2>1, <2>2, <2>3, <2>4, AfterSound
  <2> QED
    BY <1>1, <1>4, <2>5, GoodStep DEF Good, x
<1>5. CASE Become(e, After(c))
  <2>1. /\ s \in EventType /\ SameFrames(x, s) /\ SameWords(x, s)
        /\ s.stopped /\ s.reopen = x.reopen /\ s.worked = x.worked
    BY <1>1, StoppedIs
  <2>2. Core(s)
    BY <1>1, <2>1, SameCore
  <2> HIDE DEF s
  <2>3. c \in EventType /\ SameFrames(s, c) /\ SameWords(s, c) /\ SameStops(s, c)
    BY <2>1, Marked
  <2> HIDE DEF c
  <2>4. Core(c) /\ SameFrames(x, c) /\ c.stopped /\ c.reopen = x.reopen /\ c.body = x.body
    BY <2>1, <2>2, <2>3, SameCore DEF SameFrames, SameWords, SameStops
  <2>5. After(c) \in EventType /\ After(c).pc = "run" /\ Sound(After(c))
    BY <1>1, <2>3, <2>4, StoppedAfterSound
  <2> QED
    BY <1>1, <1>5, <2>5, GoodStep DEF Good, x
<1> QED
  BY <1>2, <1>3, <1>4, <1>5

-----------------------------------------------------------------------------
(* The steps of the bus, and a reset.                                      *)
LEMMA SteppedKeeps ==
    ASSUME PipelineInv, NEW e \in Events, Stepped(e)
    PROVE  PipelineInv'
<1>1. PICK y \in EventType : Become(e, y) /\ Good(y)
  BY DEF Stepped
<1>2. /\ ev[e].pc \in {"task", "run"} /\ ev \in [Events -> EventType]
      /\ ev' = [ev EXCEPT ![e] = y]
      /\ queue' = queue /\ taken' = taken /\ bus' = bus
      /\ Sound(y) /\ y.pc \in {"run", "done"}
  BY <1>1 DEF Stepped, Become, Good, PipelineInv, Typed
<1>3. /\ ev' \in [Events -> EventType] /\ ev'[e] = y
      /\ \A f \in Events \ {e} : ev'[f] = ev[f]
  BY <1>2
<1>4. Typed'
  BY <1>2, <1>3 DEF PipelineInv, Typed
<1>5. Waiting'
  <2>1. \A f \in Events : ev[f].pc = "queued" => ev'[f].pc = "queued"
    BY <1>2, <1>3
  <2>2. \A f \in Events : ev'[f].pc \in {"queued", "task"} => ev'[f] = ev[f]
    BY <1>2, <1>3
  <2>3. queue \in Seq(Events) /\ \A i \in 1 .. Len(queue) : queue[i] \in Events
    BY DEF PipelineInv, Typed
  <2>4. taken # <<>> => taken[1] \in Events
    BY DEF PipelineInv, Typed
  <2>5. \A f \in Events : ev'[f].pc \in {"queued", "task"} =>
           ev'[f].sent = <<>> /\ ~ev'[f].reopen
    BY <2>2 DEF PipelineInv, Waiting
  <2> QED
    BY <1>2, <2>1, <2>3, <2>4, <2>5 DEF PipelineInv, Waiting
<1>6. StoppedIsQuiet'
  BY <1>2 DEF PipelineInv, StoppedIsQuiet
<1>7. \A f \in Events : Sound(ev'[f])
  BY <1>2, <1>3 DEF PipelineInv
<1> QED
  BY <1>4, <1>5, <1>6, <1>7 DEF PipelineInv, Sound, Framed, Numbered, InOrder, Unshown, Behind,
      StopHeld, Top

(* A step that marks events and otherwise leaves them as they are.         *)
LEMMA MarkedKeeps ==
    ASSUME PipelineInv, ev' \in [Events -> EventType], queue' = queue, taken' = taken,
           bus' = bus \/ (bus = "accepting" /\ bus' = "stopping"),
           \A e \in Events : /\ ev'[e].pc = ev[e].pc /\ ev'[e].sent = ev[e].sent
                             /\ ev'[e].reopen = ev[e].reopen /\ Sound(ev'[e])
    PROVE  PipelineInv'
<1>1. /\ queue \in Seq(Events) /\ \A i \in 1 .. Len(queue) : queue[i] \in Events
      /\ taken # <<>> => taken[1] \in Events
  BY DEF PipelineInv, Typed
<1>2. Typed'
  BY DEF PipelineInv, Typed
<1>3. Waiting'
  BY <1>1 DEF PipelineInv, Waiting
<1>4. StoppedIsQuiet'
  BY DEF PipelineInv, StoppedIsQuiet
<1> QED
  BY <1>2, <1>3, <1>4 DEF PipelineInv, Sound, Framed, Numbered, InOrder, Unshown, Behind,
      StopHeld, Top

LEMMA TakeKeeps ==
    ASSUME PipelineInv, Take
    PROVE  PipelineInv'
<1> DEFINE n == Len(queue)
           h == Head(queue)
           t == Tail(queue)
<1>1. /\ queue \in Seq(Events) /\ n \in Nat \ {0} /\ h = queue[1] /\ h \in Events
      /\ t \in Seq(Events) /\ Len(t) = n - 1
      /\ \A i \in 1 .. n - 1 : t[i] = queue[i + 1]
  BY DEF PipelineInv, Typed, Take
<1>2. /\ queue' = t /\ taken' = <<h>> /\ ev' = ev /\ bus' = bus
  BY DEF Take
<1>3. /\ \A i, j \in 1 .. n : queue[i] = queue[j] => i = j
      /\ \A i \in 1 .. n : ev[queue[i]].pc = "queued"
      /\ \A e \in Events :
            ev[e].pc \in {"queued", "task"} => ev[e].sent = <<>> /\ ~ev[e].reopen
  BY DEF PipelineInv, Waiting
<1> HIDE DEF n, h, t
<1>4. taken'[1] = h /\ taken' \in {<<e>> : e \in Events}
  BY <1>1, <1>2
<1>5. \A i \in 1 .. n - 1 : i + 1 \in 1 .. n /\ i \in 1 .. n /\ 1 \in 1 .. n /\ i + 1 # 1
  BY <1>1
<1>6. \A i, j \in 1 .. n - 1 : t[i] = t[j] => i = j
  <2> SUFFICES ASSUME NEW i \in 1 .. n - 1, NEW j \in 1 .. n - 1, t[i] = t[j]
               PROVE  i = j
    OBVIOUS
  <2>1. i + 1 = j + 1
    BY <1>1, <1>3, <1>5
  <2> QED
    BY <1>1, <2>1
<1>7. \A i \in 1 .. n - 1 : ev[t[i]].pc = "queued" /\ t[i] # h
  BY <1>1, <1>3, <1>5
<1>8. ev[h].pc = "queued"
  BY <1>1, <1>3
<1>9. Waiting'
  BY <1>1, <1>2, <1>3, <1>4, <1>6, <1>7, <1>8 DEF Waiting
<1>10. Typed'
  BY <1>1, <1>2, <1>4 DEF PipelineInv, Typed
<1>11. StoppedIsQuiet'
  BY <1>2 DEF PipelineInv, StoppedIsQuiet
<1> QED
  BY <1>2, <1>9, <1>10, <1>11 DEF PipelineInv, Sound, Framed, Numbered, InOrder, Unshown, Behind,
      StopHeld, Top

LEMMA DispatchKeeps ==
    ASSUME PipelineInv, Dispatch
    PROVE  PipelineInv'
<1> DEFINE e == taken[1]
<1>1. /\ taken # <<>> /\ e \in Events /\ ev \in [Events -> EventType]
      /\ ev[e].pc = "queued" /\ ev[e] \in EventType /\ Sound(ev[e])
      /\ ev[e].sent = <<>> /\ ~ev[e].reopen
      /\ \A i \in 1 .. Len(queue) : queue[i] # e /\ queue[i] \in Events
  BY DEF PipelineInv, Typed, Waiting, Dispatch
<1>2. /\ taken' = <<>> /\ queue' = queue /\ bus' = bus
      /\ \/ bus = "accepting" /\ ev' = [ev EXCEPT ![e].pc = "task"]
         \/ ev' = [ev EXCEPT ![e].pc = "lost"]
  BY DEF Dispatch
<1> HIDE DEF e
<1>3. PICK p \in {"task", "lost"} : /\ ev' = [ev EXCEPT ![e] = [ev[e] EXCEPT !.pc = p]]
                                    /\ p = "task" => bus = "accepting"
  BY <1>1, <1>2
<1> DEFINE x == ev[e]
           y == [x EXCEPT !.pc = p]
<1>4. /\ y \in EventType /\ y.pc = p /\ y.stack = x.stack
      /\ SameWords(x, y) /\ SameStops(x, y)
  BY <1>1 DEF EventType, SameWords, SameStops
<1>5. Sound(y)
  <2>1. Numbered(y) /\ InOrder(y) /\ (Unshown(x) => Unshown(y))
    BY <1>1, <1>4, WordsKept DEF Sound
  <2> HIDE DEF x, y
  <2>2. Framed(y) /\ StopHeld(y) /\ (Behind(x) => Behind(y))
    BY <1>1, <1>4 DEF Sound, Framed, StopHeld, Behind, SameWords, SameStops, Top, x
  <2> QED
    BY <1>1, <1>4, <2>1, <2>2 DEF Sound, SameStops, x
<1>6. /\ ev' \in [Events -> EventType] /\ ev'[e] = y
      /\ \A f \in Events \ {e} : ev'[f] = ev[f]
  BY <1>1, <1>3, <1>4
<1>7. y.sent = <<>> /\ ~y.reopen
  BY <1>1, <1>4 DEF SameWords, SameStops
<1> HIDE DEF x, y
<1>8. Typed'
  BY <1>2, <1>6 DEF PipelineInv, Typed
<1>9. Waiting'
  BY <1>1, <1>2, <1>6, <1>7 DEF PipelineInv, Waiting
<1>10. StoppedIsQuiet'
  <2> SUFFICES ASSUME bus' = "stopped", NEW f \in Events
               PROVE  ev'[f].pc \notin {"task", "run"}
    BY DEF StoppedIsQuiet
  <2>1. bus = "stopped" /\ p = "lost" /\ ev[f].pc \notin {"task", "run"}
    BY <1>2, <1>3 DEF PipelineInv, StoppedIsQuiet
  <2> QED
    BY <1>4, <1>6, <2>1
<1>11. \A f \in Events : Sound(ev'[f])
  BY <1>5, <1>6 DEF PipelineInv
<1> QED
  BY <1>8, <1>9, <1>10, <1>11 DEF PipelineInv, Sound, Framed, Numbered, InOrder, Unshown, Behind,
      StopHeld, Top

LEMMA StopKeeps ==
    ASSUME PipelineInv, Stop
    PROVE  PipelineInv'
<1> DEFINE y(e) == [ev[e] EXCEPT !.cancel = ev[e].pc \in {"task", "run"}]
<1>1. /\ bus = "accepting" /\ bus' = "stopping" /\ queue' = queue /\ taken' = taken
      /\ ev' = [e \in Events |-> y(e)]
  BY DEF Stop
<1>2. \A e \in Events : ev[e] \in EventType /\ Sound(ev[e])
  BY DEF PipelineInv, Typed
<1>3. ASSUME NEW e \in Events
      PROVE  /\ y(e) \in EventType /\ SameFrames(ev[e], y(e))
             /\ SameWords(ev[e], y(e)) /\ SameStops(ev[e], y(e))
  <2> DEFINE x == ev[e]
  <2>1. x \in EventType
    BY <1>2
  <2>2. CASE x.pc \in {"task", "run"}
    <3>1. y(e) = [x EXCEPT !.cancel = TRUE]
      BY <2>2
    <3> QED
      BY <2>1, <3>1, Marked
  <2>3. CASE x.pc \notin {"task", "run"}
    <3>1. (x.pc \in {"task", "run"}) = FALSE
      BY <2>3
    <3>2. y(e) = [x EXCEPT !.cancel = FALSE]
      BY <3>1, Zenon
    <3> QED
      BY <2>1, <3>2, Marked
  <2> QED
    BY <2>2, <2>3
<1>4. \A e \in Events : Sound(y(e))
  BY <1>2, <1>3, SoundKept
<1> HIDE DEF y
<1>5. ev' \in [Events -> EventType] /\ \A e \in Events : ev'[e] = y(e)
  BY <1>1, <1>3
<1>6. \A e \in Events : /\ ev'[e].pc = ev[e].pc /\ ev'[e].sent = ev[e].sent
                        /\ ev'[e].reopen = ev[e].reopen /\ Sound(ev'[e])
  BY <1>3, <1>4, <1>5 DEF SameFrames, SameWords, SameStops
<1> QED
  BY <1>1, <1>5, <1>6, MarkedKeeps

LEMMA ResetKeeps ==
    ASSUME PipelineInv, NEW e \in Events, Reset(e)
    PROVE  PipelineInv'
<1> DEFINE z(f) == [Stopped(ev[f]) EXCEPT !.cut = TRUE,
                       !.reset = IF ev[f].reset = 0 THEN ev[f].made + 1 ELSE @]
           y(f) == IF f # e /\ ev[f].pc = "run" THEN z(f) ELSE ev[f]
<1>1. /\ queue' = queue /\ taken' = taken /\ bus' = bus
      /\ ev' = [f \in Events |-> y(f)]
  BY DEF Reset
<1>2. \A f \in Events : ev[f] \in EventType /\ Sound(ev[f])
  BY DEF PipelineInv, Typed
<1>3. ASSUME NEW f \in Events
      PROVE  /\ y(f) \in EventType /\ Sound(y(f)) /\ y(f).pc = ev[f].pc
             /\ y(f).sent = ev[f].sent /\ y(f).reopen = ev[f].reopen
  <2>1. CASE ~(f # e /\ ev[f].pc = "run")
    BY <1>2, <2>1
  <2>2. CASE f # e /\ ev[f].pc = "run"
    <3> DEFINE x == ev[f]
               s == Stopped(x)
               c == [s EXCEPT !.cut = TRUE]
               n == IF x.reset = 0 THEN x.made + 1 ELSE s.reset
               w == [c EXCEPT !.reset = n]
    <3>1. x \in EventType /\ Sound(x)
      BY <1>2
    <3>2. y(f) = w
      BY <2>2
    <3> HIDE DEF y, x
    <3>3. /\ s \in EventType /\ SameFrames(x, s) /\ SameWords(x, s)
          /\ s.stopped /\ s.halted /\ s.reopen = x.reopen /\ s.worked = x.worked
      BY <3>1, StoppedIs
    <3>4. n \in Nat
      <4>1. x.made \in Nat /\ s.reset \in Nat
        BY <3>1, <3>3 DEF EventType
      <4> QED
        BY <4>1
    <3> HIDE DEF s, n
    <3>5. c \in EventType /\ SameFrames(s, c) /\ SameWords(s, c) /\ SameStops(s, c)
      BY <3>3, Marked
    <3> HIDE DEF c
    <3>6. w \in EventType /\ SameFrames(c, w) /\ SameWords(c, w) /\ SameStops(c, w)
      BY <3>4, <3>5, Marked
    <3> HIDE DEF w
    <3>7. /\ SameFrames(x, w) /\ SameWords(x, w)
          /\ w.stopped /\ w.halted /\ w.reopen = x.reopen /\ w.worked = x.worked
      BY <3>3, <3>5, <3>6 DEF SameFrames, SameWords, SameStops
    <3>8. Framed(w) /\ Numbered(w) /\ InOrder(w) /\ (Unshown(x) => Unshown(w))
      BY <3>1, <3>7, FramesKept, WordsKept DEF Sound
    <3>9. StopHeld(w) /\ (Behind(x) => Behind(w))
      BY <3>1, <3>7 DEF Sound, StopHeld, Behind, SameFrames, SameWords, Top
    <3>10. Sound(w)
      BY <3>1, <3>7, <3>8, <3>9 DEF Sound
    <3> QED
      BY <3>2, <3>6, <3>7, <3>10 DEF SameFrames, SameWords, x
  <2> QED
    BY <2>1, <2>2
<1> HIDE DEF y
<1>4. ev' \in [Events -> EventType] /\ \A f \in Events : ev'[f] = y(f)
  BY <1>1, <1>3
<1> QED
  BY <1>1, <1>3, <1>4, MarkedKeeps

LEMMA InitSound == Init => PipelineInv
<1> SUFFICES ASSUME Init PROVE PipelineInv
  OBVIOUS
<1>1. /\ Fresh \in EventType /\ Fresh.pc = "queued" /\ Fresh.sent = <<>>
      /\ Fresh.stack = <<>> /\ ~Fresh.reopen /\ ~Fresh.halted /\ ~Fresh.worked
      /\ Fresh.result = NoResult /\ Fresh.made = 0
  BY FreshTyped
<1>2. Sound(Fresh)
  BY <1>1 DEF Sound, Framed, Numbered, InOrder, Unshown, StopHeld, NoResult
<1>3. ev \in [Events -> EventType] /\ \A e \in Events : ev[e] = Fresh
  BY <1>1 DEF Init
<1> DEFINE n == Cardinality(Events)
<1>4. n \in Nat
  BY EventsAssumption, FS_CardinalityType
<1>5. queue \in [1 .. n -> Events] /\ IsInjective(queue)
  BY DEF Init
<1> HIDE DEF n
<1>6. queue \in Seq(Events) /\ Len(queue) = n
  BY <1>4, <1>5
<1>7. \A i, j \in 1 .. Len(queue) : queue[i] = queue[j] => i = j
  BY <1>5, <1>6 DEF IsInjective
<1>8. \A i \in 1 .. Len(queue) : queue[i] \in Events
  BY <1>6
<1>9. Typed
  BY <1>3, <1>6 DEF Typed, Init
<1>10. Waiting
  BY <1>1, <1>3, <1>7, <1>8 DEF Waiting, Init
<1>11. StoppedIsQuiet
  BY DEF StoppedIsQuiet, Init
<1> QED
  BY <1>2, <1>3, <1>9, <1>10, <1>11 DEF PipelineInv

LEMMA PipelineInductive == PipelineInv /\ [Next]_vars => PipelineInv'
<1> SUFFICES ASSUME PipelineInv, [Next]_vars PROVE PipelineInv'
  OBVIOUS
<1>1. CASE Take
  BY <1>1, TakeKeeps
<1>2. CASE Dispatch
  BY <1>2, DispatchKeeps
<1>3. CASE Stop
  BY <1>3, StopKeeps
<1>4. CASE StopEnds
  <2>1. /\ queue' = queue /\ taken' = taken /\ ev' = ev /\ bus' = "stopped"
        /\ \A e \in Events : ev[e].pc \notin {"task", "run"}
    BY <1>4 DEF StopEnds
  <2>2. Typed' /\ Waiting' /\ StoppedIsQuiet'
    BY <2>1 DEF PipelineInv, Typed, Waiting, StoppedIsQuiet
  <2> QED
    BY <2>1, <2>2 DEF PipelineInv, Sound, Framed, Numbered, InOrder, Unshown, Behind, StopHeld, Top
<1>5. ASSUME NEW e \in Events, TaskStep(e) \/ Breaks(e) \/ Shrugs(e)
      PROVE  PipelineInv'
  <2>1. Stepped(e)
    BY <1>5, BeginSteps, EndsSteps, FrontSteps, SafetySteps, SafetyAgainSteps,
       PreprocessSteps, ProcessSteps, NextHandlerSteps, HandlerFailsSteps, AgentSteps,
       AgentYieldsSteps, HandlerYieldsSteps, HandlerEndsSteps, AgentEndsSteps,
       ProcessAgainSteps, DecorateSteps, RespondNothingSteps, RespondSteps,
       RespondedSteps, BreaksSteps, ShrugsSteps DEF TaskStep
  <2> QED
    BY <2>1, SteppedKeeps
<1>6. ASSUME NEW e \in Events, Reset(e)
      PROVE  PipelineInv'
  BY <1>6, ResetKeeps
<1>7. CASE UNCHANGED vars
  BY <1>7 DEF vars, PipelineInv, Typed, Waiting, StoppedIsQuiet, Sound, Framed, Numbered, InOrder,
      Unshown, Behind, StopHeld, Top
<1> QED
  BY <1>1, <1>2, <1>3, <1>4, <1>5, <1>6, <1>7 DEF Next

LEMMA PipelineInvariant == Spec => []PipelineInv
BY InitSound, PipelineInductive, PTL DEF Spec

(* The queue, the bus and every event with its stack of suspended stages   *)
(* are well formed in every reachable state, and under the top of a stack  *)
(* every frame is suspended at a yield.                                    *)
THEOREM PipelineTyped == Spec => []TypeOK
<1>1. PipelineInv => TypeOK
  <2> SUFFICES ASSUME PipelineInv PROVE TypeOK
    OBVIOUS
  <2>1. ASSUME NEW e \in Events
        PROVE  /\ ev[e].pc \in {"queued", "task", "run", "done", "lost"}
               /\ \A i \in DOMAIN ev[e].stack :
                     /\ ev[e].stack[i].at \in DOMAIN Stages
                     /\ ev[e].stack[i].gen \in {"none", "run", "yield"}
                     /\ i < Len(ev[e].stack) => ev[e].stack[i].gen = "yield"
               /\ ev[e].made \in Nat /\ ev[e].idle \in Nat /\ ev[e].left \in 0 .. Handlers
    <3> DEFINE x == ev[e]
    <3>1. x \in EventType /\ Framed(x)
      BY DEF PipelineInv, Typed, Sound
    <3> HIDE DEF x
    <3>2. x.stack \in Seq(FrameType) /\ x.made \in Nat /\ x.idle \in Nat
          /\ x.left \in 0 .. Handlers /\ x.pc \in {"queued", "task", "run", "done", "lost"}
      BY <3>1 DEF EventType
    <3>3. \A i \in DOMAIN x.stack : x.stack[i] \in FrameType /\ i \in 1 .. Len(x.stack)
      BY <3>2
    <3> QED
      BY <3>1, <3>2, <3>3 DEF FrameType, Framed, x
  <2> QED
    BY <2>1 DEF PipelineInv, Typed, TypeOK
<1> QED
  BY PipelineInvariant, <1>1, PTL

(* Though decoration and response run again after every yield of every     *)
(* generator below them, no result is handed to the platform twice, and    *)
(* none before an older one (PipelineScheduler._process_stages).           *)
THEOREM ResultsAreShownOnce == Spec => []ShownOnce
<1>1. PipelineInv => ShownOnce
  <2> SUFFICES ASSUME PipelineInv, NEW e \in Events, NEW i \in DOMAIN ev[e].sent,
                      NEW j \in DOMAIN ev[e].sent,
                      i < j, ev[e].sent[i] # 0, ev[e].sent[j] # 0
               PROVE  ev[e].sent[i] < ev[e].sent[j]
    BY DEF ShownOnce
  <2>1. ev[e] \in EventType /\ InOrder(ev[e])
    BY DEF PipelineInv, Typed, Sound
  <2>2. ev[e].sent \in Seq(Nat)
    BY <2>1 DEF EventType
  <2>3. i \in 1 .. Len(ev[e].sent) /\ j \in 1 .. Len(ev[e].sent)
    BY <2>2
  <2> QED
    BY <2>1, <2>3 DEF InOrder
<1> QED
  BY PipelineInvariant, <1>1, PTL

(* Once stop has returned no task of an event is left and none appears:    *)
(* an event that was taken before is lost, not started (EventBus.stop).    *)
THEOREM StoppedBusIsQuiet == Spec => []StoppedIsQuiet
<1>1. PipelineInv => StoppedIsQuiet
  BY DEF PipelineInv
<1> QED
  BY PipelineInvariant, <1>1, PTL

(* A stopped event starts no handler and no agent any more, although it is *)
(* opened again for the delivery of a handler's result: the stop that was  *)
(* put off holds again before the handler goes on                          *)
(* (defer_stop_for_delivery).                                              *)
THEOREM StopsHold == Spec => []StoppedStartsNothing
<1>1. PipelineInv => StoppedStartsNothing
  BY DEF PipelineInv, Sound, StoppedStartsNothing
<1> QED
  BY PipelineInvariant, <1>1, PTL

-----------------------------------------------------------------------------
(* The rate limit.                                                         *)

(* What the deque has lost has left the window, for good.                  *)
LostIsOld == \A i \in 1..(oldest - 1) : Expired(passed[i])

(* The inductive invariant.                                                *)
LimitInv == LimitTypeOK /\ LostIsOld /\ WindowHolds

LEMMA RulesAreTyped ==
    ASSUME NEW e \in SessionEvents, LimitTypeOK
    PROVE  rule[e].cap \in Nat
<1>1. rule[e] \in Policies \cup {NoRule}
  BY DEF LimitTypeOK
<1>2. \A r \in Policies : r.cap \in Nat
  BY CapsAssumption DEF Policies
<1>3. NoRule.cap \in Nat
  BY DEF NoRule
<1> QED
  BY <1>1, <1>2, <1>3

LEMMA LimitInitially == LimitInit => LimitInv
<1> SUFFICES ASSUME LimitInit PROVE LimitInv
  OBVIOUS
<1>1. LimitTypeOK
  BY DEF LimitInit, LimitTypeOK, Phase, Slot
<1>2. LostIsOld
  BY DEF LimitInit, LostIsOld
<1>3. WindowHolds
  BY DEF LimitInit, WindowHolds
<1> QED
  BY <1>1, <1>2, <1>3 DEF LimitInv

(* A step that takes no slot and moves neither the clock back nor the      *)
(* deque keeps the two facts about stamps.                                 *)
LEMMA StampsKept ==
    ASSUME LimitTypeOK, LostIsOld, WindowHolds, LimitTypeOK',
           passed' = passed, oldest' = oldest, clock' \in Nat, clock' >= clock
    PROVE  LostIsOld' /\ WindowHolds'
<1>1. LostIsOld'
  <2> SUFFICES ASSUME NEW i \in 1..(oldest - 1) PROVE Expired(passed[i])'
    BY DEF LostIsOld
  <2>1. oldest \in 1..(Len(passed) + 1) /\ passed \in Seq(Slot) /\ clock \in Nat
    BY DEF LimitTypeOK
  <2>2. i \in 1..Len(passed)
    BY <2>1
  <2>3. passed[i] \in Slot
    BY <2>1, <2>2
  <2>4. passed[i].at \in Nat
    BY <2>3 DEF Slot
  <2>5. passed[i].at + Window < clock
    BY DEF LostIsOld, Expired
  <2> QED
    BY <2>1, <2>4, <2>5, WindowAssumption DEF Expired
<1>2. WindowHolds'
  BY DEF WindowHolds
<1> QED
  BY <1>1, <1>2

(* What Check drops has left the window.                                   *)
LEMMA CheckDropsOld ==
    ASSUME LimitTypeOK, LostIsOld, NEW f \in oldest..(Len(passed) + 1), Cleaned(f)
    PROVE  \A i \in 1..(f - 1) : i \in DOMAIN passed /\ Expired(passed[i])
<1>1. oldest \in 1..(Len(passed) + 1) /\ passed \in Seq(Slot)
  BY DEF LimitTypeOK
<1> SUFFICES ASSUME NEW i \in 1..(f - 1)
             PROVE  i \in DOMAIN passed /\ Expired(passed[i])
  OBVIOUS
<1>2. i \in DOMAIN passed
  BY <1>1
<1>3. CASE i < oldest
  <2>1. i \in 1..(oldest - 1)
    BY <1>1, <1>3
  <2> QED
    BY <1>2, <2>1 DEF LostIsOld
<1>4. CASE i >= oldest
  <2>1. i \in oldest..(f - 1)
    BY <1>1, <1>4
  <2> QED
    BY <1>2, <2>1 DEF Cleaned
<1> QED
  BY <1>1, <1>3, <1>4

(* A typed step of the holder: what it leaves behind it.                   *)
LEMMA CheckKeeps ==
    ASSUME LimitInv, NEW e \in SessionEvents, Check(e)
    PROVE  LimitInv'
<1>1. PICK f \in oldest..(Len(passed) + 1) :
         /\ Cleaned(f)
         /\ oldest' = f
         /\ Pass(e, f) \/ Stall(e, f) \/ Discard(e, f)
  BY DEF Check
<1>2. /\ e = Head(line) /\ line # <<>>
      /\ clock' = clock /\ rule' = rule /\ arrived' = arrived
  BY DEF Check, LockReady
<1>3. /\ clock \in Nat /\ rule[e].cap \in Nat
      /\ oldest \in 1..(Len(passed) + 1) /\ passed \in Seq(Slot)
      /\ line \in Seq(SessionEvents) /\ phase \in [SessionEvents -> Phase]
      /\ until \in [SessionEvents -> Nat]
  BY RulesAreTyped DEF LimitInv, LimitTypeOK
<1>4. f \in Nat /\ f >= 1 /\ f <= Len(passed) + 1
  BY <1>1, <1>3
<1>5. \A i \in 1..(f - 1) : i \in DOMAIN passed /\ Expired(passed[i])
  BY <1>1, CheckDropsOld DEF LimitInv
<1>6. rule[e].cap # 0 => Stamp(e) \in Slot
  BY <1>3 DEF Stamp, Slot
<1>7. Tail(line) \in Seq(SessionEvents)
  BY <1>2, <1>3
<1>8. line' \in Seq(SessionEvents) /\ phase' \in [SessionEvents -> Phase]
  <2>1. CASE Pass(e, f)
    BY <1>3, <1>7, <2>1 DEF Pass, Released, Phase
  <2>2. CASE Stall(e, f)
    BY <1>3, <2>2 DEF Stall, Kept, Phase
  <2>3. CASE Discard(e, f)
    BY <1>3, <1>7, <2>3 DEF Discard, Released, Phase
  <2> QED
    BY <1>1, <2>1, <2>2, <2>3
<1>9. until' \in [SessionEvents -> Nat]
  <2>1. CASE Pass(e, f)
    BY <1>3, <2>1 DEF Pass
  <2>2. CASE Holds(e, f) /\ until' = [until EXCEPT ![e] = NextSlot(f)]
    <3>1. f \in 1..Len(passed)
      BY <1>3, <1>4, <2>2 DEF Holds, Left
    <3>2. passed[f] \in Slot
      BY <1>3, <3>1
    <3>3. passed[f].at \in Nat
      BY <3>2 DEF Slot
    <3>4. NextSlot(f) \in Nat
      BY <3>3, WindowAssumption DEF NextSlot
    <3> QED
      BY <1>3, <2>2, <3>4
  <2> QED
    BY <1>1, <2>1, <2>2 DEF Stall, Discard
<1>10. CASE passed' = passed
  <2>1. oldest' \in 1..(Len(passed') + 1) /\ passed' \in Seq(Slot)
    BY <1>1, <1>3, <1>4, <1>10
  <2>2. LimitTypeOK'
    BY <1>2, <1>8, <1>9, <2>1 DEF LimitInv, LimitTypeOK
  <2>3. LostIsOld'
    BY <1>1, <1>2, <1>5, <1>10 DEF LostIsOld, Expired
  <2>4. WindowHolds'
    BY <1>10 DEF LimitInv, WindowHolds
  <2> QED
    BY <2>2, <2>3, <2>4 DEF LimitInv
<1>11. CASE /\ passed' = Append(passed, Stamp(e))
            /\ rule[e].cap # 0
            /\ Left(f) < rule[e].cap
  <2>1. /\ passed' \in Seq(Slot)
        /\ Len(passed') = Len(passed) + 1
        /\ \A i \in 1..Len(passed) : passed'[i] = passed[i]
        /\ passed'[Len(passed) + 1] = Stamp(e)
    BY <1>3, <1>6, <1>11
  <2>2. oldest' \in 1..(Len(passed') + 1)
    BY <1>1, <1>3, <1>4, <2>1
  <2>3. LimitTypeOK'
    BY <1>2, <1>8, <1>9, <2>1, <2>2 DEF LimitInv, LimitTypeOK
  <2>4. \A i \in 1..(f - 1) : i \in 1..Len(passed)
    BY <1>3, <1>4
  <2>5. LostIsOld'
    BY <1>1, <1>2, <1>5, <2>1, <2>4 DEF LostIsOld, Expired
  <2>6. WindowHolds'
    <3> SUFFICES ASSUME NEW j \in DOMAIN passed', NEW i \in DOMAIN passed',
                        i + passed'[j].cap = j
                 PROVE  passed'[i].at + Window < passed'[j].at
      BY DEF WindowHolds
    <3>1. i \in 1..(Len(passed) + 1) /\ j \in 1..(Len(passed) + 1)
      BY <2>1
    <3>2. CASE j \in 1..Len(passed)
      <4>1. passed'[j] = passed[j]
        BY <2>1, <3>2
      <4>a. passed[j] \in Slot
        BY <1>3, <3>2
      <4>2. passed[j].cap \in Nat
        BY <4>a DEF Slot
      <4>3. i \in 1..Len(passed)
        BY <3>1, <3>2, <4>1, <4>2
      <4>4. passed'[i] = passed[i]
        BY <2>1, <4>3
      <4> QED
        BY <1>3, <3>2, <4>1, <4>3, <4>4 DEF LimitInv, WindowHolds
    <3>3. CASE j = Len(passed) + 1
      <4>1. passed'[j].cap = rule[e].cap /\ passed'[j].at = clock
        BY <2>1, <3>3 DEF Stamp
      <4>2. i \in 1..(f - 1)
        BY <1>3, <1>4, <1>11, <3>1, <3>3, <4>1 DEF Left
      <4>3. passed'[i] = passed[i]
        BY <2>1, <2>4, <4>2
      <4> QED
        BY <1>5, <4>1, <4>2, <4>3 DEF Expired
    <3> QED
      BY <3>1, <3>2, <3>3
  <2> QED
    BY <2>3, <2>5, <2>6 DEF LimitInv
<1>12. passed' = passed \/ (/\ passed' = Append(passed, Stamp(e))
                            /\ rule[e].cap # 0
                            /\ Left(f) < rule[e].cap)
  BY <1>1 DEF Pass, Stamped, Stall, Discard
<1> QED
  BY <1>10, <1>11, <1>12

(* An event that leaves the line.                                          *)
LEMMA CancelTyped ==
    ASSUME LimitTypeOK, NEW e \in SessionEvents, Cancel(e)
    PROVE  LimitTypeOK'
<1>1. PICK i \in DOMAIN line : line' = RemoveAt(line, i)
  BY DEF Cancel
<1>2. line \in Seq(SessionEvents) /\ phase \in [SessionEvents -> Phase]
  BY DEF LimitTypeOK
<1>3. i \in 1..Len(line)
  BY <1>1, <1>2
<1>4. SubSeq(line, 1, i - 1) \in Seq(SessionEvents)
  BY <1>2, <1>3
<1>5. SubSeq(line, i + 1, Len(line)) \in Seq(SessionEvents)
  BY <1>2, <1>3
<1>6. line' \in Seq(SessionEvents)
  BY <1>1, <1>4, <1>5 DEF RemoveAt
<1>7. phase' \in [SessionEvents -> Phase]
  BY <1>2 DEF Cancel, Phase
<1> QED
  BY <1>6, <1>7 DEF Cancel, LimitTypeOK

LEMMA LimitInductive == LimitInv /\ [LimitNext]_limitVars => LimitInv'
<1> SUFFICES ASSUME LimitInv, [LimitNext]_limitVars PROVE LimitInv'
  OBVIOUS
<1> USE DEF LimitInv
<1>1. CASE \E e \in SessionEvents : Check(e)
  BY <1>1, CheckKeeps
<1>2. CASE \E e \in SessionEvents : Arrive(e)
  <2>1. PICK e \in SessionEvents : Arrive(e)
    BY <1>2
  <2>2. PICK policy \in Policies : rule' = [rule EXCEPT ![e] = policy]
    BY <2>1 DEF Arrive
  <2>3. rule' \in [SessionEvents -> Policies \cup {NoRule}]
    BY <2>2 DEF LimitTypeOK
  <2>4. phase' \in [SessionEvents -> Phase]
    BY <2>1 DEF Arrive, LimitTypeOK, Phase
  <2>5. line' \in Seq(SessionEvents) /\ arrived' \in Seq(SessionEvents)
    BY <2>1 DEF Arrive, LimitTypeOK
  <2>6. LimitTypeOK'
    BY <2>1, <2>3, <2>4, <2>5 DEF Arrive, LimitTypeOK
  <2>7. passed' = passed /\ oldest' = oldest /\ clock' = clock /\ clock \in Nat
    BY <2>1 DEF Arrive, LimitTypeOK
  <2> QED
    BY <2>6, <2>7, StampsKept
<1>3. CASE \E e \in SessionEvents : Cancel(e)
  <2>1. PICK e \in SessionEvents : Cancel(e)
    BY <1>3
  <2>2. LimitTypeOK'
    BY <2>1, CancelTyped
  <2>3. passed' = passed /\ oldest' = oldest /\ clock' = clock /\ clock \in Nat
    BY <2>1 DEF Cancel, LimitTypeOK
  <2> QED
    BY <2>2, <2>3, StampsKept
<1>4. CASE Tick
  <2>1. LimitTypeOK'
    BY <1>4 DEF Tick, LimitTypeOK
  <2>2. passed' = passed /\ oldest' = oldest /\ clock' \in Nat /\ clock' >= clock
    BY <1>4 DEF Tick, LimitTypeOK
  <2> QED
    BY <2>1, <2>2, StampsKept
<1>5. CASE UNCHANGED limitVars
  <2>1. LimitTypeOK'
    BY <1>5 DEF limitVars, LimitTypeOK
  <2>2. passed' = passed /\ oldest' = oldest /\ clock' = clock /\ clock \in Nat
    BY <1>5 DEF limitVars, LimitTypeOK
  <2> QED
    BY <2>1, <2>2, StampsKept
<1> QED
  BY <1>1, <1>2, <1>3, <1>4, <1>5 DEF LimitNext, AllDecided

(* The stage's state is well formed in every reachable state; the deque    *)
(* holds the newest stamps and nothing else.                               *)
THEOREM LimitTyped == LimitSpec => []LimitTypeOK
<1>1. LimitInv => LimitTypeOK
  BY DEF LimitInv
<1> QED
  BY LimitInitially, LimitInductive, <1>1, PTL DEF LimitSpec

(* No window of the configured length holds more events than the limit of  *)
(* the last one allows, whatever the policies of the others, however late  *)
(* a sleeper wakes, and whatever is cancelled (RateLimitStage.process).    *)
THEOREM WindowIsBounded == LimitSpec => []WindowHolds
<1>1. LimitInv => WindowHolds
  BY DEF LimitInv
<1> QED
  BY LimitInitially, LimitInductive, <1>1, PTL DEF LimitSpec

-----------------------------------------------------------------------------
(* The stamps are in the order of their times, none is in the future.      *)
Ordered ==
    /\ \A i, j \in DOMAIN passed : i <= j => passed[i].at <= passed[j].at
    /\ \A i \in DOMAIN passed : passed[i].at <= clock

LEMMA SlotsAreTyped ==
    ASSUME LimitTypeOK, NEW i \in DOMAIN passed
    PROVE  passed[i].at \in Nat /\ i \in 1..Len(passed)
<1>1. passed \in Seq(Slot)
  BY DEF LimitTypeOK
<1>2. passed[i] \in Slot /\ i \in 1..Len(passed)
  BY <1>1
<1> QED
  BY <1>2 DEF Slot

LEMMA OrderKept ==
    ASSUME LimitInv, Ordered, [LimitNext]_limitVars
    PROVE  Ordered'
<1>1. /\ passed \in Seq(Slot) /\ clock \in Nat
      /\ \A i \in DOMAIN passed : passed[i].at \in Nat /\ i \in 1..Len(passed)
  BY SlotsAreTyped DEF LimitInv, LimitTypeOK
<1>2. \/ passed' = passed /\ (clock' = clock \/ clock' = clock + 1)
      \/ /\ clock' = clock
         /\ \E e \in SessionEvents : passed' = Append(passed, Stamp(e))
  <2>1. CASE \E e \in SessionEvents : Check(e)
    BY <2>1 DEF Check, Pass, Stamped, Stall, Discard
  <2>2. CASE ~(\E e \in SessionEvents : Check(e))
    BY <2>2 DEF LimitNext, limitVars, Arrive, Cancel, Tick, AllDecided
  <2> QED
    BY <2>1, <2>2
<1>3. CASE passed' = passed /\ (clock' = clock \/ clock' = clock + 1)
  BY <1>1, <1>3 DEF Ordered
<1>4. CASE /\ clock' = clock
           /\ \E e \in SessionEvents : passed' = Append(passed, Stamp(e))
  <2>1. PICK e \in SessionEvents : passed' = Append(passed, Stamp(e))
    BY <1>4
  <2>2. Stamp(e) \in Slot \/ rule[e].cap = 0
    BY <1>1, RulesAreTyped DEF LimitInv, Stamp, Slot
  <2> DEFINE n == Len(passed)
             s == Stamp(e)
  <2>3. /\ DOMAIN passed' = 1..(n + 1) /\ DOMAIN passed = 1..n /\ n \in Nat
        /\ \A i \in 1..n : passed'[i] = passed[i]
        /\ passed'[n + 1] = s
    <3> HIDE DEF s
    <3> QED
      BY <1>1, <2>1 DEF s
  <2>4. s.at = clock
    BY DEF Stamp
  <2> HIDE DEF n, s
  <2>5. \A i \in 1..(n + 1) : i \in 1..n \/ i = n + 1
    BY <2>3
  <2>6. \A i \in DOMAIN passed' : passed'[i].at <= clock
    BY <1>1, <2>3, <2>4, <2>5 DEF Ordered
  <2>7. \A i, j \in DOMAIN passed' : i <= j => passed'[i].at <= passed'[j].at
    <3> SUFFICES ASSUME NEW i \in 1..(n + 1), NEW j \in 1..(n + 1), i <= j
                 PROVE  passed'[i].at <= passed'[j].at
      BY <2>3
    <3>1. CASE j = n + 1
      BY <2>3, <2>4, <2>6, <3>1
    <3>2. CASE j \in 1..n
      <4>1. i \in 1..n
        BY <2>3, <3>2
      <4> QED
        BY <2>3, <3>2, <4>1 DEF Ordered
    <3> QED
      BY <2>5, <3>1, <3>2
  <2> QED
    BY <1>4, <2>6, <2>7 DEF Ordered
<1> QED
  BY <1>2, <1>3, <1>4

(* The stamps that are left all lie in the window.                         *)
LEMMA LeftAreRecent ==
    ASSUME LimitTypeOK, Ordered, NEW f \in oldest..(Len(passed) + 1), Cleaned(f)
    PROVE  Cardinality({i \in DOMAIN passed : InWindow(passed[i])}) >= Left(f)
<1> DEFINE n == Len(passed)
           Recent == {i \in DOMAIN passed : InWindow(passed[i])}
<1>1. /\ passed \in Seq(Slot) /\ clock \in Nat /\ oldest \in 1..(n + 1)
      /\ DOMAIN passed = 1..n /\ n \in Nat
      /\ \A i \in DOMAIN passed : passed[i].at \in Nat
  BY SlotsAreTyped DEF LimitTypeOK
<1>2. f \in Nat /\ f >= 1 /\ f <= n + 1
  BY <1>1
<1>3. f..n \subseteq Recent
  <2> SUFFICES ASSUME NEW i \in f..n PROVE i \in Recent
    OBVIOUS
  <2>1. i \in 1..n /\ f \in 1..n /\ f <= i
    BY <1>1, <1>2
  <2>2. ~Expired(passed[f])
    BY <1>1, <2>1 DEF Cleaned
  <2>3. passed[f].at + Window >= clock
    BY <1>1, <2>1, <2>2, WindowAssumption DEF Expired
  <2>4. passed[f].at <= passed[i].at
    BY <1>1, <2>1 DEF Ordered
  <2>5. passed[i].at + Window >= clock
    BY <1>1, <2>1, <2>3, <2>4, WindowAssumption, SMTT(20), ZenonT(30)
  <2> QED
    BY <1>1, <2>1, <2>5 DEF InWindow
<1>4. IsFiniteSet(Recent)
  <2>1. IsFiniteSet(1..n)
    BY <1>1, FS_Interval
  <2> QED
    BY <1>1, <2>1, FS_Subset
<1>5. Cardinality(f..n) = Left(f)
  <2>1. f \in Int /\ n \in Int
    BY <1>1, <1>2
  <2>2. Cardinality(f..n) = IF f > n THEN 0 ELSE n - f + 1
    BY <2>1, FS_Interval
  <2> QED
    BY <1>1, <1>2, <2>2 DEF Left
<1>6. Cardinality(f..n) <= Cardinality(Recent)
  BY <1>3, <1>4, FS_Subset
<1>7. Cardinality(Recent) \in Nat /\ Left(f) \in Nat
  BY <1>1, <1>2, <1>4, FS_CardinalityType DEF Left
<1> QED
  BY <1>5, <1>6, <1>7

LEMMA DiscardIsDueStep ==
    ASSUME LimitInv, Ordered, [LimitNext]_limitVars,
           NEW e \in SessionEvents, phase[e] # "discarded", phase'[e] = "discarded"
    PROVE  Cardinality({i \in DOMAIN passed : InWindow(passed[i])}) >= rule[e].cap
<1>1. phase \in [SessionEvents -> Phase]
  BY DEF LimitInv, LimitTypeOK
<1>2. PICK c \in SessionEvents : Check(c)
  <2>1. ~(\E c \in SessionEvents : Arrive(c) \/ Cancel(c))
    BY <1>1 DEF Arrive, Cancel
  <2>2. phase' # phase
    OBVIOUS
  <2> QED
    BY <2>1, <2>2 DEF LimitNext, limitVars, Tick, AllDecided
<1>3. PICK f \in oldest..(Len(passed) + 1) :
         Cleaned(f) /\ (Pass(c, f) \/ Stall(c, f) \/ Discard(c, f))
  BY <1>2 DEF Check
<1>4. Holds(e, f)
  <2>1. ~Pass(c, f) /\ ~Stall(c, f)
    BY <1>1 DEF Pass, Stall
  <2>2. c = e /\ Discard(c, f)
    BY <1>1, <1>3, <2>1 DEF Discard
  <2> QED
    BY <2>2 DEF Discard
<1> DEFINE many == Cardinality({i \in DOMAIN passed : InWindow(passed[i])})
<1>5. many >= Left(f)
  BY <1>3, LeftAreRecent DEF LimitInv
<1>6. many \in Nat
  <2>1. DOMAIN passed = 1..Len(passed) /\ Len(passed) \in Nat
    BY DEF LimitInv, LimitTypeOK
  <2>2. IsFiniteSet(1..Len(passed))
    BY <2>1, FS_Interval
  <2>3. IsFiniteSet({i \in DOMAIN passed : InWindow(passed[i])})
    BY <2>1, <2>2, FS_Subset
  <2> QED
    BY <2>3, FS_CardinalityType
<1>7. Left(f) \in Int /\ rule[e].cap \in Nat
  <2>1. rule[e].cap \in Nat
    BY RulesAreTyped DEF LimitInv
  <2>2. Len(passed) \in Nat /\ oldest \in Nat
    BY DEF LimitInv, LimitTypeOK
  <2>3. f \in Int
    BY <1>3, <2>2
  <2> QED
    BY <2>1, <2>2, <2>3 DEF Left
<1> HIDE DEF many
<1>8. many >= rule[e].cap
  BY <1>4, <1>5, <1>6, <1>7 DEF Holds
<1> QED
  BY <1>8 DEF many

(* An event is discarded only when as many events as its own limit allows  *)
(* passed within the window: what was held up, cancelled or discarded      *)
(* before it has taken no slot (RateLimitStrategy.DISCARD).                *)
THEOREM DiscardsAreDue == LimitSpec => DiscardIsDue
<1>1. LimitInit => Ordered
  BY DEF LimitInit, Ordered
<1>2. LimitInv /\ Ordered /\ [LimitNext]_limitVars => Ordered'
  BY OrderKept
<1>3. LimitInv /\ Ordered /\ [LimitNext]_limitVars
        => [\A e \in SessionEvents :
              phase[e] # "discarded" /\ phase'[e] = "discarded"
                => Cardinality({i \in DOMAIN passed : InWindow(passed[i])})
                     >= rule[e].cap]_limitVars
  BY DiscardIsDueStep
<1> QED
  BY LimitInitially, LimitInductive, <1>1, <1>2, <1>3, PTL DEF LimitSpec, DiscardIsDue
=============================================================================
