---------------------------- MODULE EventPipeline ----------------------------
(***************************************************************************)
(* Events of one session on their way from the queue to the platform:      *)
(* EventBus.dispatch and stop (event_bus.py), PipelineScheduler's stages   *)
(* (pipeline/scheduler.py) and the results they pass on through the event. *)
(* A stage that is a generator is suspended at each of its yields while    *)
(* the later stages run on top of it; when it is through they run again.   *)
(*                                                                         *)
(* The stages: "front" stands for the coroutines before the content check, *)
(* "process" for the handlers and the agent of an ordinary turn (the       *)
(* interaction turns, the plugin branch and requests that a handler makes  *)
(* of the agent are left to other modules or out).  A result is a number,  *)
(* in the order of production.                                             *)
(*                                                                         *)
(* Slips the runs must notice are written before the operator they distort, *)
(* under names that begin with "Slip"; no operator of the model uses them. *)
(***************************************************************************)
EXTENDS Naturals, FiniteSets, Sequences, SequencesExt

CONSTANTS
    Events,       \* events of one session
    Woken,        \* those that are at, or wake, the bot
    Handlers,     \* handlers activated for an event
    MaxYields     \* bound of the model: yields of an event's handlers and agent

ASSUME EventsAssumption == IsFiniteSet(Events)
ASSUME HandlersAssumption == Handlers \in Nat
ASSUME MaxYieldsAssumption == MaxYields \in [Events -> Nat]

VARIABLES
    queue,   \* the event queue
    taken,   \* the event that queue.get() has returned to dispatch, if any
    ev,      \* the events
    bus      \* accepting, stopping or stopped

vars == <<queue, taken, ev, bus>>

Stages == <<"front", "safety", "preprocess", "process", "decorate", "respond">>

(* No result, or one without a chain; the notice of a refusal.             *)
NoResult == [kind |-> "none", id |-> 0]
Notice   == [kind |-> "notice", id |-> 0]

(* A frame of _process_stages: the stage it is at, and how far a generator *)
(* there has come (not called, running, suspended at a yield).             *)
Frame(at) == [at |-> at, gen |-> "none"]

Fresh == [
    pc      |-> "queued",     \* queued, task, run, done, or lost before its task
    stack   |-> <<>>,         \* the frames
    body    |-> "handlers",   \* where the process stage is
    left    |-> Handlers,     \* handlers to come
    result  |-> NoResult,     \* event._result
    stopped |-> FALSE,        \* event.is_stopped()
    reopen  |-> FALSE,        \* defer_stop_for_delivery
    send    |-> FALSE,        \* event._has_send_oper
    over    |-> FALSE,        \* _streaming_finished
    cancel  |-> FALSE,        \* a cancellation is on its way
    made    |-> 0,            \* results so far
    idle    |-> 0,            \* yields without a result so far
    sent    |-> <<>>,         \* the results handed to the platform
    owed    |-> {},           \* history: the results yielded
    cut     |-> FALSE,        \* history: a hook, a stop or a failure has interfered
    reset   |-> 0,            \* history: one more than the results before a reset, 0: none
    halted  |-> FALSE,        \* history: it has been stopped
    worked  |-> FALSE,        \* history: a handler or the agent has started after that
    blocked |-> FALSE,        \* history: the content check has refused it
    passed  |-> FALSE,        \* history: a handler or the agent has started after that
    late    |-> FALSE]        \* history: a stage has been called though it was stopped

-----------------------------------------------------------------------------
(* Events and frames.                                                      *)

Top(x)   == x.stack[Len(x.stack)]
At(x, s) == x.pc = "run" /\ x.stack # <<>> /\ Stages[Top(x).at] = s
Gen(x)   == Top(x).gen

(* The loop goes on with the next stage; a frame at its end returns.       *)
Onward(x) ==
    IF Top(x).at = Len(Stages)
    THEN [x EXCEPT !.stack = Front(x.stack)]
    ELSE [x EXCEPT !.stack = Append(Front(x.stack), Frame(Top(x).at + 1)),
                   !.late  = @ \/ x.stopped]

(* A stopped event is put to the same stage again.                         *)
SlipAfter(x) == IF x.stopped THEN x ELSE Onward(x)

(* After a coroutine: a stopped event leaves the loop.                     *)
After(x) == IF x.stopped THEN [x EXCEPT !.stack = Front(x.stack)] ELSE Onward(x)

(* A generator stage is through, or is closed: the loop goes on, whether   *)
(* the event has been stopped or not.                                      *)
Closed(x) == Onward([x EXCEPT !.stopped = @ \/ x.reopen, !.reopen = FALSE])

(* A yield: the later stages run, unless the event is stopped.             *)
Yielded(x) ==
    IF x.stopped THEN Closed(x)
    ELSE [x EXCEPT !.stack = Append(Append(Front(x.stack), [at |-> Top(x).at, gen |-> "yield"]),
                                    Frame(Top(x).at + 1))]

Running(x) == [x EXCEPT !.stack = Append(Front(x.stack), [at |-> Top(x).at, gen |-> "run"])]

Stopped(x) == [x EXCEPT !.stopped = TRUE, !.halted = TRUE]

(* A new result of a handler or the agent.                                 *)
Made(x, kind) ==
    [x EXCEPT !.made = @ + 1, !.result = [kind |-> kind, id |-> x.made + 1],
              !.owed = @ \cup {x.made + 1}]

Started(x) ==
    [x EXCEPT !.worked = @ \/ x.halted, !.passed = @ \/ x.blocked]

Yields(x) == x.made + x.idle

(* The event is dropped: what is left of it is history.                    *)
Over(x) ==
    [Fresh EXCEPT !.pc = "done", !.made = x.made, !.sent = x.sent, !.owed = x.owed, !.cut = x.cut]

Become(e, x) == ev' = [ev EXCEPT ![e] = x] /\ UNCHANGED <<queue, taken, bus>>

-----------------------------------------------------------------------------
(* The bus.                                                                *)

(* queue.get() returns.                                                    *)
Take ==
    /\ queue # <<>> /\ taken = <<>>
    /\ queue' = Tail(queue) /\ taken' = <<Head(queue)>>
    /\ UNCHANGED <<ev, bus>>

(* An event that was taken is dispatched though the bus has been stopped.  *)
SlipDispatch ==
    /\ taken # <<>>
    /\ ev' = [ev EXCEPT ![taken[1]].pc = "task"]
    /\ taken' = <<>>
    /\ UNCHANGED <<queue, bus>>

(* dispatch makes a task of it; none if it stops, finds no scheduler or    *)
(* cannot prepare the event.                                               *)
Dispatch ==
    /\ taken # <<>>
    /\ \/ bus = "accepting" /\ ev' = [ev EXCEPT ![taken[1]].pc = "task"]
       \/ ev' = [ev EXCEPT ![taken[1]].pc = "lost"]
    /\ taken' = <<>>
    /\ UNCHANGED <<queue, bus>>

(* stop: the tasks that are there are cancelled,                           *)
Stop ==
    /\ bus = "accepting"
    /\ bus' = "stopping"
    /\ ev' = [e \in Events |-> [ev[e] EXCEPT !.cancel = ev[e].pc \in {"task", "run"}]]
    /\ UNCHANGED <<queue, taken>>

(*   and gathered.                                                         *)
StopEnds ==
    /\ bus = "stopping"
    /\ \A e \in Events : ev[e].pc \notin {"task", "run"}
    /\ bus' = "stopped"
    /\ UNCHANGED <<queue, taken, ev>>

(* The task's first step: execute registers the event.                     *)
Begin(e) ==
    /\ ev[e].pc = "task" /\ ~ev[e].cancel
    /\ Become(e, [ev[e] EXCEPT !.pc = "run", !.stack = <<Frame(1)>>])

(* A stage that raises, or a cancellation, ends the task.                  *)
Breaks(e) ==
    /\ \/ ev[e].pc = "task" /\ ev[e].cancel
       \/ ev[e].pc = "run" /\ ev[e].stack # <<>>
    /\ Become(e, Over([ev[e] EXCEPT !.cut = TRUE]))

(* A handler may go on in spite of a cancellation.                         *)
Shrugs(e) ==
    /\ ev[e].cancel /\ At(ev[e], "process") /\ Gen(ev[e]) = "run" /\ ev[e].body = "handler"
    /\ Become(e, [ev[e] EXCEPT !.cancel = FALSE, !.cut = TRUE])

(* The outermost loop has returned.                                        *)
Ends(e) ==
    /\ ev[e].pc = "run" /\ ev[e].stack = <<>>
    /\ Become(e, Over(ev[e]))

-----------------------------------------------------------------------------
(* The stages before the handlers.                                         *)

Ready(e, s) == ~ev[e].cancel /\ At(ev[e], s)

(* Waking, whitelist, session status, group context, activity, rate limit. *)
FrontStage(e) ==
    /\ Ready(e, "front")
    /\ \/ Become(e, After(ev[e]))
       \/ Become(e, After(Stopped(ev[e])))

(* A refused message of somebody who has woken the bot passes a notice on; *)
(* then, and for others at once, the event is stopped.                     *)
Safety(e) ==
    /\ Ready(e, "safety") /\ Gen(ev[e]) = "none"
    /\ \/ Become(e, Closed(ev[e]))
       \/ LET no == [ev[e] EXCEPT !.blocked = TRUE]
          IN  IF e \in Woken
              THEN Become(e, Yielded([no EXCEPT !.result = Notice]))
              ELSE Become(e, Closed(Stopped(no)))

SafetyAgain(e) ==
    /\ Ready(e, "safety") /\ Gen(ev[e]) = "yield"
    /\ Become(e, Closed(Stopped(ev[e])))

Preprocess(e) ==
    /\ Ready(e, "preprocess")
    /\ Become(e, After(ev[e]))

-----------------------------------------------------------------------------
(* The process stage: handlers one after the other, then the agent.        *)

Process(e) ==
    /\ Ready(e, "process") /\ Gen(ev[e]) = "none"
    /\ Become(e, Running(ev[e]))

InBody(e, b) == Ready(e, "process") /\ Gen(ev[e]) = "run" /\ ev[e].body = b

MoreHandlers(x) == ~x.stopped /\ x.left > 0

(* The next handler, or the agent's turn.                                  *)
NextHandler(e) ==
    /\ InBody(e, "handlers")
    /\ IF MoreHandlers(ev[e])
       THEN Become(e, Started([ev[e] EXCEPT !.left = @ - 1, !.body = "handler"]))
       ELSE Become(e, [ev[e] EXCEPT !.body = "agent"])

(* PluginHandlerExecutor.process: a stopped event whose handler yields a   *)
(* result is opened for this result's delivery.                            *)
Offered(x) ==
    LET defer == x.stopped /\ x.result # NoResult
    IN  Yielded([x EXCEPT !.stopped = x.stopped /\ ~defer, !.reopen = defer])

(* A handler yields, having stopped the event or not.                      *)
HandlerYields(e, stop) ==
    LET x == IF stop THEN Stopped(ev[e]) ELSE ev[e]
    IN  /\ InBody(e, "handler")
        /\ Yields(ev[e]) < MaxYields[e]
        /\ \/ Become(e, Offered(Made(x, "plain")))
           \/ Become(e, Offered([x EXCEPT !.idle = @ + 1]))

(* A handler ends; its result is cleared for the next.                     *)
HandlerEnds(e, stop) ==
    LET x == IF stop THEN Stopped(ev[e]) ELSE ev[e]
    IN  /\ InBody(e, "handler")
        /\ Become(e, IF x.stopped THEN [x EXCEPT !.body = "agent"]
                     ELSE [x EXCEPT !.body = "handlers", !.result = NoResult])

(* A handler fails: the error is shown, and the event stopped.             *)
HandlerFails(e) ==
    /\ InBody(e, "handler")
    /\ IF ~ev[e].stopped /\ e \in Woken
       THEN /\ Yields(ev[e]) < MaxYields[e]
            /\ Become(e, Offered([Made(ev[e], "plain") EXCEPT !.body = "failed"]))
       ELSE Become(e, [Stopped(ev[e]) EXCEPT !.body = "agent"])

(* The agent, for who has woken it, if nothing has been sent.              *)
Agent(e) ==
    /\ InBody(e, "agent")
    /\ \/ /\ ~ev[e].send /\ e \in Woken /\ ~ev[e].stopped
          /\ \E b \in {"answers", "stream"} : Become(e, Started([ev[e] EXCEPT !.body = b]))
       \/ Become(e, Closed(ev[e]))

(* Its answers one by one, or its stream.                                  *)
AgentYields(e) ==
    /\ Yields(ev[e]) < MaxYields[e]
    /\ \/ InBody(e, "answers") /\ Become(e, Yielded(Made(ev[e], "plain")))
       \/ /\ InBody(e, "stream")
          /\ Become(e, Yielded([Made(ev[e], "stream") EXCEPT !.body = "streamed"]))

AgentEnds(e) ==
    /\ InBody(e, "answers") \/ (InBody(e, "stream") /\ Yields(ev[e]) = MaxYields[e])
    /\ Become(e, Closed(ev[e]))

(* A suspended handler goes on; a stop that was put off takes effect.      *)
Resumed(x) == [Running(x) EXCEPT !.stopped = x.reopen, !.reopen = FALSE]

(* The later stages have run: the generator is closed if they have stopped *)
(* the event, and goes on otherwise.                                       *)
ProcessAgain(e) ==
    LET x == ev[e]
    IN  /\ Ready(e, "process") /\ Gen(x) = "yield"
        /\ \/ x.stopped /\ Become(e, Closed(x))
           \/ ~x.stopped /\ x.body = "handler" /\ Become(e, Resumed(x))
           \/ /\ ~x.stopped /\ x.body = "failed"
              /\ Become(e, [Stopped(Running(x)) EXCEPT !.body = "agent", !.result = NoResult])
           \/ ~x.stopped /\ x.body = "answers" /\ Become(e, [Running(x) EXCEPT !.result = NoResult])
           \/ /\ ~x.stopped /\ x.body = "streamed"
              /\ \E kind \in {"finish", "drained"} :
                    Become(e, Closed([x EXCEPT !.result = [kind |-> kind, id |-> 0]]))

-----------------------------------------------------------------------------
(* Decoration and response.                                                *)

(* Hooks may stop the event, or take the result; an answer that is refused *)
(* is replaced by a notice, and the event stopped.                         *)
Decorate(e) ==
    /\ Ready(e, "decorate")
    /\ \/ Become(e, After(ev[e]))
       \/ /\ ev[e].result.kind \in {"plain", "notice", "finish"}
          /\ \/ Become(e, After([Stopped(ev[e]) EXCEPT !.cut = TRUE]))
             \/ Become(e, After([ev[e] EXCEPT !.result = NoResult, !.cut = TRUE]))
       \/ /\ ev[e].result.kind = "plain"
          /\ Become(e, After([Stopped(ev[e]) EXCEPT !.result = Notice, !.cut = TRUE]))

NothingToSend(x) == x.result = NoResult \/ x.over \/ x.result.kind = "finish"

RespondNothing(e) ==
    /\ Ready(e, "respond") /\ Gen(ev[e]) = "none" /\ NothingToSend(ev[e])
    /\ Become(e, After([ev[e] EXCEPT !.over = @ \/ ev[e].result.kind = "finish"]))

(* The result is handed to the platform;                                   *)
Respond(e) ==
    /\ Ready(e, "respond") /\ Gen(ev[e]) = "none" /\ ~NothingToSend(ev[e])
    /\ Become(e, Running([ev[e] EXCEPT !.sent = Append(@, ev[e].result.id), !.send = TRUE]))

(* A result that has been sent is kept.                                    *)
SlipSentOff(x) == x

(* What has been sent is cleared; a stream is not.                         *)
SentOff(x) == IF x.result.kind \in {"stream", "drained"} THEN x ELSE [x EXCEPT !.result = NoResult]

(*   a hook after it may stop the event.                                   *)
Responded(e) ==
    /\ Ready(e, "respond") /\ Gen(ev[e]) = "run"
    /\ \/ Become(e, After(SentOff(ev[e])))
       \/ Become(e, After([Stopped(ev[e]) EXCEPT !.cut = TRUE]))

-----------------------------------------------------------------------------
(* Another event of the session is a reset: ActiveEventRegistry.stop_all.  *)
Reset(e) ==
    /\ InBody(e, "handler")
    /\ \E f \in Events \ {e} : ev[f].pc = "run"
    /\ ev' = [f \in Events |->
                 IF f # e /\ ev[f].pc = "run"
                 THEN [Stopped(ev[f]) EXCEPT !.cut = TRUE,
                          !.reset = IF ev[f].reset = 0 THEN ev[f].made + 1 ELSE @]
                 ELSE ev[f]]
    /\ UNCHANGED <<queue, taken, bus>>

-----------------------------------------------------------------------------
Init ==
    /\ queue \in {s \in [1 .. Cardinality(Events) -> Events] : IsInjective(s)}
    /\ taken = <<>> /\ bus = "accepting"
    /\ ev = [e \in Events |-> Fresh]

(* Steps a task takes of itself.                                           *)
TaskStep(e) ==
    \/ Begin(e) \/ Ends(e) \/ FrontStage(e) \/ Safety(e) \/ SafetyAgain(e) \/ Preprocess(e)
    \/ Process(e) \/ NextHandler(e) \/ HandlerFails(e) \/ Agent(e) \/ AgentYields(e)
    \/ (\E stop \in BOOLEAN : HandlerYields(e, stop) \/ HandlerEnds(e, stop))
    \/ AgentEnds(e) \/ ProcessAgain(e) \/ Decorate(e)
    \/ RespondNothing(e) \/ Respond(e) \/ Responded(e)

Next ==
    \/ Take \/ Dispatch \/ Stop \/ StopEnds
    \/ \E e \in Events : TaskStep(e) \/ Breaks(e) \/ Shrugs(e) \/ Reset(e)

Spec == Init /\ [][Next]_vars

(* The loop runs; handlers, the agent and the platform come to an end; a   *)
(* cancellation is delivered.                                              *)
LiveSpec ==
    /\ Spec /\ WF_vars(Take) /\ WF_vars(Dispatch) /\ WF_vars(StopEnds)
    /\ \A e \in Events : /\ WF_vars(TaskStep(e))
                         /\ WF_vars(ev[e].cancel /\ Breaks(e))

-----------------------------------------------------------------------------
(* Every variable has its type.                                            *)
TypeOK ==
    /\ queue \in Seq(Events) /\ taken \in {<<>>} \cup {<<e>> : e \in Events}
    /\ bus \in {"accepting", "stopping", "stopped"}
    /\ \A e \in Events :
          /\ ev[e].pc \in {"queued", "task", "run", "done", "lost"}
          /\ \A i \in DOMAIN ev[e].stack :
                /\ ev[e].stack[i].at \in DOMAIN Stages
                /\ ev[e].stack[i].gen \in {"none", "run", "yield"}
                /\ i < Len(ev[e].stack) => ev[e].stack[i].gen = "yield"
          /\ ev[e].made \in Nat /\ ev[e].idle \in Nat /\ ev[e].left \in 0 .. Handlers

(* Though decoration and response run again after every generator, a       *)
(* result is handed to the platform once, and in the order of production.  *)
ShownOnce ==
    \A e \in Events : \A i, j \in DOMAIN ev[e].sent :
        i < j /\ ev[e].sent[i] # 0 /\ ev[e].sent[j] # 0 => ev[e].sent[i] < ev[e].sent[j]

(* Every result that was passed on has been shown when the event is done,  *)
(* that of a handler which had stopped the event too, unless a hook, a     *)
(* reset or a failure has interfered (plugin_handler_executor.py:127-128). *)
YieldedIsShown ==
    \A e \in Events : ev[e].pc = "done" /\ ~ev[e].cut => ev[e].owed \subseteq ToSet(ev[e].sent)

(* A stopped event starts no handler and no agent, though it is opened for *)
(* the delivery of a result in between.                                    *)
StoppedStartsNothing == \A e \in Events : ~ev[e].worked

(* When the bus has stopped no task is left, and none comes after.         *)
StoppedIsQuiet ==
    bus = "stopped" => \A e \in Events : ev[e].pc \notin {"task", "run"}

(* Every event that is dispatched comes to its end (_process_stages).      *)
EventsEnd == \A e \in Events : ev[e].pc \in {"task", "run"} ~> ev[e].pc = "done"

(* A stop of the bus returns (EventBus.stop).                              *)
StopIsOver == bus = "stopping" ~> bus = "stopped"

(* listen-message-event.md:508: none of the later steps runs of an event   *)
(* whose propagation is stopped.                                           *)
StopEndsSteps == \A e \in Events : ~ev[e].late

(* content_safety_check/stage.py:54: a refused message is blocked; no      *)
(* handler and no agent gets it.                                           *)
BlockedIsBlocked == \A e \in Events : ~ev[e].passed

(* active_event_registry.py:33: stop_all terminates the session's events;  *)
(* they show no result that comes after it.                                *)
ResetSilences ==
    \A e \in Events : ev[e].reset > 0 =>
        \A i \in DOMAIN ev[e].sent : ev[e].sent[i] < ev[e].reset

=============================================================================
