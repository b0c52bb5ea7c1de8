--------------------------- MODULE CoreExecution ---------------------------
(***************************************************************************)
(* The Core Head of one execution (src/astrbot/core/execution.py): the     *)
(* session that orders commands and events, the lifecycle that attaches an *)
(* executor body to it, the head that publishes every recorded event, and  *)
(* the mailboxes through which asynchronous subscribers read them.         *)
(*                                                                         *)
(* Everything here runs on one asyncio loop and no method of the head      *)
(* awaits, so one call is one step; the steps of the executor body, of the *)
(* turn that cancels it, of the deadline and of the subscribers interleave *)
(* in any order.  A call that raises before it changed anything is not a   *)
(* step; one that raises half way is (CancelMismatched, ActivateMismatched).*)
(***************************************************************************)
EXTENDS Naturals, Sequences, FiniteSets, SequencesExt

CONSTANTS
    Executors,     \* executor identities that may try to attach
    NoExecutor,    \* "no executor is attached"
    Artifacts,     \* artifact ids a body may report
    NoArtifact,    \* artifact field of an event that names no artifact
    Mailboxes,     \* asynchronous subscribers
    MaxSize,       \* bound a mailbox is created with
    MaxRepeats     \* bound of the model: events without a replay key per run

ASSUME NoExecutorAssumption == NoExecutor \notin Executors
ASSUME NoArtifactAssumption == NoArtifact \notin Artifacts
ASSUME MaxSizeAssumption    == MaxSize \in Nat \ {0}
ASSUME MaxRepeatsAssumption == MaxRepeats \in Nat

VARIABLES
    session,    \* CoreExecutionSession: status, ordered events, kinds of accepted commands
    lifecycle,  \* CoreExecutionLifecycle: the submit command and the attached executor
    head,       \* CoreExecutionHead: is it attached, is it closed, what it published
    box         \* the mailboxes handed out by subscribe_mailbox

vars == <<session, lifecycle, head, box>>

-----------------------------------------------------------------------------
(* Events and session states. *)

TerminalKinds == {"completed", "failed", "cancelled"}
EventKinds    == {"submitted", "working", "progress", "artifact_ready"} \cup TerminalKinds
Statuses      == {"created", "submitted", "working"} \cup TerminalKinds
CommandKinds  == {"submit", "provide_input", "cancel"}

(* Fact("artifact_ready") is an artifact event whose metadata has no id.   *)
Fact(kind)  == [kind |-> kind, artifact |-> NoArtifact]
Artifact(a) == [kind |-> "artifact_ready", artifact |-> a]

Event == {Fact(kind) : kind \in EventKinds} \cup {Artifact(a) : a \in Artifacts}

IsTerminal(status) == status \in TerminalKinds

(* Progress, and an artifact without an id, is recorded every time; any    *)
(* other fact at most once.                                                *)
HasReplayKey(e) ==
    \/ e.kind \notin {"progress", "artifact_ready"}
    \/ e.kind = "artifact_ready" /\ e.artifact # NoArtifact

Repeats(s) == Cardinality({i \in DOMAIN s.events : ~HasReplayKey(s.events[i])})

(* Slips the runs must notice are written beside the operator they distort, *)
(* under names that begin with "Slip"; no operator of the model uses them.  *)

SlipCompleteUnsubmitted(status, kind) ==
    \/ kind = "submitted" /\ status = "created"
    \/ /\ kind \in {"working", "progress", "artifact_ready"}
       /\ status \in {"submitted", "working"}
    \/ kind \in TerminalKinds /\ ~IsTerminal(status)

(* _advance_status: which event a status admits, and the status it leads to. *)
Admits(status, kind) ==
    \/ kind = "submitted" /\ status = "created"
    \/ /\ kind \in {"working", "progress", "artifact_ready", "completed"}
       /\ status \in {"submitted", "working"}
    \/ kind \in {"failed", "cancelled"} /\ ~IsTerminal(status)

StatusAfter(kind) ==
    IF kind \in {"progress", "artifact_ready"} THEN "working" ELSE kind

-----------------------------------------------------------------------------
(* CoreExecutionSession: operators on a session record.                    *)

Replayed(s, e) == {i \in DOMAIN s.events : HasReplayKey(e) /\ s.events[i] = e}

(* record_event returns: the event is a replay or may be appended.         *)
Recordable(s, e) == Replayed(s, e) # {} \/ Admits(s.status, e.kind)

Recorded(s, e) ==
    IF Replayed(s, e) # {}
    THEN s
    ELSE [s EXCEPT !.status = StatusAfter(e.kind), !.events = Append(@, e)]

(* The sequence number of the envelope record_event returns.               *)
SequenceOf(s, e) ==
    IF Replayed(s, e) # {} THEN CHOOSE i \in Replayed(s, e) : TRUE
                           ELSE Len(s.events) + 1

(* _record_command: command ids are fresh, so only the lifecycle decides.  *)
AcceptsCommand(s, kind) ==
    /\ ~IsTerminal(s.status)
    /\ kind = "submit" => s.status = "created"
    /\ kind = "provide_input" => s.status # "created"

Commanded(s, kind) == [s EXCEPT !.commands = @ \cup {kind}]

-----------------------------------------------------------------------------
(* CoreExecutionEventMailbox: operators on a mailbox record.               *)
(*   queue    the sequence numbers waiting to be received                  *)
(*   wake     the asyncio.Event a blocked receive() sleeps on              *)
(*   reader   the subscriber's loop: reading, asleep in receive(), done    *)
(*   received what it has read; from: the journal length when it           *)
(*            subscribed (both are history, kept for the properties)       *)

NewBox(from, state) ==
    [state |-> state, queue |-> << >>, wake |-> FALSE, reader |-> "reading",
     received |-> << >>, from |-> from, dropped |-> 0]

(* publish: under pressure the oldest queued progress makes room; an event *)
(* that finds no progress to evict is appended beyond the bound.           *)
SlipEvictAny(b, events) == IF Len(b.queue) < MaxSize THEN {} ELSE DOMAIN b.queue

Evictable(b, events) ==
    IF Len(b.queue) < MaxSize THEN {}
    ELSE {k \in DOMAIN b.queue : events[b.queue[k]].kind = "progress"}

Delivered(b, events, i) ==
    LET victims == Evictable(b, events)
        oldest  == CHOOSE k \in victims : \A j \in victims : k <= j
    IN  IF b.state # "open" THEN b
        ELSE IF victims = {} THEN [b EXCEPT !.queue = Append(@, i), !.wake = TRUE]
        ELSE [b EXCEPT !.queue = Append(RemoveAt(@, oldest), i), !.wake = TRUE,
                       !.dropped = @ + 1]

ClosedBox(b) ==
    IF b.state = "open" THEN [b EXCEPT !.state = "closed", !.wake = TRUE] ELSE b

-----------------------------------------------------------------------------
(* CoreExecutionHead._publish: each sequence once, to every mailbox; a     *)
(* terminal event closes the head and with it the mailboxes.               *)

Publishes(h, i) == h.attached /\ ~h.closed /\ i \notin h.published

PublishedHead(h, events, i) ==
    IF Publishes(h, i)
    THEN [h EXCEPT !.published = @ \cup {i}, !.closed = IsTerminal(events[i].kind)]
    ELSE h

SlipCloseBeforeEnd(h, b, events, i) ==
    IF ~Publishes(h, i) THEN b
    ELSE IF IsTerminal(events[i].kind) THEN Delivered(ClosedBox(b), events, i)
    ELSE Delivered(b, events, i)

PublishedBox(h, b, events, i) ==
    IF ~Publishes(h, i) THEN b
    ELSE IF IsTerminal(events[i].kind) THEN ClosedBox(Delivered(b, events, i))
    ELSE Delivered(b, events, i)

(* Record one event and publish its envelope, new or replayed.             *)
RecordEvent(s, e) ==
    LET i == SequenceOf(s, e)
        t == Recorded(s, e)
    IN  /\ Recordable(s, e)
        /\ HasReplayKey(e) \/ Repeats(s) < MaxRepeats
        /\ session' = t
        /\ head' = PublishedHead(head, t.events, i)
        /\ box' = [m \in Mailboxes |-> PublishedBox(head, box[m], t.events, i)]

-----------------------------------------------------------------------------
(* CoreExecutionLifecycle: operators on a lifecycle record.                *)

(* _validate_executor_identity raises only when some executor is attached. *)
Identified(e) == lifecycle.executor \in {NoExecutor, e}

Free(slot, e) == slot \in {NoExecutor, e}

Bindable(l, e) == Free(l.executor, e) /\ Free(l.stopCallback, e) /\ Free(l.inputCallback, e)

SlipIdentityFirst(l, e) ==
    IF Bindable(l, e)
    THEN [l EXCEPT !.executor = e, !.stopCallback = e, !.inputCallback = e]
    ELSE IF Free(l.executor, e) THEN [l EXCEPT !.executor = e] ELSE l

(* bind_executor checks identity, then binds the stop callback, then the   *)
(* input callbacks, then the identity; what it bound before it raises stays. *)
BoundTo(l, e) ==
    CASE Bindable(l, e) ->
           [l EXCEPT !.executor = e, !.stopCallback = e, !.inputCallback = e]
      [] ~Bindable(l, e) /\ Free(l.executor, e) /\ Free(l.stopCallback, e) ->
           [l EXCEPT !.stopCallback = e]
      [] OTHER -> l

CanStart == ~lifecycle.submitted /\ session.status = "created"

StartedSession   == IF CanStart THEN Commanded(session, "submit") ELSE session
StartedLifecycle == IF CanStart THEN [lifecycle EXCEPT !.submitted = TRUE] ELSE lifecycle

(* _request_executor_stop: a raising callback is noted, never propagated.  *)
StopRequested(l) ==
    IF l.stopCallback = NoExecutor THEN {l}
    ELSE {[l EXCEPT !.stopped = @ \cup {l.stopCallback}], [l EXCEPT !.stopFailed = TRUE]}

-----------------------------------------------------------------------------
Init ==
    /\ session = [status |-> "created", events |-> << >>, commands |-> {}]
    /\ lifecycle = [submitted |-> FALSE, executor |-> NoExecutor, stopCallback |-> NoExecutor,
                    inputCallback |-> NoExecutor, stopped |-> {}, stopFailed |-> FALSE]
    /\ head \in [attached : BOOLEAN, closed : {FALSE}, published : {{}}]
    /\ box = [m \in Mailboxes |-> NewBox(0, "unused")]

(* A head may be attached to a lifecycle that already recorded facts: they *)
(* count as published (CoreExecutionHead.__post_init__).                   *)
AttachHead ==
    /\ ~head.attached
    /\ head' = [head EXCEPT !.attached = TRUE, !.published = DOMAIN session.events]
    /\ UNCHANGED <<session, lifecycle, box>>

Start ==
    /\ CanStart
    /\ session' = StartedSession
    /\ lifecycle' = StartedLifecycle
    /\ UNCHANGED <<head, box>>

BindStopCallback(e) ==
    /\ ~IsTerminal(session.status)
    /\ lifecycle.stopCallback = NoExecutor
    /\ lifecycle' = [lifecycle EXCEPT !.stopCallback = e]
    /\ UNCHANGED <<session, head, box>>

BindInputCallback(e) ==
    /\ ~IsTerminal(session.status)
    /\ lifecycle.inputCallback = NoExecutor
    /\ lifecycle' = [lifecycle EXCEPT !.inputCallback = e]
    /\ UNCHANGED <<session, head, box>>

(* bind_executor without the rest of an activation; it may raise half way. *)
BindExecutor(e) ==
    /\ ~IsTerminal(session.status)
    /\ lifecycle' = BoundTo(lifecycle, e)
    /\ UNCHANGED <<session, head, box>>

(* activate_executor: start, attach the body, record "submitted".          *)
ActivateExecutor(e) ==
    /\ ~IsTerminal(session.status)
    /\ Bindable(StartedLifecycle, e)
    /\ lifecycle' = BoundTo(StartedLifecycle, e)
    /\ RecordEvent(StartedSession, Fact("submitted"))

(* The same call for a body that cannot be bound: it raises, but after the *)
(* submit command was accepted.                                            *)
ActivateMismatched(e) ==
    /\ ~IsTerminal(session.status)
    /\ ~Bindable(StartedLifecycle, e)
    /\ session' = StartedSession
    /\ lifecycle' = BoundTo(StartedLifecycle, e)
    /\ UNCHANGED <<head, box>>

(* emit_event and record_event of a body; cancellation never comes this way. *)
EmitEvent(e, event) ==
    /\ event.kind # "cancelled"
    /\ Identified(e)
    /\ RecordEvent(session, event)
    /\ UNCHANGED lifecycle

(* complete with an artifact: two events in one call.  Without an artifact *)
(* it is EmitEvent(e, Fact("completed")).                                  *)
Complete(e, a) ==
    LET s1 == Recorded(session, Artifact(a))
        i1 == SequenceOf(session, Artifact(a))
        s2 == Recorded(s1, Fact("completed"))
        i2 == SequenceOf(s1, Fact("completed"))
        h1 == PublishedHead(head, s1.events, i1)
    IN  /\ Identified(e)
        /\ Recordable(session, Artifact(a)) /\ Recordable(s1, Fact("completed"))
        /\ session' = s2
        /\ head' = PublishedHead(h1, s2.events, i2)
        /\ box' = [m \in Mailboxes |->
                     PublishedBox(h1, PublishedBox(head, box[m], s1.events, i1), s2.events, i2)]
        /\ UNCHANGED lifecycle

(* cancel and cancel_for_deadline: command, terminal event, executor stop. *)
Cancel(e) ==
    /\ Identified(e)
    /\ AcceptsCommand(session, "cancel")
    /\ RecordEvent(Commanded(session, "cancel"), Fact("cancelled"))
    /\ lifecycle' \in StopRequested(lifecycle)

(* The same call under another executor's identity, as the deadline handler *)
(* makes it for "native": it raises after the command was accepted.        *)
CancelMismatched(e) ==
    /\ ~Identified(e)
    /\ AcceptsCommand(session, "cancel")
    /\ session' = Commanded(session, "cancel")
    /\ UNCHANGED <<lifecycle, head, box>>

(* provide_input: published as a command only when the body took the text. *)
ProvideInput(e) ==
    /\ Identified(e)
    /\ lifecycle.inputCallback # NoExecutor
    /\ AcceptsCommand(session, "provide_input")
    /\ session' = Commanded(session, "provide_input")
    /\ UNCHANGED <<lifecycle, head, box>>

ReleaseExecutor(e) ==
    /\ lifecycle.executor = e
    /\ IsTerminal(session.status)
    /\ lifecycle' = [lifecycle EXCEPT !.executor = NoExecutor, !.stopCallback = NoExecutor,
                                      !.inputCallback = NoExecutor]
    /\ UNCHANGED <<session, head, box>>

-----------------------------------------------------------------------------
(* Subscribers.                                                            *)

SubscribeMailbox(m) ==
    /\ head.attached
    /\ box[m].state = "unused"
    /\ box' = [box EXCEPT ![m] = NewBox(Len(session.events),
                                        IF head.closed THEN "closed" ELSE "open")]
    /\ UNCHANGED <<session, lifecycle, head>>

UnsubscribeMailbox(m) ==
    /\ box[m].state = "open"
    /\ box' = [box EXCEPT ![m] = ClosedBox(@)]
    /\ UNCHANGED <<session, lifecycle, head>>

(* receive: clear the wake-up first, then take an event, end, or sleep.    *)
Receive(m) ==
    LET b == box[m]
    IN  /\ b.state # "unused"
        /\ b.reader = "reading" \/ (b.reader = "asleep" /\ b.wake)
        /\ box' = [box EXCEPT ![m] =
                 IF b.queue # << >>
                 THEN [b EXCEPT !.wake = FALSE, !.queue = Tail(@), !.reader = "reading",
                                !.received = Append(@, Head(b.queue))]
                 ELSE [b EXCEPT !.wake = FALSE,
                                !.reader = IF b.state = "closed" THEN "done" ELSE "asleep"]]
        /\ UNCHANGED <<session, lifecycle, head>>

CloseHead ==
    /\ head.attached /\ ~head.closed
    /\ head' = [head EXCEPT !.closed = TRUE]
    /\ box' = [m \in Mailboxes |-> ClosedBox(box[m])]
    /\ UNCHANGED <<session, lifecycle>>

-----------------------------------------------------------------------------
ExecutorStep(e) ==
    \/ BindStopCallback(e) \/ BindInputCallback(e) \/ BindExecutor(e)
    \/ ActivateExecutor(e) \/ ActivateMismatched(e)
    \/ \E event \in Event : EmitEvent(e, event)
    \/ \E a \in Artifacts : Complete(e, a)
    \/ Cancel(e) \/ CancelMismatched(e)
    \/ ProvideInput(e) \/ ReleaseExecutor(e)

SubscriberStep(m) == SubscribeMailbox(m) \/ UnsubscribeMailbox(m) \/ Receive(m)

Next ==
    \/ AttachHead \/ Start \/ CloseHead
    \/ \E e \in Executors : ExecutorStep(e)
    \/ \E m \in Mailboxes : SubscriberStep(m)

Spec == Init /\ [][Next]_vars

(* A subscriber's "async for" over its mailbox is a task the loop keeps    *)
(* running; nothing makes an executor finish.                              *)
FairSpec == Spec /\ \A m \in Mailboxes : WF_vars(Receive(m))

-----------------------------------------------------------------------------
(* Properties.                                                             *)

Slots == Executors \cup {NoExecutor}

(* Every variable holds what its class declares.                           *)
TypeOK ==
    /\ session \in [status : Statuses, events : Seq(Event), commands : SUBSET CommandKinds]
    /\ lifecycle \in [submitted : BOOLEAN, executor : Slots, stopCallback : Slots,
                      inputCallback : Slots, stopped : SUBSET Executors, stopFailed : BOOLEAN]
    /\ head \in [attached : BOOLEAN, closed : BOOLEAN, published : SUBSET Nat]
    /\ box \in [Mailboxes ->
                  [state : {"unused", "open", "closed"}, queue : Seq(Nat), wake : BOOLEAN,
                   reader : {"reading", "asleep", "done"}, received : Seq(Nat),
                   from : Nat, dropped : Nat]]

(* The journal ends with its one terminal fact: whichever of completion,   *)
(* failure and cancellation is recorded first wins, the status says which, *)
(* and nothing follows it (record_event, _advance_status).                 *)
OneTerminalFact ==
    /\ \A i \in DOMAIN session.events :
          IsTerminal(session.events[i].kind) =>
             i = Len(session.events) /\ session.status = session.events[i].kind
    /\ IsTerminal(session.status) =>
          /\ session.events # << >>
          /\ session.events[Len(session.events)] = Fact(session.status)

(* No keyed fact is recorded twice, however often bodies, deadlines and    *)
(* cancellations repeat it.                                                *)
FactsRecordedOnce ==
    \A i, j \in DOMAIN session.events :
        HasReplayKey(session.events[i]) /\ session.events[i] = session.events[j] => i = j

(* Work, progress, artifacts and completion are only recorded of an        *)
(* execution that was submitted first.                                     *)
SubmittedFirst ==
    session.events # << >> =>
        session.events[1].kind \in {"submitted", "failed", "cancelled"}

(* While a head is attached and open it has published exactly the journal, *)
(* so a replayed envelope is never delivered a second time and a recorded  *)
(* one is never withheld.                                                  *)
PublishedIsJournal ==
    head.attached /\ ~head.closed => head.published = DOMAIN session.events

(* An attached body can always be told to stop: identity and stop callback *)
(* belong to the same body although binding may fail half way.             *)
AttachedBodyStoppable ==
    lifecycle.executor # NoExecutor =>
        lifecycle.stopCallback = lifecycle.executor /\ lifecycle.inputCallback = lifecycle.executor

Seen(b) == b.received \o b.queue

Increasing(s) == \A i, j \in DOMAIN s : i < j => s[i] < s[j]

(* What the head published while the mailbox was open and progress alone   *)
(* may be missing: Seen(b) is the published journal from the subscription  *)
(* on, in order, without "dropped" progress events.                        *)
MailboxLosesOnlyProgress ==
    \A m \in Mailboxes :
        LET b      == box[m]
            missed == {i \in head.published : i > b.from} \ ToSet(Seen(b))
        IN  /\ Increasing(Seen(b))
            /\ ToSet(Seen(b)) \subseteq head.published \ 1..b.from
            /\ b.state = "open" =>
                 /\ \A i \in missed : session.events[i].kind = "progress"
                 /\ Cardinality(missed) = b.dropped

(* Beyond its bound a mailbox holds facts only, and at most one progress:  *)
(* the bound is a pressure guard for progress (publish).                   *)
PressureBound ==
    \A m \in Mailboxes :
        LET q == box[m].queue
        IN  Len(q) > MaxSize =>
               Cardinality({k \in DOMAIN q : session.events[q[k]].kind = "progress"}) <= 1

(* A subscriber that is listening when the execution ends always gets the  *)
(* end: the terminal event is queued behind everything else, whatever the  *)
(* pressure, and only then is the mailbox closed (_publish, then close).   *)
EndIsDelivered ==
    [][\A m \in Mailboxes :
         box[m].state = "open" /\ ~IsTerminal(session.status) /\ IsTerminal(session'.status) =>
            /\ box'[m].state = "closed"
            /\ box'[m].queue # << >>
            /\ box'[m].queue[Len(box'[m].queue)] = Len(session'.events)]_vars

(* The body attached when an execution is cancelled was asked to stop, or  *)
(* its callback raised and that was noted (_request_executor_stop).        *)
CancelStopsBody ==
    [][(/\ session.status # "cancelled" /\ session'.status = "cancelled"
        /\ lifecycle.executor # NoExecutor)
       => lifecycle.executor \in lifecycle'.stopped \/ lifecycle'.stopFailed]_vars

(* The end is final: after it no event, command or status change, and the  *)
(* attached body is only released then, never exchanged.                   *)
EndIsFinal ==
    [][/\ IsTerminal(session.status) => session' = session
       /\ lifecycle.executor # NoExecutor /\ lifecycle'.executor # lifecycle.executor =>
             IsTerminal(session.status) /\ lifecycle'.executor = NoExecutor]_vars

(* A subscriber blocked in receive() is woken for every event and for the  *)
(* close: its loop ends once its mailbox is closed, and it has read all    *)
(* that was queued (receive clears the wake-up before it looks).           *)
SubscriberFinishes ==
    \A m \in Mailboxes :
        box[m].state = "closed" ~> box[m].reader = "done" /\ box[m].queue = << >>

(* An open mailbox's subscriber does not sleep on a queued event.          *)
QueuedIsRead ==
    \A m \in Mailboxes : box[m].queue # << >> ~> box[m].queue = << >>

(* What the docstring of publish says of the bound: it is exceeded only by *)
(* the terminal event, by one item.                                        *)
ExceedsBoundByOne == \A m \in Mailboxes : Len(box[m].queue) <= MaxSize + 1

(* What the docstring of cancel says: accepting a cancellation records its *)
(* terminal fact.                                                          *)
AcceptedCancelEnds == "cancel" \in session.commands => session.status = "cancelled"

-----------------------------------------------------------------------------
(* The contract: progress and anonymous artifacts are invisible, the other *)
(* events are its facts.                                                   *)
Phase(status) == CASE status = "created" -> "pending"
                   [] status \in {"submitted", "working"} -> "running"
                   [] IsTerminal(status) -> "ended"

KeyedFacts(events) == {events[i] : i \in {j \in DOMAIN events : HasReplayKey(events[j])}}

Contract == INSTANCE ExecutionContract WITH
    Reports   <- {Fact("working")} \cup {Artifact(a) : a \in Artifacts},
    Begun     <- Fact("submitted"),
    Completed <- Fact("completed"),
    Aborts    <- {Fact("failed"), Fact("cancelled")},
    phase     <- Phase(session.status),
    facts     <- KeyedFacts(session.events)

(* The Core Head implements the contract.                                  *)
ImplementsContract == Contract!ContractSpec

=============================================================================
