------------------------ MODULE CoreExecutionProofs ------------------------
(***************************************************************************)
(* Theorems about one execution, for every executor, artifact, subscriber, *)
(* settling task and bound: first the Core Head (module CoreExecution),    *)
(* then the settlement of the execution in the ledger (CoreLedger).        *)
(***************************************************************************)
EXTENDS CoreExecution, CoreLedger, FiniteSetTheorems, SequenceTheorems, WellFoundedInduction, TLAPS

SessionTypeOK ==
    session \in [status : Statuses, events : Seq(Event), commands : SUBSET CommandKinds]

-----------------------------------------------------------------------------
(* The effects a step may have on the session.                             *)

Keeps ==
    /\ session'.status = session.status
    /\ session'.events = session.events
    /\ IsTerminal(session.status) => session' = session

Appends(e) ==
    /\ Replayed(session, e) = {}
    /\ Admits(session.status, e.kind)
    /\ session'.status = StatusAfter(e.kind)
    /\ session'.events = Append(session.events, e)

AppendsBoth(a) ==
    /\ Replayed(session, Artifact(a)) = {}
    /\ session.status \in {"submitted", "working"}
    /\ session'.status = "completed"
    /\ session'.events = Append(Append(session.events, Artifact(a)), Fact("completed"))

SessionStep ==
    \/ Keeps
    \/ \E e \in Event : Appends(e)
    \/ \E a \in Artifacts : AppendsBoth(a)

(* Every event of the model is an event: the kinds used are known ones.    *)
LEMMA EventsKnown ==
    /\ \A kind \in EventKinds : Fact(kind) \in Event /\ Fact(kind).kind = kind
    /\ \A a \in Artifacts : Artifact(a) \in Event /\ Artifact(a).kind = "artifact_ready"
    /\ \A e \in Event : e.kind \in EventKinds
  <1>1. \A kind \in EventKinds : Fact(kind) \in Event
    BY DEF Event
  <1>2. \A kind : Fact(kind).kind = kind
    BY DEF Fact
  <1>3. \A a \in Artifacts : Artifact(a) \in Event
    BY DEF Event
  <1>4. \A a : Artifact(a).kind = "artifact_ready"
    BY DEF Artifact
  <1>5. "artifact_ready" \in EventKinds
    BY DEF EventKinds
  <1>6. ASSUME NEW e \in Event PROVE e.kind \in EventKinds
    <2>1. CASE e \in {Fact(kind) : kind \in EventKinds}
      BY <1>2, <2>1
    <2>2. CASE e \in {Artifact(a) : a \in Artifacts}
      BY <1>4, <1>5, <2>2
    <2> QED BY <2>1, <2>2 DEF Event
  <1> QED BY <1>1, <1>2, <1>3, <1>4, <1>6

(* A session record after one more event is a session record.              *)
LEMMA AppendedSession ==
    ASSUME NEW s, NEW status \in Statuses, NEW e \in Event,
           s \in [status : Statuses, events : Seq(Event), commands : SUBSET CommandKinds]
    PROVE  [s EXCEPT !.status = status, !.events = Append(@, e)]
               \in [status : Statuses, events : Seq(Event), commands : SUBSET CommandKinds]
  <1>1. Append(s.events, e) \in Seq(Event)
    OBVIOUS
  <1> QED BY <1>1

(* RecordEvent on a session that differs from the current one at most by   *)
(* accepted commands has one of the effects.                               *)
LEMMA RecordEventSteps ==
    ASSUME SessionTypeOK, NEW s, NEW e \in Event,
           s \in [status : Statuses, events : Seq(Event), commands : SUBSET CommandKinds],
           s.status = session.status, s.events = session.events,
           IsTerminal(session.status) => s = session,
           RecordEvent(s, e)
    PROVE  SessionStep /\ SessionTypeOK'
  <1>1. CASE Replayed(s, e) # {}
    <2>1. session' = s
      BY <1>1 DEF RecordEvent, Recorded
    <2> QED BY <2>1 DEF SessionStep, Keeps, SessionTypeOK
  <1>2. CASE Replayed(s, e) = {}
    <2>1. Replayed(session, e) = {} /\ Admits(session.status, e.kind)
      BY <1>2 DEF RecordEvent, Recordable, Replayed
    <2>2. session' = [s EXCEPT !.status = StatusAfter(e.kind), !.events = Append(s.events, e)]
      BY <1>2 DEF RecordEvent, Recorded
    <2>3. session'.status = StatusAfter(e.kind) /\ session'.events = Append(session.events, e)
      BY <2>2
    <2>4. StatusAfter(e.kind) \in Statuses
      BY EventsKnown DEF StatusAfter, EventKinds, Statuses, TerminalKinds
    <2>6. SessionTypeOK'
      BY <2>2, <2>4, AppendedSession DEF SessionTypeOK
    <2> QED BY <2>1, <2>3, <2>6 DEF SessionStep, Appends
  <1> QED BY <1>1, <1>2

(* Completion with an artifact: both facts are new, or one of them is.     *)
LEMMA CompleteSteps ==
    ASSUME SessionTypeOK, NEW e \in Executors, NEW a \in Artifacts, Complete(e, a)
    PROVE  SessionStep /\ SessionTypeOK'
  <1> DEFINE s1 == Recorded(session, Artifact(a))
             done == Fact("completed")
  <1>1. /\ Recordable(session, Artifact(a)) /\ Recordable(s1, done)
        /\ session' = Recorded(s1, done)
    BY DEF Complete
  <1>2. /\ Artifact(a) \in Event /\ Artifact(a).kind = "artifact_ready"
        /\ done \in Event /\ done.kind = "completed"
    BY EventsKnown DEF EventKinds, TerminalKinds
  <1>3. StatusAfter("completed") = "completed" /\ StatusAfter("artifact_ready") = "working"
    BY DEF StatusAfter
  <1>6. "completed" \in Statuses /\ "working" \in Statuses
    BY DEF Statuses, TerminalKinds
  <1>4. CASE Replayed(session, Artifact(a)) # {}
    <2>1. s1 = session
      BY <1>4 DEF Recorded
    <2>2. CASE Replayed(session, done) # {}
      <3>1. session' = session
        BY <1>1, <2>1, <2>2 DEF Recorded
      <3> QED BY <3>1 DEF SessionStep, Keeps, SessionTypeOK
    <2>3. CASE Replayed(session, done) = {}
      <3>1. session' = [session EXCEPT !.status = "completed", !.events = Append(@, done)]
        BY <1>1, <1>2, <1>3, <2>1, <2>3 DEF Recorded
      <3>2. Admits(session.status, "completed")
        BY <1>1, <1>2, <2>1, <2>3 DEF Recordable
      <3>3. session'.status = "completed" /\ session'.events = Append(session.events, done)
        BY <3>1 DEF SessionTypeOK
      <3>4. SessionTypeOK'
        BY <1>2, <1>6, <3>1, AppendedSession DEF SessionTypeOK
      <3> QED BY <1>2, <1>3, <2>3, <3>2, <3>3, <3>4 DEF SessionStep, Appends
    <2> QED BY <2>2, <2>3
  <1>5. CASE Replayed(session, Artifact(a)) = {}
    <2>1. s1 = [session EXCEPT !.status = "working", !.events = Append(@, Artifact(a))]
      BY <1>2, <1>3, <1>5 DEF Recorded
    <2>2. /\ s1.status = "working" /\ s1.events = Append(session.events, Artifact(a))
          /\ s1.events \in Seq(Event) /\ s1.commands = session.commands
      BY <1>2, <2>1 DEF SessionTypeOK
    <2>3. Admits(session.status, "artifact_ready")
      BY <1>1, <1>2, <1>5 DEF Recordable
    <2>4. CASE Replayed(s1, done) # {}
      <3>1. session' = s1
        BY <1>1, <2>4 DEF Recorded
      <3>2. SessionTypeOK'
        BY <1>2, <1>6, <2>1, <3>1, AppendedSession DEF SessionTypeOK
      <3> QED BY <1>2, <1>3, <1>5, <2>2, <2>3, <3>1, <3>2 DEF SessionStep, Appends
    <2>5. CASE Replayed(s1, done) = {}
      <3>1. session' = [s1 EXCEPT !.status = "completed", !.events = Append(@, done)]
        BY <1>1, <1>2, <1>3, <2>5 DEF Recorded
      <3>2. /\ session'.status = "completed"
            /\ session'.events = Append(Append(session.events, Artifact(a)), done)
        BY <2>1, <2>2, <3>1 DEF SessionTypeOK
      <3>3. s1 \in [status : Statuses, events : Seq(Event), commands : SUBSET CommandKinds]
        BY <1>2, <1>6, <2>1, AppendedSession DEF SessionTypeOK
      <3>5. SessionTypeOK'
        BY <1>2, <1>6, <3>1, <3>3, AppendedSession DEF SessionTypeOK
      <3>4. session.status \in {"submitted", "working"}
        BY <2>3 DEF Admits, IsTerminal
      <3> QED BY <1>5, <3>2, <3>4, <3>5 DEF SessionStep, AppendsBoth
    <2> QED BY <2>4, <2>5
  <1> QED BY <1>4, <1>5

(* Every action has one of the effects: the case analysis that all the     *)
(* theorems about the journal share.                                       *)
LEMMA SessionSteps ==
    ASSUME SessionTypeOK, [Next]_vars
    PROVE  SessionStep /\ SessionTypeOK'
  <1> DEFINE Type == [status : Statuses, events : Seq(Event), commands : SUBSET CommandKinds]
  <1>1. CASE UNCHANGED session
    BY <1>1 DEF SessionStep, Keeps, SessionTypeOK
  <1>2. ASSUME NEW kind \in CommandKinds
        PROVE  /\ Commanded(session, kind) \in Type
               /\ Commanded(session, kind).status = session.status
               /\ Commanded(session, kind).events = session.events
    BY DEF Commanded, SessionTypeOK, Type
  <1>3. ASSUME NEW kind \in CommandKinds, ~IsTerminal(session.status),
               session' = Commanded(session, kind)
        PROVE  SessionStep /\ SessionTypeOK'
    BY <1>2, <1>3 DEF SessionStep, Keeps, SessionTypeOK, Type
  <1>4. /\ StartedSession \in Type
        /\ StartedSession.status = session.status
        /\ StartedSession.events = session.events
    BY <1>2 DEF StartedSession, CommandKinds, SessionTypeOK, Type
  <1>5. "submit" \in CommandKinds /\ "provide_input" \in CommandKinds /\ "cancel" \in CommandKinds
    BY DEF CommandKinds
  <1>6. CASE Start
    <2>1. ~IsTerminal(session.status)
      BY <1>6 DEF Start, CanStart, IsTerminal, TerminalKinds
    <2>2. session' = Commanded(session, "submit")
      BY <1>6 DEF Start, StartedSession
    <2> QED BY <1>3, <1>5, <2>1, <2>2
  <1>7. ASSUME NEW e \in Executors, ActivateExecutor(e)
        PROVE  SessionStep /\ SessionTypeOK'
    <2>1. ~IsTerminal(session.status) /\ RecordEvent(StartedSession, Fact("submitted"))
      BY <1>7 DEF ActivateExecutor
    <2>2. Fact("submitted") \in Event
      BY EventsKnown DEF EventKinds
    <2> QED BY <1>4, <2>1, <2>2, RecordEventSteps DEF Type
  <1>8. ASSUME NEW e \in Executors, ActivateMismatched(e)
        PROVE  SessionStep /\ SessionTypeOK'
    <2>1. ~IsTerminal(session.status) /\ session' = StartedSession
      BY <1>8 DEF ActivateMismatched
    <2> QED BY <1>4, <2>1 DEF SessionStep, Keeps, SessionTypeOK, Type
  <1>9. ASSUME NEW e \in Executors, NEW event \in Event, EmitEvent(e, event)
        PROVE  SessionStep /\ SessionTypeOK'
    BY <1>9, RecordEventSteps DEF EmitEvent, SessionTypeOK
  <1>10. ASSUME NEW e \in Executors, NEW a \in Artifacts, Complete(e, a)
         PROVE  SessionStep /\ SessionTypeOK'
    BY <1>10, CompleteSteps
  <1>11. ASSUME NEW e \in Executors, Cancel(e)
         PROVE  SessionStep /\ SessionTypeOK'
    <2>1. /\ ~IsTerminal(session.status)
          /\ RecordEvent(Commanded(session, "cancel"), Fact("cancelled"))
      BY <1>11 DEF Cancel, AcceptsCommand
    <2>2. Fact("cancelled") \in Event
      BY EventsKnown DEF EventKinds, TerminalKinds
    <2> QED BY <1>2, <1>5, <2>1, <2>2, RecordEventSteps DEF Type
  <1>12. ASSUME NEW e \in Executors, CancelMismatched(e)
         PROVE  SessionStep /\ SessionTypeOK'
    BY <1>3, <1>5, <1>12 DEF CancelMismatched, AcceptsCommand
  <1>13. ASSUME NEW e \in Executors, ProvideInput(e)
         PROVE  SessionStep /\ SessionTypeOK'
    BY <1>3, <1>5, <1>13 DEF ProvideInput, AcceptsCommand
  <1>14. ASSUME NEW e \in Executors,
                BindStopCallback(e) \/ BindInputCallback(e) \/ BindExecutor(e) \/ ReleaseExecutor(e)
         PROVE  UNCHANGED session
    BY <1>14 DEF BindStopCallback, BindInputCallback, BindExecutor, ReleaseExecutor
  <1>15. ASSUME AttachHead \/ CloseHead \/ \E m \in Mailboxes : SubscriberStep(m)
         PROVE  UNCHANGED session
    BY <1>15 DEF AttachHead, CloseHead, SubscriberStep, SubscribeMailbox, UnsubscribeMailbox, Receive
  <1>16. CASE UNCHANGED vars
    BY <1>1, <1>16 DEF vars
  <1> QED
    BY <1>1, <1>6, <1>7, <1>8, <1>9, <1>10, <1>11, <1>12, <1>13, <1>14, <1>15, <1>16
       DEF Next, ExecutorStep

-----------------------------------------------------------------------------
(* The journal.                                                            *)

(* The inductive invariant of a journal and the status that belongs to it: *)
(* the properties the runs check, and that only an empty journal has the   *)
(* status "created".                                                       *)
JournalOK(status, events) ==
    /\ status \in Statuses /\ events \in Seq(Event)
    /\ status = "created" <=> events = << >>
    /\ \A i \in DOMAIN events : IsTerminal(events[i].kind) =>
          i = Len(events) /\ status = events[i].kind
    /\ IsTerminal(status) => events # << >> /\ events[Len(events)] = Fact(status)
    /\ \A i, j \in DOMAIN events :
          HasReplayKey(events[i]) /\ events[i] = events[j] => i = j
    /\ events # << >> => events[1].kind \in {"submitted", "failed", "cancelled"}

JournalInv == SessionTypeOK /\ JournalOK(session.status, session.events)

(* What Append does to a sequence, index by index.                         *)
LEMMA AppendIndices ==
    ASSUME NEW S, NEW s \in Seq(S), NEW e \in S
    PROVE  /\ Append(s, e) \in Seq(S) /\ Len(s) \in Nat
           /\ Len(Append(s, e)) = Len(s) + 1
           /\ DOMAIN Append(s, e) = 1..(Len(s) + 1) /\ DOMAIN s = 1..Len(s)
           /\ \A i \in DOMAIN s : Append(s, e)[i] = s[i]
           /\ Append(s, e)[Len(s) + 1] = e
           /\ Append(s, e) # << >>
  OBVIOUS

(* A terminal event is the plain fact of its kind.                         *)
LEMMA TerminalEvents ==
    ASSUME NEW e \in Event, IsTerminal(e.kind)
    PROVE  e = Fact(e.kind)
  <1>1. CASE e \in {Fact(kind) : kind \in EventKinds}
    <2>1. PICK kind \in EventKinds : e = Fact(kind)
      BY <1>1
    <2>2. e.kind = kind
      BY <2>1, EventsKnown
    <2> QED BY <2>1, <2>2
  <1>2. CASE e \in {Artifact(a) : a \in Artifacts}
    BY <1>2, EventsKnown DEF IsTerminal, TerminalKinds
  <1> QED BY <1>1, <1>2 DEF Event

(* A good journal stays good when an admitted new event is appended.       *)
LEMMA JournalGrows ==
    ASSUME NEW status, NEW events, JournalOK(status, events),
           NEW e \in Event, Admits(status, e.kind),
           HasReplayKey(e) => \A i \in DOMAIN events : events[i] # e
    PROVE  JournalOK(StatusAfter(e.kind), Append(events, e))
  <1> DEFINE new == Append(events, e)
             n   == Len(events)
  <1>1. /\ new \in Seq(Event) /\ n \in Nat /\ Len(new) = n + 1 /\ new # << >>
        /\ DOMAIN new = 1..(n + 1) /\ DOMAIN events = 1..n
        /\ \A i \in 1..n : new[i] = events[i]
        /\ new[n + 1] = e
    BY AppendIndices DEF JournalOK
  <1> HIDE DEF new, n
  <1>2. /\ StatusAfter(e.kind) \in Statuses /\ StatusAfter(e.kind) # "created"
        /\ IsTerminal(StatusAfter(e.kind)) <=> IsTerminal(e.kind)
        /\ IsTerminal(e.kind) => StatusAfter(e.kind) = e.kind
    BY EventsKnown DEF StatusAfter, EventKinds, Statuses, IsTerminal, TerminalKinds
  <1>3. ~IsTerminal(status)
    BY DEF Admits, IsTerminal, TerminalKinds
  <1>4. \A i \in 1..n : ~IsTerminal(new[i].kind)
    BY <1>1, <1>3 DEF JournalOK
  <1>5. \A i \in 1..(n + 1) : IsTerminal(new[i].kind) =>
           i = n + 1 /\ StatusAfter(e.kind) = new[i].kind
    BY <1>1, <1>2, <1>4
  <1>6. IsTerminal(StatusAfter(e.kind)) => new[n + 1] = Fact(StatusAfter(e.kind))
    BY <1>1, <1>2, TerminalEvents
  <1>7. \A i, j \in 1..(n + 1) : HasReplayKey(new[i]) /\ new[i] = new[j] => i = j
    <2> SUFFICES ASSUME NEW i \in 1..(n + 1), NEW j \in 1..(n + 1),
                        HasReplayKey(new[i]), new[i] = new[j]
                 PROVE  i = j
      OBVIOUS
    <2>1. CASE i \in 1..n /\ j \in 1..n
      BY <1>1, <2>1 DEF JournalOK
    <2>2. CASE i = n + 1 /\ j \in 1..n
      BY <1>1, <2>2
    <2>3. CASE i \in 1..n /\ j = n + 1
      BY <1>1, <2>3
    <2> QED BY <1>1, <2>1, <2>2, <2>3
  <1>8. new[1].kind \in {"submitted", "failed", "cancelled"}
    <2>1. CASE n = 0
      <3>1. status = "created" /\ new[1] = e
        BY <1>1, <2>1 DEF JournalOK, n
      <3> QED BY <3>1 DEF Admits
    <2>2. CASE n # 0
      BY <1>1, <2>2 DEF JournalOK, n
    <2> QED BY <2>1, <2>2
  <1> QED BY <1>1, <1>2, <1>5, <1>6, <1>7, <1>8 DEF JournalOK, new

(* Each effect preserves the invariant.                                    *)
LEMMA JournalStep ==
    ASSUME JournalInv, [Next]_vars
    PROVE  JournalInv'
  <1>1. SessionStep /\ SessionTypeOK'
    BY SessionSteps DEF JournalInv
  <1>2. CASE Keeps
    BY <1>1, <1>2 DEF JournalInv, Keeps
  <1>3. ASSUME NEW e \in Event, Appends(e) PROVE JournalInv'
    <2>1. HasReplayKey(e) => \A i \in DOMAIN session.events : session.events[i] # e
      BY <1>3 DEF Appends, Replayed
    <2>2. JournalOK(StatusAfter(e.kind), Append(session.events, e))
      BY <1>3, <2>1, JournalGrows DEF Appends, JournalInv
    <2> QED BY <1>1, <1>3, <2>2 DEF Appends, JournalInv
  <1>4. ASSUME NEW a \in Artifacts, AppendsBoth(a) PROVE JournalInv'
    <2> DEFINE first == Append(session.events, Artifact(a))
    <2>1. /\ Artifact(a) \in Event /\ Artifact(a).kind = "artifact_ready"
          /\ Fact("completed") \in Event /\ Fact("completed").kind = "completed"
      BY EventsKnown DEF EventKinds, TerminalKinds
    <2>2. HasReplayKey(Artifact(a)) => \A i \in DOMAIN session.events : session.events[i] # Artifact(a)
      BY <1>4 DEF AppendsBoth, Replayed
    <2>3. Admits(session.status, "artifact_ready") /\ Admits("working", "completed")
      BY <1>4 DEF AppendsBoth, Admits
    <2>4. StatusAfter("artifact_ready") = "working" /\ StatusAfter("completed") = "completed"
      BY DEF StatusAfter
    <2>5. JournalOK("working", first)
      BY <2>1, <2>2, <2>3, <2>4, JournalGrows DEF JournalInv
    <2>6. \A i \in DOMAIN first : first[i] # Fact("completed")
      BY <2>1, <2>5 DEF JournalOK, IsTerminal, TerminalKinds
    <2> HIDE DEF first
    <2>7. JournalOK("completed", Append(first, Fact("completed")))
      BY <2>1, <2>3, <2>4, <2>5, <2>6, JournalGrows
    <2> QED BY <1>1, <1>4, <2>7 DEF AppendsBoth, JournalInv, first
  <1> QED BY <1>1, <1>2, <1>3, <1>4 DEF SessionStep

LEMMA JournalInitial == Init => JournalInv
  BY DEF Init, JournalInv, JournalOK, SessionTypeOK, Statuses, IsTerminal, TerminalKinds

LEMMA JournalInvariant == Spec => []JournalInv
  <1>1. JournalInv /\ [Next]_vars => JournalInv'
    BY JournalStep
  <1> QED BY <1>1, JournalInitial, PTL DEF Spec

(* The journal ends with its one terminal fact, and the status says which. *)
THEOREM OneTerminalFactHolds == Spec => []OneTerminalFact
  <1>1. JournalInv => OneTerminalFact
    BY DEF JournalInv, JournalOK, OneTerminalFact
  <1> QED BY <1>1, JournalInvariant, PTL

(* No keyed fact is recorded twice, whoever repeats it.                    *)
THEOREM FactsRecordedOnceHolds == Spec => []FactsRecordedOnce
  <1>1. JournalInv => FactsRecordedOnce
    BY DEF JournalInv, JournalOK, FactsRecordedOnce
  <1> QED BY <1>1, JournalInvariant, PTL

(* Nothing but a failure or a cancellation precedes the submission.        *)
THEOREM SubmittedFirstHolds == Spec => []SubmittedFirst
  <1>1. JournalInv => SubmittedFirst
    BY DEF JournalInv, JournalOK, SubmittedFirst
  <1> QED BY <1>1, JournalInvariant, PTL

-----------------------------------------------------------------------------
(* The attached body.                                                      *)

Lifecycles ==
    [submitted : BOOLEAN, executor : Slots, stopCallback : Slots,
     inputCallback : Slots, stopped : SUBSET Executors, stopFailed : BOOLEAN]

Stoppable(l) ==
    l.executor # NoExecutor => l.stopCallback = l.executor /\ l.inputCallback = l.executor

LifecycleInv == lifecycle \in Lifecycles /\ Stoppable(lifecycle)

(* A binding that fails half way leaves a body that is not attached.       *)
LEMMA BindingIsWhole ==
    ASSUME NEW l \in Lifecycles, Stoppable(l), NEW e \in Executors
    PROVE  /\ BoundTo(l, e) \in Lifecycles /\ Stoppable(BoundTo(l, e))
           /\ l.executor # NoExecutor => BoundTo(l, e).executor = l.executor
  <1>1. e \in Slots /\ NoExecutor \in Slots /\ e # NoExecutor
    BY NoExecutorAssumption DEF Slots
  <1>2. CASE Bindable(l, e)
    <2>1. BoundTo(l, e) = [l EXCEPT !.executor = e, !.stopCallback = e, !.inputCallback = e]
      BY <1>2 DEF BoundTo
    <2> QED BY <1>1, <1>2, <2>1 DEF Lifecycles, Stoppable, Bindable, Free
  <1>3. CASE ~Bindable(l, e) /\ Free(l.executor, e) /\ Free(l.stopCallback, e)
    <2>1. BoundTo(l, e) = [l EXCEPT !.stopCallback = e]
      BY <1>3 DEF BoundTo
    <2>2. l.executor = NoExecutor
      BY <1>1, <1>3 DEF Stoppable, Bindable, Free
    <2> QED BY <1>1, <2>1, <2>2 DEF Lifecycles, Stoppable
  <1>4. CASE ~Bindable(l, e) /\ ~(Free(l.executor, e) /\ Free(l.stopCallback, e))
    BY <1>4 DEF BoundTo
  <1> QED BY <1>2, <1>3, <1>4

(* Asking the body to stop changes what was asked and nothing else.        *)
LEMMA StopRequestIsHarmless ==
    ASSUME NEW l \in Lifecycles, Stoppable(l), NEW k \in StopRequested(l)
    PROVE  k \in Lifecycles /\ Stoppable(k) /\ k.executor = l.executor
  <1>1. CASE l.stopCallback = NoExecutor
    BY <1>1 DEF StopRequested
  <1>2. CASE l.stopCallback # NoExecutor
    <2>1. l.stopCallback \in Executors
      BY <1>2 DEF Lifecycles, Slots
    <2>2. CASE k = [l EXCEPT !.stopped = @ \cup {l.stopCallback}]
      BY <2>1, <2>2 DEF Lifecycles, Stoppable
    <2>3. CASE k = [l EXCEPT !.stopFailed = TRUE]
      BY <2>3 DEF Lifecycles, Stoppable
    <2> QED BY <1>2, <2>2, <2>3 DEF StopRequested
  <1> QED BY <1>1, <1>2

(* What a step may do to the lifecycle: the invariant is kept, and an      *)
(* attached body stays or is released after the end.                       *)
LifecycleStep ==
    /\ LifecycleInv'
    /\ lifecycle.executor # NoExecutor /\ lifecycle'.executor # lifecycle.executor =>
          IsTerminal(session.status) /\ lifecycle'.executor = NoExecutor

LEMMA LifecycleSteps ==
    ASSUME LifecycleInv, [Next]_vars
    PROVE  LifecycleStep
  <1>1. CASE UNCHANGED lifecycle
    BY <1>1 DEF LifecycleStep, LifecycleInv
  <1>2. /\ StartedLifecycle \in Lifecycles /\ Stoppable(StartedLifecycle)
        /\ StartedLifecycle.executor = lifecycle.executor
    BY DEF StartedLifecycle, LifecycleInv, Lifecycles, Stoppable
  <1>3. CASE Start
    BY <1>2, <1>3 DEF Start, LifecycleStep, LifecycleInv
  <1>4. ASSUME NEW e \in Executors, BindStopCallback(e) \/ BindInputCallback(e)
        PROVE  LifecycleStep
    <2>1. e \in Slots /\ e # NoExecutor
      BY NoExecutorAssumption DEF Slots
    <2>2. lifecycle.executor = NoExecutor
      BY <1>4 DEF BindStopCallback, BindInputCallback, LifecycleInv, Stoppable
    <2>3. CASE lifecycle' = [lifecycle EXCEPT !.stopCallback = e]
      BY <2>1, <2>2, <2>3 DEF LifecycleStep, LifecycleInv, Lifecycles, Stoppable
    <2>4. CASE lifecycle' = [lifecycle EXCEPT !.inputCallback = e]
      BY <2>1, <2>2, <2>4 DEF LifecycleStep, LifecycleInv, Lifecycles, Stoppable
    <2> QED BY <1>4, <2>3, <2>4 DEF BindStopCallback, BindInputCallback
  <1>5. ASSUME NEW e \in Executors, BindExecutor(e) PROVE LifecycleStep
    BY <1>5, BindingIsWhole DEF BindExecutor, LifecycleStep, LifecycleInv
  <1>6. ASSUME NEW e \in Executors, ActivateExecutor(e) \/ ActivateMismatched(e)
        PROVE  LifecycleStep
    <2>1. lifecycle' = BoundTo(StartedLifecycle, e)
      BY <1>6 DEF ActivateExecutor, ActivateMismatched
    <2> QED BY <1>2, <2>1, BindingIsWhole DEF LifecycleStep, LifecycleInv
  <1>7. ASSUME NEW e \in Executors, Cancel(e) PROVE LifecycleStep
    BY <1>7, StopRequestIsHarmless DEF Cancel, LifecycleStep, LifecycleInv
  <1>8. ASSUME NEW e \in Executors, ReleaseExecutor(e) PROVE LifecycleStep
    <2>1. NoExecutor \in Slots
      BY DEF Slots
    <2>2. /\ IsTerminal(session.status)
          /\ lifecycle' = [lifecycle EXCEPT !.executor = NoExecutor, !.stopCallback = NoExecutor,
                                            !.inputCallback = NoExecutor]
      BY <1>8 DEF ReleaseExecutor
    <2> QED BY <2>1, <2>2 DEF LifecycleStep, LifecycleInv, Lifecycles, Stoppable
  <1>9. ASSUME NEW e \in Executors,
               \/ \E event \in Event : EmitEvent(e, event)
               \/ \E a \in Artifacts : Complete(e, a)
               \/ CancelMismatched(e) \/ ProvideInput(e)
        PROVE  UNCHANGED lifecycle
    BY <1>9 DEF EmitEvent, Complete, CancelMismatched, ProvideInput
  <1>10. ASSUME AttachHead \/ CloseHead \/ \E m \in Mailboxes : SubscriberStep(m)
         PROVE  UNCHANGED lifecycle
    BY <1>10 DEF AttachHead, CloseHead, SubscriberStep, SubscribeMailbox, UnsubscribeMailbox, Receive
  <1>11. CASE UNCHANGED vars
    BY <1>1, <1>11 DEF vars
  <1> QED
    BY <1>1, <1>3, <1>4, <1>5, <1>6, <1>7, <1>8, <1>9, <1>10, <1>11 DEF Next, ExecutorStep

LEMMA LifecycleInvariant == Spec => []LifecycleInv
  <1>1. Init => LifecycleInv
    BY DEF Init, LifecycleInv, Lifecycles, Stoppable, Slots
  <1>2. LifecycleInv /\ [Next]_vars => LifecycleInv'
    BY LifecycleSteps DEF LifecycleStep
  <1> QED BY <1>1, <1>2, PTL DEF Spec

(* The identity and the callbacks of an attached body belong together.     *)
THEOREM AttachedBodyStoppableHolds == Spec => []AttachedBodyStoppable
  <1>1. LifecycleInv => AttachedBodyStoppable
    BY DEF LifecycleInv, Stoppable, AttachedBodyStoppable
  <1> QED BY <1>1, LifecycleInvariant, PTL

(* After the end the session never changes, and an attached body is only   *)
(* released then.                                                          *)
THEOREM EndIsFinalHolds == Spec => EndIsFinal
  <1> DEFINE Final ==
        /\ IsTerminal(session.status) => session' = session
        /\ lifecycle.executor # NoExecutor /\ lifecycle'.executor # lifecycle.executor =>
              IsTerminal(session.status) /\ lifecycle'.executor = NoExecutor
  <1>1. ASSUME JournalInv, LifecycleInv, [Next]_vars PROVE Final
    <2>1. SessionStep
      BY <1>1, SessionSteps DEF JournalInv
    <2>2. IsTerminal(session.status) => session' = session
      BY <2>1 DEF SessionStep, Keeps, Appends, AppendsBoth, Admits, IsTerminal, TerminalKinds
    <2> QED BY <1>1, <2>2, LifecycleSteps DEF LifecycleStep
  <1>2. JournalInv /\ LifecycleInv /\ [Next]_vars => [Final]_vars
    BY <1>1
  <1> QED BY <1>2, JournalInvariant, LifecycleInvariant, PTL DEF Spec, EndIsFinal

(* Only a cancellation ends an execution as "cancelled": no body can.      *)
LEMMA OnlyCancelCancels ==
    ASSUME SessionTypeOK, [Next]_vars,
           session.status # "cancelled", session'.status = "cancelled"
    PROVE  \E e \in Executors : Cancel(e)
  <1>1. ASSUME NEW s, NEW e \in Event, e.kind # "cancelled", s.status = session.status,
               session' = Recorded(s, e),
               s \in [status : Statuses, events : Seq(Event), commands : SUBSET CommandKinds]
        PROVE  FALSE
    <2>1. session'.status \in {s.status, StatusAfter(e.kind)}
      BY <1>1 DEF Recorded
    <2>2. StatusAfter(e.kind) # "cancelled"
      BY <1>1 DEF StatusAfter
    <2> QED BY <1>1, <2>1, <2>2
  <1>2. /\ StartedSession.status = session.status
        /\ StartedSession \in [status : Statuses, events : Seq(Event), commands : SUBSET CommandKinds]
    BY DEF StartedSession, Commanded, CommandKinds, SessionTypeOK
  <1>3. ASSUME NEW e \in Executors, ActivateExecutor(e) PROVE FALSE
    <2>1. /\ Fact("submitted") \in Event /\ Fact("submitted").kind # "cancelled"
          /\ session' = Recorded(StartedSession, Fact("submitted"))
      BY <1>3, EventsKnown DEF EventKinds, ActivateExecutor, RecordEvent
    <2> QED BY <1>1, <1>2, <2>1
  <1>4. ASSUME NEW e \in Executors, NEW event \in Event, EmitEvent(e, event) PROVE FALSE
    BY <1>1, <1>4 DEF EmitEvent, RecordEvent, SessionTypeOK
  <1>5. ASSUME NEW e \in Executors, NEW a \in Artifacts, Complete(e, a) PROVE FALSE
    <2> DEFINE s1 == Recorded(session, Artifact(a))
    <2>1. /\ Artifact(a) \in Event /\ Artifact(a).kind = "artifact_ready"
          /\ Fact("completed") \in Event /\ Fact("completed").kind = "completed"
      BY EventsKnown DEF EventKinds, TerminalKinds
    <2>2. session' = Recorded(s1, Fact("completed"))
      BY <1>5 DEF Complete
    <2>3. "working" \in Statuses /\ StatusAfter("artifact_ready") = "working"
      BY DEF Statuses, StatusAfter
    <2>4. s1 \in [status : Statuses, events : Seq(Event), commands : SUBSET CommandKinds]
      BY <2>1, <2>3, AppendedSession DEF Recorded, SessionTypeOK
    <2>5. s1.status \in {session.status, "working"}
      BY <2>1, <2>3 DEF Recorded, SessionTypeOK
    <2> HIDE DEF s1
    <2>6. session'.status \in {s1.status, StatusAfter("completed")}
      BY <2>1, <2>2, <2>4 DEF Recorded
    <2> QED BY <2>5, <2>6 DEF StatusAfter
  <1>6. ASSUME session'.status = session.status PROVE FALSE
    BY <1>6
  <1>7. ASSUME \/ AttachHead \/ Start \/ CloseHead \/ UNCHANGED vars
               \/ \E m \in Mailboxes : SubscriberStep(m)
               \/ \E e \in Executors : \/ BindStopCallback(e) \/ BindInputCallback(e) \/ BindExecutor(e)
                                     \/ ActivateMismatched(e) \/ CancelMismatched(e)
                                     \/ ProvideInput(e) \/ ReleaseExecutor(e)
        PROVE  FALSE
    <2>1. session' = session \/ session' = StartedSession \/ \E kind \in CommandKinds : session' = Commanded(session, kind)
      BY <1>7 DEF vars, AttachHead, Start, CloseHead, SubscriberStep, SubscribeMailbox,
                  UnsubscribeMailbox, Receive, BindStopCallback, BindInputCallback, BindExecutor,
                  ActivateMismatched, CancelMismatched, ProvideInput, ReleaseExecutor, CommandKinds
    <2> QED BY <1>2, <2>1 DEF Commanded, SessionTypeOK
  <1> QED BY <1>3, <1>4, <1>5, <1>7 DEF Next, ExecutorStep

(* A cancellation always asks the attached body to stop.                   *)
THEOREM CancelStopsBodyHolds == Spec => CancelStopsBody
  <1> DEFINE Stops ==
        (/\ session.status # "cancelled" /\ session'.status = "cancelled"
         /\ lifecycle.executor # NoExecutor)
        => lifecycle.executor \in lifecycle'.stopped \/ lifecycle'.stopFailed
  <1>1. ASSUME JournalInv, LifecycleInv, [Next]_vars PROVE Stops
    <2> SUFFICES ASSUME session.status # "cancelled", session'.status = "cancelled",
                        lifecycle.executor # NoExecutor
                 PROVE  lifecycle.executor \in lifecycle'.stopped \/ lifecycle'.stopFailed
      OBVIOUS
    <2>1. lifecycle' \in StopRequested(lifecycle)
      BY <1>1, OnlyCancelCancels DEF JournalInv, Cancel
    <2>2. lifecycle.stopCallback = lifecycle.executor
      BY <1>1 DEF LifecycleInv, Stoppable
    <2>3. CASE lifecycle' = [lifecycle EXCEPT !.stopped = @ \cup {lifecycle.stopCallback}]
      BY <1>1, <2>2, <2>3 DEF LifecycleInv, Lifecycles
    <2>4. CASE lifecycle' = [lifecycle EXCEPT !.stopFailed = TRUE]
      BY <1>1, <2>4 DEF LifecycleInv, Lifecycles
    <2> QED BY <2>1, <2>2, <2>3, <2>4 DEF StopRequested
  <1>2. JournalInv /\ LifecycleInv /\ [Next]_vars => [Stops]_vars
    BY <1>1
  <1> QED BY <1>2, JournalInvariant, LifecycleInvariant, PTL DEF Spec, CancelStopsBody

-----------------------------------------------------------------------------
(* The Core Head implements ExecutionContract.                             *)

LEMMA KeyedFactsGrow ==
    ASSUME NEW events \in Seq(Event), NEW e \in Event
    PROVE  KeyedFacts(Append(events, e)) =
               KeyedFacts(events) \cup (IF HasReplayKey(e) THEN {e} ELSE {})
  <1>1. /\ DOMAIN Append(events, e) = 1..(Len(events) + 1) /\ DOMAIN events = 1..Len(events)
        /\ Len(events) \in Nat
        /\ \A i \in DOMAIN events : Append(events, e)[i] = events[i]
        /\ Append(events, e)[Len(events) + 1] = e
    BY AppendIndices
  <1>2. ASSUME NEW f \in KeyedFacts(Append(events, e))
        PROVE  f \in KeyedFacts(events) \cup (IF HasReplayKey(e) THEN {e} ELSE {})
    <2>1. PICK i \in DOMAIN Append(events, e) :
             HasReplayKey(Append(events, e)[i]) /\ f = Append(events, e)[i]
      BY DEF KeyedFacts
    <2>2. CASE i \in DOMAIN events
      BY <1>1, <2>1, <2>2 DEF KeyedFacts
    <2>3. CASE i = Len(events) + 1
      BY <1>1, <2>1, <2>3
    <2> QED BY <1>1, <2>2, <2>3
  <1>3. KeyedFacts(events) \subseteq KeyedFacts(Append(events, e))
    BY <1>1 DEF KeyedFacts
  <1>4. HasReplayKey(e) => e \in KeyedFacts(Append(events, e))
    BY <1>1 DEF KeyedFacts
  <1> QED BY <1>2, <1>3, <1>4

LEMMA Phases ==
    /\ Phase("created") = "pending"
    /\ Phase("submitted") = "running" /\ Phase("working") = "running"
    /\ \A status : IsTerminal(status) => Phase(status) = "ended"
  BY DEF Phase, IsTerminal, TerminalKinds

(* Each effect is a step of the contract, or none that it can see.         *)
LEMMA ContractStep ==
    ASSUME JournalInv, [Next]_vars
    PROVE  [Contract!ContractNext]_(Contract!contractVars)
  <1> DEFINE phase  == Phase(session.status)
             facts  == KeyedFacts(session.events)
  <1>1. SessionStep /\ SessionTypeOK
    BY SessionSteps DEF JournalInv
  <1>2. CASE Keeps
    BY <1>2 DEF Keeps, Contract!contractVars
  <1>3. ASSUME NEW e \in Event, Appends(e)
        PROVE  [Contract!ContractNext]_(Contract!contractVars)
    <2>1. facts' = facts \cup (IF HasReplayKey(e) THEN {e} ELSE {})
      BY <1>1, <1>3, KeyedFactsGrow DEF Appends, SessionTypeOK
    <2>2. HasReplayKey(e) => e \notin facts
      BY <1>3 DEF Appends, Replayed, KeyedFacts
    <2>3. Admits(session.status, e.kind) /\ phase' = Phase(StatusAfter(e.kind))
      BY <1>3 DEF Appends
    <2>4. CASE e = Fact("submitted")
      <3>1. e.kind = "submitted" /\ HasReplayKey(e)
        BY <2>4 DEF Fact, HasReplayKey
      <3>2. phase = "pending" /\ phase' = "running"
        BY <2>3, <3>1, Phases DEF Admits, StatusAfter
      <3>3. Contract!Begin
        BY <2>1, <2>4, <3>1, <3>2 DEF Contract!Begin
      <3> QED BY <3>3 DEF Contract!ContractNext
    <2>5. CASE e = Fact("working") \/ e \in {Artifact(a) : a \in Artifacts}
      <3>1. e.kind \in {"working", "artifact_ready"} /\ HasReplayKey(e)
        BY <2>5, NoArtifactAssumption DEF Fact, Artifact, HasReplayKey
      <3>2. phase = "running" /\ phase' = "running"
        BY <2>3, <3>1, Phases DEF Admits, StatusAfter
      <3>3. Contract!Report(e)
        BY <2>1, <2>2, <3>1, <3>2 DEF Contract!Report
      <3> QED BY <2>5, <3>3 DEF Contract!ContractNext
    <2>6. CASE e = Fact("progress") \/ e = Fact("artifact_ready")
      <3>1. e.kind \in {"progress", "artifact_ready"} /\ ~HasReplayKey(e)
        BY <2>6 DEF Fact, HasReplayKey
      <3>2. phase = "running" /\ phase' = "running"
        BY <2>3, <3>1, Phases DEF Admits, StatusAfter
      <3> QED BY <2>1, <3>1, <3>2 DEF Contract!contractVars
    <2>7. CASE e = Fact("completed")
      <3>1. e.kind = "completed" /\ HasReplayKey(e)
        BY <2>7 DEF Fact, HasReplayKey
      <3>2. phase = "running" /\ phase' = "ended"
        BY <2>3, <3>1, Phases DEF Admits, StatusAfter, IsTerminal, TerminalKinds
      <3>3. Contract!EndCompleted({})
        BY <2>1, <2>7, <3>1, <3>2 DEF Contract!EndCompleted
      <3> QED BY <3>3 DEF Contract!ContractNext
    <2>8. CASE e = Fact("failed") \/ e = Fact("cancelled")
      <3>1. e.kind \in {"failed", "cancelled"} /\ HasReplayKey(e)
        BY <2>8 DEF Fact, HasReplayKey
      <3>2. session.status \in {"created", "submitted", "working"}
        BY <1>1, <2>3, <3>1 DEF Admits, IsTerminal, SessionTypeOK, Statuses
      <3>3. phase # "ended" /\ phase' = "ended"
        BY <2>3, <3>1, <3>2, Phases DEF StatusAfter, IsTerminal, TerminalKinds
      <3>4. Contract!EndAborted(e)
        BY <2>1, <3>1, <3>3 DEF Contract!EndAborted
      <3> QED BY <2>8, <3>4 DEF Contract!ContractNext
    <2> QED BY <2>4, <2>5, <2>6, <2>7, <2>8 DEF Event, EventKinds, TerminalKinds
  <1>4. ASSUME NEW a \in Artifacts, AppendsBoth(a)
        PROVE  [Contract!ContractNext]_(Contract!contractVars)
    <2>1. /\ Artifact(a) \in Event /\ HasReplayKey(Artifact(a))
          /\ Fact("completed") \in Event /\ HasReplayKey(Fact("completed"))
      BY EventsKnown, NoArtifactAssumption
         DEF EventKinds, TerminalKinds, HasReplayKey, Artifact, Fact
    <2>2. Append(session.events, Artifact(a)) \in Seq(Event)
      BY <1>1, <2>1 DEF SessionTypeOK
    <2>3. facts' = facts \cup {Artifact(a)} \cup {Fact("completed")}
      BY <1>1, <1>4, <2>1, <2>2, KeyedFactsGrow DEF AppendsBoth, SessionTypeOK
    <2>4. phase = "running" /\ phase' = "ended"
      BY <1>4, Phases DEF AppendsBoth, IsTerminal, TerminalKinds
    <2>5. Contract!EndCompleted({Artifact(a)})
      BY <2>3, <2>4 DEF Contract!EndCompleted
    <2> QED BY <2>5 DEF Contract!ContractNext
  <1> QED BY <1>1, <1>2, <1>3, <1>4 DEF SessionStep

(* The Core Head keeps the contract, whoever calls it in whatever order.   *)
THEOREM ImplementsContractHolds == Spec => ImplementsContract
  <1>1. Init => Contract!ContractInit
    BY Phases DEF Init, Contract!ContractInit, KeyedFacts
  <1>2. JournalInv /\ [Next]_vars => [Contract!ContractNext]_(Contract!contractVars)
    BY ContractStep
  <1> QED BY <1>1, <1>2, JournalInvariant, PTL DEF Spec, ImplementsContract, Contract!ContractSpec

-----------------------------------------------------------------------------
(* The head publishes the journal.                                         *)

Sessions == [status : Statuses, events : Seq(Event), commands : SUBSET CommandKinds]
Heads    == [attached : BOOLEAN, closed : BOOLEAN, published : SUBSET Nat]

PublishedOK(h, events) ==
    h \in Heads /\ (h.attached /\ ~h.closed => h.published = DOMAIN events)

PublishedInv == SessionTypeOK /\ PublishedOK(head, session.events)

LEMMA RecordedSession ==
    ASSUME NEW s \in Sessions, NEW e \in Event
    PROVE  /\ Recorded(s, e) \in Sessions
           /\ SequenceOf(s, e) \in DOMAIN Recorded(s, e).events
           /\ DOMAIN Recorded(s, e).events = DOMAIN s.events \cup {SequenceOf(s, e)}
           /\ DOMAIN Recorded(s, e).events \subseteq Nat
  <1>1. StatusAfter(e.kind) \in Statuses
    BY EventsKnown DEF StatusAfter, EventKinds, Statuses, TerminalKinds
  <1>2. CASE Replayed(s, e) # {}
    <2>1. SequenceOf(s, e) \in Replayed(s, e)
      BY <1>2 DEF SequenceOf
    <2> QED BY <1>2, <2>1 DEF Recorded, Replayed, Sessions
  <1>3. CASE Replayed(s, e) = {}
    <2>1. /\ Recorded(s, e) = [s EXCEPT !.status = StatusAfter(e.kind), !.events = Append(@, e)]
          /\ SequenceOf(s, e) = Len(s.events) + 1
      BY <1>3 DEF Recorded, SequenceOf
    <2>2. Recorded(s, e) \in Sessions
      BY <1>1, <2>1, AppendedSession DEF Sessions
    <2>3. Recorded(s, e).events = Append(s.events, e) /\ s.events \in Seq(Event)
      BY <2>1 DEF Sessions
    <2>4. /\ DOMAIN Append(s.events, e) = 1..(Len(s.events) + 1)
          /\ DOMAIN s.events = 1..Len(s.events) /\ Len(s.events) \in Nat
      BY <2>3, AppendIndices
    <2> QED BY <2>1, <2>2, <2>3, <2>4
  <1> QED BY <1>2, <1>3

(* Publishing the envelope that record_event returned keeps the two equal. *)
LEMMA PublishedGrows ==
    ASSUME NEW s \in Sessions, NEW e \in Event, NEW h, PublishedOK(h, s.events)
    PROVE  LET events == Recorded(s, e).events
           IN  PublishedOK(PublishedHead(h, events, SequenceOf(s, e)), events)
  <1> DEFINE events == Recorded(s, e).events
             i      == SequenceOf(s, e)
             g      == PublishedHead(h, events, i)
  <1>1. DOMAIN events = DOMAIN s.events \cup {i} /\ i \in Nat
    BY RecordedSession
  <1>2. IsTerminal(events[i].kind) \in BOOLEAN
    BY DEF IsTerminal
  <1> SUFFICES PublishedOK(g, events)
    OBVIOUS
  <1> HIDE DEF events, i
  <1>3. CASE Publishes(h, i)
    <2> DEFINE end == IsTerminal(events[i].kind)
    <2>1. g = [h EXCEPT !.published = @ \cup {i}, !.closed = end]
      BY <1>3 DEF PublishedHead
    <2>2. end \in BOOLEAN /\ h \in Heads /\ h.published = DOMAIN s.events
      BY <1>2, <1>3 DEF PublishedOK, Publishes
    <2> HIDE DEF g, end
    <2>3. g \in Heads /\ g.published = h.published \cup {i}
      BY <1>1, <2>1, <2>2 DEF Heads
    <2> QED BY <1>1, <2>2, <2>3 DEF PublishedOK
  <1>4. CASE ~Publishes(h, i)
    <2>1. g = h
      BY <1>4 DEF PublishedHead
    <2>2. h.attached /\ ~h.closed => h.published = DOMAIN events
      BY <1>1, <1>4 DEF PublishedOK, Publishes
    <2> QED BY <2>1, <2>2 DEF PublishedOK
  <1> QED BY <1>3, <1>4

LEMMA PublishedSteps ==
    ASSUME PublishedInv, [Next]_vars
    PROVE  PublishedInv'
  <1>1. SessionTypeOK'
    BY SessionSteps DEF PublishedInv
  <1>2. session \in Sessions /\ PublishedOK(head, session.events)
    BY DEF PublishedInv, SessionTypeOK, Sessions
  <1>3. ASSUME NEW kind \in CommandKinds
        PROVE  Commanded(session, kind) \in Sessions /\ Commanded(session, kind).events = session.events
    BY <1>2 DEF Commanded, Sessions
  <1>4. /\ StartedSession \in Sessions /\ StartedSession.events = session.events
        /\ Commanded(session, "cancel") \in Sessions
        /\ Commanded(session, "cancel").events = session.events
    BY <1>2, <1>3 DEF StartedSession, CommandKinds
  <1>5. ASSUME NEW s \in Sessions, NEW e \in Event, s.events = session.events, RecordEvent(s, e)
        PROVE  PublishedInv'
    <2>1. /\ session'.events = Recorded(s, e).events
          /\ head' = PublishedHead(head, Recorded(s, e).events, SequenceOf(s, e))
      BY <1>5 DEF RecordEvent
    <2> QED BY <1>1, <1>2, <1>5, <2>1, PublishedGrows DEF PublishedInv
  <1>6. ASSUME NEW e \in Executors, ActivateExecutor(e) PROVE PublishedInv'
    <2>1. Fact("submitted") \in Event /\ RecordEvent(StartedSession, Fact("submitted"))
      BY <1>6, EventsKnown DEF EventKinds, ActivateExecutor
    <2> QED BY <1>4, <1>5, <2>1
  <1>7. ASSUME NEW e \in Executors, NEW event \in Event, EmitEvent(e, event) PROVE PublishedInv'
    BY <1>2, <1>5, <1>7 DEF EmitEvent
  <1>8. ASSUME NEW e \in Executors, Cancel(e) PROVE PublishedInv'
    <2>1. Fact("cancelled") \in Event /\ RecordEvent(Commanded(session, "cancel"), Fact("cancelled"))
      BY <1>8, EventsKnown DEF EventKinds, TerminalKinds, Cancel
    <2> QED BY <1>4, <1>5, <2>1
  <1>9. ASSUME NEW e \in Executors, NEW a \in Artifacts, Complete(e, a) PROVE PublishedInv'
    <2> DEFINE s1 == Recorded(session, Artifact(a))
               h1 == PublishedHead(head, s1.events, SequenceOf(session, Artifact(a)))
               s2 == Recorded(s1, Fact("completed"))
               h2 == PublishedHead(h1, s2.events, SequenceOf(s1, Fact("completed")))
    <2>1. Artifact(a) \in Event /\ Fact("completed") \in Event
      BY EventsKnown DEF EventKinds, TerminalKinds
    <2>2. s1 \in Sessions /\ PublishedOK(h1, s1.events)
      BY <1>2, <2>1, RecordedSession, PublishedGrows
    <2>3. session' = s2 /\ head' = h2
      BY <1>9 DEF Complete
    <2> HIDE DEF s1, h1
    <2>4. PublishedOK(h2, s2.events)
      BY <2>1, <2>2, PublishedGrows
    <2> QED BY <1>1, <2>3, <2>4 DEF PublishedInv
  <1>10. ASSUME session'.events = session.events, UNCHANGED head PROVE PublishedInv'
    BY <1>1, <1>2, <1>10 DEF PublishedInv
  <1>11. CASE AttachHead
    <2>1. /\ session' = session
          /\ head' = [head EXCEPT !.attached = TRUE, !.published = DOMAIN session.events]
      BY <1>11 DEF AttachHead
    <2>2. DOMAIN session.events \subseteq Nat
      BY <1>2 DEF Sessions
    <2> QED BY <1>1, <1>2, <2>1, <2>2 DEF PublishedInv, PublishedOK, Heads
  <1>12. CASE CloseHead
    <2>1. session' = session /\ head' = [head EXCEPT !.closed = TRUE]
      BY <1>12 DEF CloseHead
    <2> QED BY <1>1, <1>2, <2>1 DEF PublishedInv, PublishedOK, Heads
  <1>13. ASSUME \/ Start \/ UNCHANGED vars \/ \E m \in Mailboxes : SubscriberStep(m)
                \/ \E e \in Executors : \/ BindStopCallback(e) \/ BindInputCallback(e) \/ BindExecutor(e)
                                      \/ ActivateMismatched(e) \/ CancelMismatched(e)
                                      \/ ProvideInput(e) \/ ReleaseExecutor(e)
         PROVE  PublishedInv'
    <2>1. /\ UNCHANGED head
          /\ \/ session' = session \/ session' = StartedSession
             \/ \E kind \in CommandKinds : session' = Commanded(session, kind)
      BY <1>13 DEF vars, Start, SubscriberStep, SubscribeMailbox, UnsubscribeMailbox, Receive,
                   BindStopCallback, BindInputCallback, BindExecutor, ActivateMismatched,
                   CancelMismatched, ProvideInput, ReleaseExecutor, CommandKinds
    <2> QED BY <1>3, <1>4, <1>10, <2>1
  <1> QED BY <1>6, <1>7, <1>8, <1>9, <1>11, <1>12, <1>13 DEF Next, ExecutorStep

LEMMA PublishedInvariant == Spec => []PublishedInv
  <1>1. ASSUME Init PROVE PublishedInv
    <2>1. SessionTypeOK /\ session.events = << >>
      BY <1>1, JournalInitial DEF Init, JournalInv
    <2>2. head.attached \in BOOLEAN /\ head.closed = FALSE /\ head.published = {}
      BY <1>1 DEF Init
    <2>3. head = [attached |-> head.attached, closed |-> FALSE, published |-> {}]
      BY <1>1 DEF Init
    <2>4. head \in Heads
      BY <2>2, <2>3 DEF Heads
    <2> QED BY <2>1, <2>2, <2>4 DEF PublishedInv, PublishedOK
  <1>2. PublishedInv /\ [Next]_vars => PublishedInv'
    BY PublishedSteps
  <1> QED BY <1>1, <1>2, PTL DEF Spec

(* An open head has published exactly the journal.                         *)
THEOREM PublishedIsJournalHolds == Spec => []PublishedIsJournal
  <1>1. PublishedInv => PublishedIsJournal
    BY DEF PublishedInv, PublishedOK, PublishedIsJournal
  <1> QED BY <1>1, PublishedInvariant, PTL

-----------------------------------------------------------------------------
(* Type correctness.                                                       *)

Boxes ==
    [state : {"unused", "open", "closed"}, queue : Seq(Nat), wake : BOOLEAN,
     reader : {"reading", "asleep", "done"}, received : Seq(Nat), from : Nat, dropped : Nat]

LEMMA RemoveAtType ==
    ASSUME NEW q \in Seq(Nat), NEW k \in DOMAIN q
    PROVE  RemoveAt(q, k) \in Seq(Nat)
  <1>1. k \in 1..Len(q) /\ Len(q) \in Nat
    OBVIOUS
  <1>2. SubSeq(q, 1, k - 1) \in Seq(Nat)
    BY <1>1, SubSeqProperties
  <1>3. SubSeq(q, k + 1, Len(q)) \in Seq(Nat)
    BY <1>1, SubSeqProperties
  <1> QED BY <1>2, <1>3, ConcatProperties DEF RemoveAt

(* A set of positions that is not empty has a first one.                   *)
LEMMA FirstExists ==
    ASSUME NEW T, T \subseteq Nat, T # {}
    PROVE  \E k \in T : \A j \in T : k <= j
  <1> DEFINE R == OpToRel(<, Nat)
  <1>1. IsWellFoundedOn(R, Nat)
    BY NatLessThanWellFounded
  <1>2. \A x, y \in Nat : x < y => <<x, y>> \in R
    BY DEF OpToRel
  <1> HIDE DEF R
  <1>3. PICK k \in T : \A j \in T : ~(<<j, k>> \in R)
    BY <1>1, WFMin
  <1>4. ASSUME NEW j \in T PROVE k <= j
    <2>1. k \in Nat /\ j \in Nat
      OBVIOUS
    <2>2. ~(j < k)
      BY <1>2, <1>3, <2>1
    <2> QED BY <2>1, <2>2
  <1> QED BY <1>4

(* Delivery keeps a mailbox a mailbox; the oldest victim exists.           *)
LEMMA DeliveredType ==
    ASSUME NEW b \in Boxes, NEW events, NEW i \in Nat
    PROVE  Delivered(b, events, i) \in Boxes
  <1> DEFINE victims == Evictable(b, events)
             oldest  == CHOOSE k \in victims : \A j \in victims : k <= j
  <1>1. b.queue \in Seq(Nat) /\ b.dropped \in Nat
    BY DEF Boxes
  <1>2. victims \subseteq DOMAIN b.queue
    BY DEF Evictable
  <1>3. CASE b.state # "open"
    BY <1>3 DEF Delivered
  <1>4. CASE b.state = "open" /\ victims = {}
    <2>1. Delivered(b, events, i) = [b EXCEPT !.queue = Append(@, i), !.wake = TRUE]
      BY <1>4 DEF Delivered
    <2>2. Append(b.queue, i) \in Seq(Nat)
      BY <1>1
    <2> QED BY <2>1, <2>2 DEF Boxes
  <1>5. CASE b.state = "open" /\ victims # {}
    <2>1. \E k \in victims : \A j \in victims : k <= j
      <3>1. victims \subseteq Nat
        BY <1>1, <1>2
      <3> HIDE DEF victims
      <3> QED BY <1>5, <3>1, FirstExists
    <2>2. oldest \in DOMAIN b.queue
      BY <1>2, <2>1
    <2> DEFINE q == Append(RemoveAt(b.queue, oldest), i)
               d == b.dropped + 1
    <2>3. q \in Seq(Nat)
      <3> HIDE DEF oldest
      <3>1. RemoveAt(b.queue, oldest) \in Seq(Nat)
        BY <1>1, <2>2, RemoveAtType
      <3> QED BY <3>1
    <2>4. Delivered(b, events, i) = [b EXCEPT !.queue = q, !.wake = TRUE, !.dropped = d]
      BY <1>5 DEF Delivered
    <2>5. d \in Nat
      BY <1>1
    <2> HIDE DEF q, d
    <2> QED BY <2>3, <2>4, <2>5 DEF Boxes
  <1> QED BY <1>3, <1>4, <1>5

LEMMA ClosedBoxType ==
    ASSUME NEW b \in Boxes
    PROVE  ClosedBox(b) \in Boxes
  BY DEF ClosedBox, Boxes

LEMMA PublishedBoxType ==
    ASSUME NEW h, NEW b \in Boxes, NEW events, NEW i \in Nat
    PROVE  PublishedBox(h, b, events, i) \in Boxes
  BY DeliveredType, ClosedBoxType DEF PublishedBox

LEMMA BoxSteps ==
    ASSUME SessionTypeOK, box \in [Mailboxes -> Boxes], [Next]_vars
    PROVE  box' \in [Mailboxes -> Boxes]
  <1>1. ASSUME NEW s \in Sessions, NEW e \in Event, RecordEvent(s, e)
        PROVE  box' \in [Mailboxes -> Boxes]
    <2>1. SequenceOf(s, e) \in Nat
      BY RecordedSession
    <2>2. box' = [m \in Mailboxes |->
                    PublishedBox(head, box[m], Recorded(s, e).events, SequenceOf(s, e))]
      BY <1>1 DEF RecordEvent
    <2> QED BY <2>1, <2>2, PublishedBoxType
  <1>2. /\ session \in Sessions /\ StartedSession \in Sessions
        /\ Commanded(session, "cancel") \in Sessions
    BY DEF SessionTypeOK, Sessions, StartedSession, Commanded, CommandKinds
  <1>3. ASSUME NEW e \in Executors,
               ActivateExecutor(e) \/ Cancel(e) \/ \E event \in Event : EmitEvent(e, event)
        PROVE  box' \in [Mailboxes -> Boxes]
    <2>1. Fact("submitted") \in Event /\ Fact("cancelled") \in Event
      BY EventsKnown DEF EventKinds, TerminalKinds
    <2> QED BY <1>1, <1>2, <1>3, <2>1 DEF ActivateExecutor, Cancel, EmitEvent
  <1>4. ASSUME NEW e \in Executors, NEW a \in Artifacts, Complete(e, a)
        PROVE  box' \in [Mailboxes -> Boxes]
    <2> DEFINE s1 == Recorded(session, Artifact(a))
               i1 == SequenceOf(session, Artifact(a))
               s2 == Recorded(s1, Fact("completed"))
               i2 == SequenceOf(s1, Fact("completed"))
               h1 == PublishedHead(head, s1.events, i1)
               b1(m) == PublishedBox(head, box[m], s1.events, i1)
    <2>1. Artifact(a) \in Event /\ Fact("completed") \in Event
      BY EventsKnown DEF EventKinds, TerminalKinds
    <2>2. box' = [m \in Mailboxes |-> PublishedBox(h1, b1(m), s2.events, i2)]
      BY <1>4 DEF Complete
    <2>3. s1 \in Sessions /\ i1 \in Nat
      BY <1>2, <2>1, RecordedSession
    <2> HIDE DEF s1, i1
    <2>4. i2 \in Nat
      BY <2>1, <2>3, RecordedSession
    <2> HIDE DEF s2, i2, h1
    <2>5. \A m \in Mailboxes : b1(m) \in Boxes
      BY <2>3, PublishedBoxType
    <2> HIDE DEF b1
    <2>6. \A m \in Mailboxes : PublishedBox(h1, b1(m), s2.events, i2) \in Boxes
      BY <2>4, <2>5, PublishedBoxType
    <2> QED BY <2>2, <2>6
  <1>5. ASSUME NEW m \in Mailboxes, SubscribeMailbox(m)
        PROVE  box' \in [Mailboxes -> Boxes]
    <2>1. Len(session.events) \in Nat
      BY <1>2 DEF Sessions
    <2>2. NewBox(Len(session.events), IF head.closed THEN "closed" ELSE "open") \in Boxes
      BY <2>1 DEF NewBox, Boxes
    <2> QED BY <1>5, <2>2 DEF SubscribeMailbox
  <1>6. ASSUME NEW m \in Mailboxes, UnsubscribeMailbox(m)
        PROVE  box' \in [Mailboxes -> Boxes]
    BY <1>6, ClosedBoxType DEF UnsubscribeMailbox
  <1>7. ASSUME NEW m \in Mailboxes, Receive(m)
        PROVE  box' \in [Mailboxes -> Boxes]
    <2> DEFINE b == box[m]
               taken   == [b EXCEPT !.wake = FALSE, !.queue = Tail(@), !.reader = "reading",
                                    !.received = Append(@, Head(b.queue))]
               waiting == [b EXCEPT !.wake = FALSE,
                                    !.reader = IF b.state = "closed" THEN "done" ELSE "asleep"]
    <2>1. b \in Boxes /\ b.queue \in Seq(Nat) /\ b.received \in Seq(Nat)
      BY DEF Boxes
    <2>2. box' = [box EXCEPT ![m] = IF b.queue # << >> THEN taken ELSE waiting]
      BY <1>7 DEF Receive
    <2>3. waiting \in Boxes
      BY <2>1 DEF Boxes
    <2>4. CASE b.queue # << >>
      <3>1. Tail(b.queue) \in Seq(Nat) /\ Head(b.queue) \in Nat
        BY <2>1, <2>4
      <3>2. Append(b.received, Head(b.queue)) \in Seq(Nat)
        BY <2>1, <3>1
      <3>3. taken \in Boxes
        BY <2>1, <3>1, <3>2 DEF Boxes
      <3> QED BY <2>2, <2>4, <3>3
    <2>5. CASE b.queue = << >>
      BY <2>2, <2>3, <2>5
    <2> QED BY <2>4, <2>5
  <1>8. CASE CloseHead
    BY <1>8, ClosedBoxType DEF CloseHead
  <1>9. ASSUME \/ AttachHead \/ Start \/ UNCHANGED vars
               \/ \E e \in Executors : \/ BindStopCallback(e) \/ BindInputCallback(e) \/ BindExecutor(e)
                                     \/ ActivateMismatched(e) \/ CancelMismatched(e)
                                     \/ ProvideInput(e) \/ ReleaseExecutor(e)
        PROVE  UNCHANGED box
    BY <1>9 DEF vars, AttachHead, Start, BindStopCallback, BindInputCallback, BindExecutor,
                ActivateMismatched, CancelMismatched, ProvideInput, ReleaseExecutor
  <1> QED BY <1>3, <1>4, <1>5, <1>6, <1>7, <1>8, <1>9 DEF Next, ExecutorStep, SubscriberStep

(* Every variable of the Core Head keeps its type.                         *)
THEOREM TypeCorrect == Spec => []TypeOK
  <1>1. Init => box \in [Mailboxes -> Boxes]
    BY DEF Init, NewBox, Boxes
  <1>2. PublishedInv /\ box \in [Mailboxes -> Boxes] /\ [Next]_vars
          => (box \in [Mailboxes -> Boxes])'
    BY BoxSteps DEF PublishedInv
  <1>3. PublishedInv /\ LifecycleInv /\ box \in [Mailboxes -> Boxes] => TypeOK
    BY DEF PublishedInv, PublishedOK, SessionTypeOK, LifecycleInv, Lifecycles, Heads, Boxes, TypeOK
  <1> QED BY <1>1, <1>2, <1>3, PublishedInvariant, LifecycleInvariant, PTL DEF Spec

-----------------------------------------------------------------------------
(* What a mailbox holds of the journal.  The subscriber's own sequence is  *)
(* kept in two parts, so that receiving moves the boundary and nothing     *)
(* else; the events a full mailbox evicted are the ones missing.           *)

Held(b) == ToSet(b.received) \cup ToSet(b.queue)

Missed(b, h) == {i \in h.published : i > b.from} \ Held(b)

Ordered(b) ==
    /\ Increasing(b.received) /\ Increasing(b.queue)
    /\ \A i \in DOMAIN b.received, j \in DOMAIN b.queue : b.received[i] < b.queue[j]

(* At most one progress is queued beyond the bound.                        *)
Pressed(q, events) ==
    Len(q) > MaxSize =>
        \A k, l \in DOMAIN q :
            events[q[k]].kind = "progress" /\ events[q[l]].kind = "progress" => k = l

MailboxOK(b, h, events) ==
    /\ b \in Boxes /\ Ordered(b)
    /\ b.from <= Len(events)
    /\ Held(b) \subseteq h.published \ 1..b.from
    /\ Pressed(b.queue, events)
    /\ b.state = "open" =>
         /\ h.attached /\ ~h.closed
         /\ \A i \in Missed(b, h) : events[i].kind = "progress"
         /\ Cardinality(Missed(b, h)) = b.dropped

HeadOK(h, events) == PublishedOK(h, events) /\ h.published \subseteq DOMAIN events

MailboxInv ==
    /\ SessionTypeOK /\ HeadOK(head, session.events)
    /\ DOMAIN box = Mailboxes /\ \A m \in Mailboxes : MailboxOK(box[m], head, session.events)

(* What RemoveAt leaves, index by index.                                   *)
LEMMA RemoveAtIndices ==
    ASSUME NEW q \in Seq(Nat), NEW k \in DOMAIN q
    PROVE  /\ RemoveAt(q, k) \in Seq(Nat) /\ Len(RemoveAt(q, k)) = Len(q) - 1
           /\ \A j \in 1..(Len(q) - 1) :
                 RemoveAt(q, k)[j] = IF j < k THEN q[j] ELSE q[j + 1]
  <1> DEFINE n     == Len(q)
             left  == SubSeq(q, 1, k - 1)
             right == SubSeq(q, k + 1, n)
             r     == RemoveAt(q, k)
  <1>1. n \in Nat /\ k \in 1..n /\ \A j \in 1..n : q[j] \in Nat
    OBVIOUS
  <1>2. r = left \o right
    BY DEF RemoveAt
  <1> HIDE DEF n
  <1>3. left \in Seq(Nat) /\ Len(left) = k - 1 /\ \A j \in 1..(k - 1) : left[j] = q[j]
    <2>1. 1 \in Int /\ k - 1 \in Int /\ \A j \in 1..(k - 1) : q[j] \in Nat
      BY <1>1
    <2>2. /\ SubSeq(q, 1, k - 1) \in Seq(Nat)
          /\ Len(SubSeq(q, 1, k - 1)) = IF 1 <= k - 1 THEN (k - 1) - 1 + 1 ELSE 0
          /\ \A j \in 1..((k - 1) - 1 + 1) : SubSeq(q, 1, k - 1)[j] = q[1 + j - 1]
      BY <2>1, SubSeqProperties
    <2> QED BY <1>1, <2>2
  <1>4. right \in Seq(Nat) /\ Len(right) = n - k /\ \A j \in 1..(n - k) : right[j] = q[k + j]
    <2>1. k + 1 \in Int /\ n \in Int /\ \A j \in (k + 1)..n : q[j] \in Nat
      BY <1>1
    <2>2. /\ right \in Seq(Nat)
          /\ Len(right) = IF k + 1 <= n THEN n - (k + 1) + 1 ELSE 0
          /\ \A j \in 1..(n - (k + 1) + 1) : right[j] = q[(k + 1) + j - 1]
      BY <2>1, SubSeqProperties
    <2> HIDE DEF right
    <2>3. \A j \in 1..(n - k) : j \in 1..(n - (k + 1) + 1) /\ (k + 1) + j - 1 = k + j
      BY <1>1
    <2>4. \A j \in 1..(n - k) : right[j] = q[k + j]
      BY <2>2, <2>3
    <2> QED BY <1>1, <2>2, <2>4
  <1> HIDE DEF left, right
  <1>5. /\ left \o right \in Seq(Nat) /\ Len(left \o right) = Len(left) + Len(right)
        /\ \A j \in 1..(Len(left) + Len(right)) :
              (left \o right)[j] = IF j <= Len(left) THEN left[j] ELSE right[j - Len(left)]
    BY <1>3, <1>4, ConcatProperties
  <1>6. Len(left) + Len(right) = n - 1
    BY <1>1, <1>3, <1>4
  <1> HIDE DEF r
  <1>7. ASSUME NEW j \in 1..(n - 1)
        PROVE  r[j] = IF j < k THEN q[j] ELSE q[j + 1]
    <2>1. r[j] = IF j <= k - 1 THEN left[j] ELSE right[j - (k - 1)]
      BY <1>2, <1>3, <1>5, <1>6
    <2>2. CASE j < k
      <3>1. j <= k - 1 /\ j \in 1..(k - 1)
        BY <1>1, <2>2
      <3> QED BY <1>3, <2>1, <2>2, <3>1
    <2>3. CASE ~(j < k)
      <3>1. ~(j <= k - 1) /\ j - (k - 1) \in 1..(n - k) /\ k + (j - (k - 1)) = j + 1
        BY <1>1, <2>3
      <3> QED BY <1>4, <2>1, <2>3, <3>1
    <2> QED BY <1>1, <2>2, <2>3
  <1>8. r \in Seq(Nat) /\ Len(r) = n - 1
    BY <1>2, <1>5, <1>6
  <1> QED BY <1>7, <1>8 DEF n, r

(* Appending a later event, after evicting at most one: order is kept.     *)
LEMMA IncreasingAppend ==
    ASSUME NEW q \in Seq(Nat), Increasing(q), NEW i \in Nat, \A k \in DOMAIN q : q[k] < i
    PROVE  Increasing(Append(q, i))
  <1>1. \A k \in 1..Len(q) : Append(q, i)[k] = q[k]
    OBVIOUS
  <1> QED BY <1>1 DEF Increasing

LEMMA IncreasingRemoveAt ==
    ASSUME NEW q \in Seq(Nat), Increasing(q), NEW k \in DOMAIN q
    PROVE  /\ Increasing(RemoveAt(q, k))
           /\ ToSet(RemoveAt(q, k)) = ToSet(q) \ {q[k]}
  <1> DEFINE r == RemoveAt(q, k)
  <1>1. /\ r \in Seq(Nat) /\ Len(r) = Len(q) - 1
        /\ \A j \in 1..(Len(q) - 1) : r[j] = IF j < k THEN q[j] ELSE q[j + 1]
    BY RemoveAtIndices
  <1> DEFINE n == Len(q)
  <1>2. k \in 1..n /\ n \in Nat /\ DOMAIN q = 1..n /\ \A j \in 1..n : q[j] \in Nat
    OBVIOUS
  <1> HIDE DEF r
  <1>3. DOMAIN r = 1..(n - 1) /\ \A j \in 1..(n - 1) : r[j] = IF j < k THEN q[j] ELSE q[j + 1]
    BY <1>1
  <1>8. \A i, j \in 1..n : i < j => q[i] < q[j]
    BY DEF Increasing
  <1> HIDE DEF n
  <1>4. Increasing(r)
    <2> SUFFICES ASSUME NEW i \in 1..(n - 1), NEW j \in 1..(n - 1), i < j
                 PROVE  r[i] < r[j]
      BY <1>3 DEF Increasing
    <2>1. i \in 1..n /\ j \in 1..n /\ i + 1 \in 1..n /\ j + 1 \in 1..n
      BY <1>2
    <2>2. /\ r[i] = IF i < k THEN q[i] ELSE q[i + 1]
          /\ r[j] = IF j < k THEN q[j] ELSE q[j + 1]
      BY <1>3
    <2>3. i < j + 1 /\ i + 1 < j + 1 /\ (j < k => i < k)
      BY <1>2, <2>1
    <2> QED BY <1>8, <2>1, <2>2, <2>3
  <1>5. ASSUME NEW j \in DOMAIN r PROVE r[j] \in ToSet(q) \ {q[k]}
    <2>1. j \in 1..n /\ j + 1 \in 1..n /\ (j < k => j # k) /\ (~(j < k) => j + 1 # k)
      BY <1>2, <1>3
    <2>2. PICK l \in 1..n : r[j] = q[l] /\ l # k
      BY <1>3, <2>1
    <2>3. q[l] < q[k] \/ q[k] < q[l]
      BY <1>2, <1>8, <2>2
    <2>4. q[l] # q[k]
      BY <1>2, <2>2, <2>3
    <2> QED BY <1>2, <2>2, <2>4 DEF ToSet
  <1>6. ASSUME NEW l \in DOMAIN q, q[l] # q[k] PROVE q[l] \in ToSet(r)
    <2>1. CASE l < k
      <3>1. l \in DOMAIN r /\ r[l] = q[l]
        BY <1>1, <1>2, <1>3, <2>1
      <3> QED BY <3>1 DEF ToSet
    <2>2. CASE l > k
      <3>1. l - 1 \in 1..(n - 1) /\ ~(l - 1 < k) /\ (l - 1) + 1 = l
        BY <1>2, <2>2
      <3>2. l - 1 \in DOMAIN r /\ r[l - 1] = q[l]
        BY <1>3, <3>1
      <3> QED BY <3>2 DEF ToSet
    <2> QED BY <1>2, <1>6, <2>1, <2>2
  <1>7. ToSet(r) = ToSet(q) \ {q[k]}
    BY <1>5, <1>6 DEF ToSet
  <1> QED BY <1>4, <1>7 DEF r

LEMMA ToSetAppend ==
    ASSUME NEW q \in Seq(Nat), NEW i \in Nat
    PROVE  ToSet(Append(q, i)) = ToSet(q) \cup {i}
  <1>1. /\ DOMAIN Append(q, i) = DOMAIN q \cup {Len(q) + 1} /\ Append(q, i)[Len(q) + 1] = i
        /\ \A k \in DOMAIN q : Append(q, i)[k] = q[k]
    OBVIOUS
  <1> QED BY <1>1 DEF ToSet

(* What publishing to an open mailbox does: the new event is behind all    *)
(* the others, and at most one progress gives way to it.                   *)
Queues(b, c, i, events) ==
    /\ c \in Boxes /\ Ordered(c)
    /\ c.state = b.state /\ c.from = b.from /\ c.received = b.received
    /\ c.queue # << >> /\ c.queue[Len(c.queue)] = i
    /\ \/ Held(c) = Held(b) \cup {i} /\ c.dropped = b.dropped
       \/ \E x \in Held(b) : /\ events[x].kind = "progress"
                             /\ Held(c) = (Held(b) \ {x}) \cup {i}
                             /\ c.dropped = b.dropped + 1

LEMMA OrderedAppend ==
    ASSUME NEW b \in Boxes, NEW c \in Boxes, NEW q \in Seq(Nat), NEW i \in Nat,
           Increasing(b.received), Increasing(q), c.received = b.received, c.queue = Append(q, i),
           \A x \in ToSet(b.received), y \in ToSet(q) : x < y,
           \A x \in ToSet(b.received) \cup ToSet(q) : x < i
    PROVE  Ordered(c) /\ c.queue # << >> /\ c.queue[Len(c.queue)] = i
  <1>1. \A k \in DOMAIN q : q[k] \in ToSet(q)
    BY DEF ToSet
  <1>2. \A k \in DOMAIN b.received : b.received[k] \in ToSet(b.received)
    BY DEF ToSet
  <1>3. Increasing(Append(q, i))
    BY <1>1, IncreasingAppend
  <1>4. /\ Append(q, i) # << >> /\ Len(Append(q, i)) = Len(q) + 1 /\ Append(q, i)[Len(q) + 1] = i
        /\ DOMAIN Append(q, i) = DOMAIN q \cup {Len(q) + 1}
        /\ \A k \in DOMAIN q : Append(q, i)[k] = q[k]
    <2>1. DOMAIN q = 1..Len(q) /\ Len(q) \in Nat
      OBVIOUS
    <2>2. /\ Append(q, i) \in Seq(Nat) /\ Append(q, i) # << >> /\ Len(Append(q, i)) = Len(q) + 1
          /\ Append(q, i)[Len(q) + 1] = i /\ \A k \in 1..Len(q) : Append(q, i)[k] = q[k]
      BY AppendProperties
    <2>3. DOMAIN Append(q, i) = 1..(Len(q) + 1)
      BY <2>2
    <2> QED BY <2>1, <2>2, <2>3
  <1>5. \A j \in DOMAIN Append(q, i), k \in DOMAIN b.received : b.received[k] < Append(q, i)[j]
    BY <1>1, <1>2, <1>4
  <1> QED BY <1>3, <1>4, <1>5 DEF Ordered

LEMMA DeliveredQueues ==
    ASSUME NEW b \in Boxes, Ordered(b), b.state = "open", NEW i \in Nat, NEW events,
           \A x \in Held(b) : x < i
    PROVE  Queues(b, Delivered(b, events, i), i, events)
  <1> DEFINE victims == Evictable(b, events)
             oldest  == CHOOSE k \in victims : \A j \in victims : k <= j
             c       == Delivered(b, events, i)
  <1>1. /\ b.queue \in Seq(Nat) /\ b.received \in Seq(Nat) /\ b.dropped \in Nat
        /\ Increasing(b.received) /\ Increasing(b.queue)
    BY DEF Boxes, Ordered
  <1>2. \A x \in ToSet(b.received), y \in ToSet(b.queue) : x < y
    BY DEF Ordered, ToSet
  <1>3. c \in Boxes
    BY DeliveredType
  <1>4. CASE victims = {}
    <2>1. c = [b EXCEPT !.queue = Append(@, i), !.wake = TRUE]
      BY <1>4 DEF Delivered
    <2>2. /\ c.queue = Append(b.queue, i) /\ c.received = b.received /\ c.state = b.state
          /\ c.from = b.from /\ c.dropped = b.dropped
      BY <2>1 DEF Boxes
    <2> HIDE DEF c, victims
    <2>3. Ordered(c) /\ c.queue # << >> /\ c.queue[Len(c.queue)] = i
      BY <1>1, <1>2, <1>3, <2>2, OrderedAppend DEF Held
    <2>4. Held(c) = Held(b) \cup {i}
      BY <1>1, <2>2, ToSetAppend DEF Held
    <2> QED BY <1>3, <2>2, <2>3, <2>4 DEF Queues, c
  <1>5. CASE victims # {}
    <2>1. oldest \in DOMAIN b.queue /\ events[b.queue[oldest]].kind = "progress"
      <3>1. victims \subseteq Nat
        BY <1>1 DEF Evictable
      <3>2. \E k \in victims : \A j \in victims : k <= j
        <4> HIDE DEF victims
        <4> QED BY <1>5, <3>1, FirstExists
      <3>3. oldest \in victims
        <4> HIDE DEF victims
        <4> QED BY <3>2
      <3> HIDE DEF oldest
      <3> QED BY <3>3 DEF Evictable
    <2> DEFINE q == RemoveAt(b.queue, oldest)
               d == b.dropped + 1
    <2>2. c = [b EXCEPT !.queue = Append(q, i), !.wake = TRUE, !.dropped = d]
      BY <1>5 DEF Delivered
    <2> HIDE DEF oldest
    <2>3. /\ q \in Seq(Nat) /\ Increasing(q) /\ ToSet(q) = ToSet(b.queue) \ {b.queue[oldest]}
      BY <1>1, <2>1, RemoveAtIndices, IncreasingRemoveAt
    <2> HIDE DEF q, d
    <2>4. /\ c.queue = Append(q, i) /\ c.received = b.received /\ c.state = b.state
          /\ c.from = b.from /\ c.dropped = d
      BY <2>2 DEF Boxes
    <2> HIDE DEF c, victims
    <2>5. Ordered(c) /\ c.queue # << >> /\ c.queue[Len(c.queue)] = i
      BY <1>1, <1>2, <1>3, <2>3, <2>4, OrderedAppend DEF Held
    <2> DEFINE x == b.queue[oldest]
    <2>6. x \in ToSet(b.queue) /\ x \notin ToSet(b.received)
      <3>1. x \in ToSet(b.queue) /\ x \in Nat
        BY <1>1, <2>1 DEF ToSet
      <3> QED BY <1>2, <3>1
    <2>7. Held(c) = (Held(b) \ {x}) \cup {i}
      <3>1. ToSet(c.queue) = ToSet(q) \cup {i}
        BY <2>3, <2>4, ToSetAppend
      <3> QED BY <2>3, <2>4, <2>6, <3>1 DEF Held
    <2>8. x \in Held(b) /\ events[x].kind = "progress" /\ c.dropped = b.dropped + 1
      BY <2>1, <2>4, <2>6 DEF Held, d
    <2> HIDE DEF x
    <2> QED BY <1>3, <2>4, <2>5, <2>7, <2>8 DEF Queues, c
  <1> QED BY <1>4, <1>5

(* The bound: an evicted progress makes room, and where there is none      *)
(* only facts are beyond the bound.                                        *)
LEMMA DeliveredPressed ==
    ASSUME NEW b \in Boxes, NEW i \in Nat, NEW events, Pressed(b.queue, events)
    PROVE  Pressed(Delivered(b, events, i).queue, events)
  <1> DEFINE victims == Evictable(b, events)
             oldest  == CHOOSE k \in victims : \A j \in victims : k <= j
             c       == Delivered(b, events, i)
             p(x)    == events[x].kind = "progress"
             n       == Len(b.queue)
  <1>1. b.queue \in Seq(Nat) /\ n \in Nat /\ DOMAIN b.queue = 1..n /\ MaxSize \in Nat
    BY MaxSizeAssumption DEF Boxes
  <1>2. CASE b.state # "open"
    BY <1>2 DEF Delivered
  <1>3. CASE b.state = "open" /\ victims = {}
    <2>1. c = [b EXCEPT !.queue = Append(@, i), !.wake = TRUE]
      BY <1>3 DEF Delivered
    <2>2. c.queue = Append(b.queue, i)
      BY <2>1 DEF Boxes
    <2>3. n < MaxSize \/ \A k \in 1..n : ~p(b.queue[k])
      BY <1>1, <1>3 DEF Evictable
    <2> HIDE DEF c, n
    <2>4. /\ Len(c.queue) = n + 1 /\ DOMAIN c.queue = 1..(n + 1)
          /\ \A k \in 1..n : c.queue[k] = b.queue[k]
      BY <1>1, <2>2, AppendProperties DEF n
    <2>5. CASE n < MaxSize
      BY <1>1, <2>4, <2>5 DEF Pressed, c
    <2>6. CASE \A k \in 1..n : ~p(b.queue[k])
      <3>1. \A k \in DOMAIN c.queue : p(c.queue[k]) => k = n + 1
        BY <1>1, <2>4, <2>6
      <3> HIDE DEF p
      <3>2. \A k, l \in DOMAIN c.queue : p(c.queue[k]) /\ p(c.queue[l]) => k = l
        BY <3>1
      <3> QED BY <3>2 DEF Pressed, c, p
    <2> QED BY <2>3, <2>5, <2>6
  <1>4. CASE b.state = "open" /\ victims # {}
    <2>1. oldest \in 1..n /\ p(b.queue[oldest])
      <3>1. victims \subseteq Nat
        BY <1>1 DEF Evictable
      <3>2. \E k \in victims : \A j \in victims : k <= j
        <4> HIDE DEF victims
        <4> QED BY <1>4, <3>1, FirstExists
      <3>3. oldest \in victims
        <4> HIDE DEF victims
        <4> QED BY <3>2
      <3> HIDE DEF oldest
      <3> QED BY <1>1, <3>3 DEF Evictable
    <2> DEFINE q == RemoveAt(b.queue, oldest)
    <2>2. c = [b EXCEPT !.queue = Append(q, i), !.wake = TRUE, !.dropped = @ + 1]
      BY <1>4 DEF Delivered
    <2> HIDE DEF oldest, c, n
    <2>3. /\ q \in Seq(Nat) /\ Len(q) = n - 1
          /\ \A j \in 1..(n - 1) : q[j] = IF j < oldest THEN b.queue[j] ELSE b.queue[j + 1]
      BY <1>1, <2>1, RemoveAtIndices DEF n
    <2> HIDE DEF q
    <2>4. c.queue = Append(q, i)
      BY <2>2 DEF Boxes
    <2>5. /\ Len(c.queue) = n /\ DOMAIN c.queue = 1..n
          /\ \A k \in 1..(n - 1) : c.queue[k] = q[k]
      BY <1>1, <2>1, <2>3, <2>4, AppendProperties
    <2>6. CASE n <= MaxSize
      BY <1>1, <2>5, <2>6 DEF Pressed, c
    <2>7. CASE n > MaxSize
      <3>1. \A k \in 1..n : p(b.queue[k]) => k = oldest
        BY <1>1, <2>1, <2>7 DEF Pressed, n
      <3>2. ASSUME NEW k \in 1..(n - 1) PROVE ~p(q[k])
        <4>1. CASE k < oldest
          <5>1. k \in 1..n /\ k # oldest
            BY <1>1, <2>1, <4>1
          <5> HIDE DEF p
          <5> QED BY <2>3, <3>1, <4>1, <5>1
        <4>2. CASE ~(k < oldest)
          <5>1. k + 1 \in 1..n /\ k + 1 # oldest
            BY <1>1, <2>1, <4>2
          <5> HIDE DEF p
          <5> QED BY <2>3, <3>1, <4>2, <5>1
        <4> QED BY <4>1, <4>2
      <3>3. \A k \in DOMAIN c.queue : p(c.queue[k]) => k = n
        <4> HIDE DEF p
        <4> QED BY <1>1, <2>5, <3>2
      <3> HIDE DEF p
      <3>4. \A k, l \in DOMAIN c.queue : p(c.queue[k]) /\ p(c.queue[l]) => k = l
        BY <3>3
      <3> QED BY <3>4 DEF Pressed, c, p
    <2> QED BY <1>1, <2>6, <2>7 DEF n
  <1> QED BY <1>2, <1>3, <1>4

(* What is pressed stays so when the journal grows behind it.              *)
LEMMA PressedLater ==
    ASSUME NEW q \in Seq(Nat), NEW events, NEW later, Pressed(q, events),
           \A k \in DOMAIN q : later[q[k]] = events[q[k]]
    PROVE  Pressed(q, later)
  BY DEF Pressed

LEMMA JournalFinite ==
    ASSUME NEW n \in Nat, NEW T, T \subseteq 1..n
    PROVE  IsFiniteSet(T) /\ Cardinality(T) \in Nat
  <1>1. 1 \in Int /\ n \in Int
    OBVIOUS
  <1>2. IsFiniteSet(1..n)
    BY <1>1, FS_Interval
  <1>3. IsFiniteSet(T)
    BY <1>2, FS_Subset
  <1> QED BY <1>3, FS_CardinalityType

(* Publishing the next event of the journal to one mailbox.                *)
LEMMA MailboxPublished ==
    ASSUME NEW b, NEW h, NEW events \in Seq(Event), NEW e \in Event, HeadOK(h, events),
           MailboxOK(b, h, events), Publishes(h, Len(events) + 1)
    PROVE  LET i     == Len(events) + 1
               later == Append(events, e)
           IN  MailboxOK(PublishedBox(h, b, later, i), PublishedHead(h, later, i), later)
  <1> DEFINE i     == Len(events) + 1
             later == Append(events, e)
             g     == PublishedHead(h, later, i)
             c     == Delivered(b, later, i)
             end   == IsTerminal(later[i].kind)
  <1>1. /\ Len(events) \in Nat /\ i \in Nat /\ Len(later) = Len(events) + 1
        /\ DOMAIN events = 1..Len(events)
        /\ \A k \in 1..Len(events) : later[k] = events[k]
    BY AppendProperties
  <1>2. /\ h \in Heads /\ h.published = 1..Len(events) /\ h.attached /\ ~h.closed
    BY <1>1 DEF HeadOK, PublishedOK, Publishes
  <1>3. g = [h EXCEPT !.published = @ \cup {i}, !.closed = end]
    BY DEF PublishedHead
  <1> HIDE DEF later, end
  <1>4. g.published = 1..Len(events) \cup {i} /\ g.attached /\ g.closed = end
    <2> HIDE DEF g, i
    <2> QED BY <1>2, <1>3 DEF Heads
  <1> HIDE DEF g
  <1>5. /\ b \in Boxes /\ Ordered(b) /\ b.from \in Nat /\ b.from <= Len(events)
        /\ Held(b) \subseteq 1..Len(events) /\ Held(b) \subseteq h.published \ 1..b.from
        /\ b.queue \in Seq(Nat) /\ b.dropped \in Nat
    BY <1>2 DEF MailboxOK, Boxes
  <1>6. Pressed(c.queue, later)
    <2>1. \A k \in DOMAIN b.queue : b.queue[k] \in Held(b)
      BY DEF Held, ToSet
    <2>2. \A k \in DOMAIN b.queue : later[b.queue[k]] = events[b.queue[k]]
      BY <1>1, <1>5, <2>1
    <2>3. Pressed(b.queue, later)
      BY <1>5, <2>2, PressedLater DEF MailboxOK
    <2> QED BY <1>1, <1>5, <2>3, DeliveredPressed
  <1>7. CASE b.state # "open"
    <2>1. PublishedBox(h, b, later, i) = b
      BY <1>7 DEF PublishedBox, ClosedBox, Delivered
    <2>2. Pressed(b.queue, later)
      BY <1>6, <1>7 DEF Delivered
    <2> QED BY <1>1, <1>2, <1>4, <1>5, <1>7, <2>1, <2>2 DEF MailboxOK, later, g
  <1>8. CASE b.state = "open"
    <2>1. Queues(b, c, i, later)
      <3>1. \A x \in Held(b) : x < i
        BY <1>1, <1>5
      <3> QED BY <1>1, <1>5, <1>8, <3>1, DeliveredQueues
    <2> HIDE DEF c
    <2>2. /\ c \in Boxes /\ Ordered(c) /\ c.state = "open" /\ c.from = b.from
      BY <1>8, <2>1 DEF Queues
    <2>3. /\ \A x \in Missed(b, h) : events[x].kind = "progress"
          /\ Cardinality(Missed(b, h)) = b.dropped
      BY <1>8 DEF MailboxOK
    <2>4. /\ Missed(b, h) = {x \in 1..Len(events) : x > b.from} \ Held(b)
          /\ Missed(c, g) = {x \in 1..Len(events) \cup {i} : x > b.from} \ Held(c)
      BY <1>2, <1>4, <2>2 DEF Missed
    <2>5. /\ Held(c) \subseteq g.published \ 1..c.from
          /\ \A x \in Missed(c, g) : later[x].kind = "progress"
          /\ Cardinality(Missed(c, g)) = c.dropped
      <3>1. CASE Held(c) = Held(b) \cup {i} /\ c.dropped = b.dropped
        <4>1. Missed(c, g) = Missed(b, h)
          BY <1>1, <1>5, <2>4, <3>1
        <4>2. Held(c) \subseteq g.published \ 1..c.from
          BY <1>1, <1>2, <1>4, <1>5, <2>2, <3>1
        <4>3. \A x \in Missed(b, h) : x \in 1..Len(events)
          BY <2>4
        <4> QED BY <1>1, <2>3, <3>1, <4>1, <4>2, <4>3
      <3>2. CASE \E x \in Held(b) : /\ later[x].kind = "progress"
                                    /\ Held(c) = (Held(b) \ {x}) \cup {i}
                                    /\ c.dropped = b.dropped + 1
        <4>1. PICK x \in Held(b) : /\ later[x].kind = "progress"
                                   /\ Held(c) = (Held(b) \ {x}) \cup {i}
                                   /\ c.dropped = b.dropped + 1
          BY <3>2
        <4>2. x \in 1..Len(events) /\ x > b.from /\ x # i
          BY <1>1, <1>5
        <4>3. Missed(c, g) = Missed(b, h) \cup {x} /\ x \notin Missed(b, h)
          BY <1>1, <1>5, <2>4, <4>1, <4>2
        <4>4. Held(c) \subseteq g.published \ 1..c.from
          BY <1>1, <1>2, <1>4, <1>5, <2>2, <4>1
        <4>5. \A y \in Missed(b, h) : y \in 1..Len(events)
          BY <2>4
        <4>6. IsFiniteSet(Missed(b, h))
          BY <1>1, <2>4, JournalFinite
        <4>7. Cardinality(Missed(b, h) \cup {x}) = Cardinality(Missed(b, h)) + 1
          BY <4>3, <4>6, FS_AddElement
        <4> QED BY <1>1, <2>3, <4>1, <4>3, <4>4, <4>5, <4>7
      <3> QED BY <2>1, <3>1, <3>2 DEF Queues
    <2>6. CASE ~end
      <3>1. PublishedBox(h, b, later, i) = c
        BY <2>6 DEF PublishedBox, c, end
      <3>2. ~g.closed
        BY <1>4, <2>6
      <3>3. MailboxOK(c, g, later)
        BY <1>1, <1>4, <1>5, <1>6, <2>2, <2>5, <3>2 DEF MailboxOK
      <3> QED BY <3>1, <3>3 DEF later, g
    <2>7. CASE end
      <3>1. PublishedBox(h, b, later, i) = ClosedBox(c)
        BY <2>7 DEF PublishedBox, c, end
      <3>2. ClosedBox(c) = [c EXCEPT !.state = "closed", !.wake = TRUE]
        BY <2>2 DEF ClosedBox
      <3> DEFINE d == ClosedBox(c)
      <3>3. /\ d \in Boxes /\ d.queue = c.queue /\ d.received = c.received /\ d.from = c.from
            /\ d.state = "closed"
        BY <2>2, <3>2 DEF Boxes
      <3> HIDE DEF d
      <3>4. Ordered(d) /\ Held(d) = Held(c)
        BY <2>2, <3>3 DEF Ordered, Held
      <3>5. MailboxOK(d, g, later)
        BY <1>1, <1>4, <1>5, <1>6, <2>2, <2>5, <3>3, <3>4 DEF MailboxOK
      <3> QED BY <3>1, <3>5 DEF d, later, g
    <2> QED BY <2>6, <2>7
  <1> QED BY <1>7, <1>8

(* One recorded event, new or replayed.                                    *)
LEMMA MailboxGrows ==
    ASSUME NEW s \in Sessions, NEW e \in Event, NEW h, HeadOK(h, s.events)
    PROVE  LET later == Recorded(s, e).events
               i     == SequenceOf(s, e)
               g     == PublishedHead(h, later, i)
           IN  /\ HeadOK(g, later)
               /\ \A b : MailboxOK(b, h, s.events) => MailboxOK(PublishedBox(h, b, later, i), g, later)
  <1> DEFINE later == Recorded(s, e).events
             i     == SequenceOf(s, e)
             g     == PublishedHead(h, later, i)
             c(b)  == PublishedBox(h, b, later, i)
  <1>1. PublishedOK(h, s.events) /\ h.published \subseteq DOMAIN s.events /\ h \in Heads
    BY DEF HeadOK, PublishedOK
  <1>2. PublishedOK(g, later)
    BY <1>1, PublishedGrows
  <1>3. DOMAIN later = DOMAIN s.events \cup {i}
    BY RecordedSession
  <1>4. HeadOK(g, later)
    <2> HIDE DEF later, i
    <2>1. CASE Publishes(h, i)
      <3> DEFINE end == IsTerminal(later[i].kind)
      <3>1. g = [h EXCEPT !.published = @ \cup {i}, !.closed = end]
        BY <2>1 DEF PublishedHead
      <3> HIDE DEF end, g
      <3>2. g.published = h.published \cup {i}
        BY <1>1, <3>1 DEF Heads
      <3> QED BY <1>1, <1>2, <1>3, <3>2 DEF HeadOK
    <2>2. CASE ~Publishes(h, i)
      <3>1. g = h
        BY <2>2 DEF PublishedHead
      <3> QED BY <1>1, <1>2, <1>3, <3>1 DEF HeadOK
    <2> QED BY <2>1, <2>2
  <1>5. ASSUME NEW b, MailboxOK(b, h, s.events) PROVE MailboxOK(c(b), g, later)
    <2>1. s.events \in Seq(Event) /\ DOMAIN s.events = 1..Len(s.events) /\ Len(s.events) \in Nat
      BY DEF Sessions
    <2>2. CASE Replayed(s, e) # {}
      <3>1. later = s.events /\ i \in DOMAIN s.events
        <4>1. i \in Replayed(s, e)
          BY <2>2 DEF SequenceOf
        <4> QED BY <2>2, <4>1 DEF Recorded, Replayed
      <3>2. ~Publishes(h, i)
        BY <1>1, <3>1 DEF PublishedOK, Publishes
      <3> HIDE DEF later, i
      <3>3. g = h /\ c(b) = b
        BY <3>2 DEF PublishedHead, PublishedBox
      <3> QED BY <1>5, <3>1, <3>3
    <2>3. CASE Replayed(s, e) = {}
      <3>1. later = Append(s.events, e) /\ i = Len(s.events) + 1
        BY <2>3 DEF Recorded, SequenceOf, Sessions
      <3> HIDE DEF later, i
      <3>2. CASE Publishes(h, i)
        <4>1. Publishes(h, Len(s.events) + 1)
          BY <3>1, <3>2
        <4>2. MailboxOK(PublishedBox(h, b, Append(s.events, e), Len(s.events) + 1),
                        PublishedHead(h, Append(s.events, e), Len(s.events) + 1),
                        Append(s.events, e))
          BY <1>5, <2>1, <4>1, MailboxPublished
        <4> QED BY <3>1, <4>2
      <3>3. CASE ~Publishes(h, i)
        <4>1. g = h /\ c(b) = b
          BY <3>3 DEF PublishedHead, PublishedBox
        <4>2. ~(h.attached /\ ~h.closed)
          BY <1>1, <2>1, <3>1, <3>3 DEF PublishedOK, Publishes
        <4>3. Len(later) = Len(s.events) + 1 /\ \A k \in 1..Len(s.events) : later[k] = s.events[k]
          BY <2>1, <3>1, AppendProperties
        <4>4. b \in Boxes /\ b.queue \in Seq(Nat) /\ b.from \in Nat
          BY <1>5 DEF MailboxOK, Boxes
        <4>5. \A k \in DOMAIN b.queue : later[b.queue[k]] = s.events[b.queue[k]]
          <5>1. \A k \in DOMAIN b.queue : b.queue[k] \in h.published
            BY <1>5 DEF MailboxOK, Held, ToSet
          <5> QED BY <1>1, <2>1, <4>3, <5>1
        <4>6. Pressed(b.queue, later)
          BY <1>5, <4>4, <4>5, PressedLater DEF MailboxOK
        <4>7. MailboxOK(b, h, later)
          BY <1>5, <2>1, <4>2, <4>3, <4>4, <4>6 DEF MailboxOK
        <4> QED BY <4>1, <4>7
      <3> QED BY <3>2, <3>3
    <2> QED BY <2>2, <2>3
  <1> QED BY <1>4, <1>5

(* Receiving moves the boundary between the read and the queued.           *)
LEMMA ReceivedKeeps ==
    ASSUME NEW b, NEW h, NEW events, MailboxOK(b, h, events), b.queue # << >>, NEW c,
           c = [b EXCEPT !.wake = FALSE, !.queue = Tail(@), !.reader = "reading",
                         !.received = Append(@, Head(b.queue))]
    PROVE  MailboxOK(c, h, events)
  <1> DEFINE n == Len(b.queue)
             r == Len(b.received)
             x == Head(b.queue)
             q == Tail(b.queue)
             t == Append(b.received, x)
  <1>1. b \in Boxes /\ b.queue \in Seq(Nat) /\ b.received \in Seq(Nat) /\ Ordered(b)
    BY DEF MailboxOK, Boxes
  <1>2. n \in Nat /\ n # 0 /\ r \in Nat /\ DOMAIN b.queue = 1..n /\ DOMAIN b.received = 1..r
    BY <1>1
  <1>3. x = b.queue[1] /\ x \in Nat
    BY <1>1, <1>2
  <1>4. q \in Seq(Nat) /\ Len(q) = n - 1 /\ DOMAIN q = 1..(n - 1) /\ \A k \in 1..(n - 1) : q[k] = b.queue[k + 1]
    BY <1>1, <1>2
  <1>5. /\ t \in Seq(Nat) /\ DOMAIN t = 1..(r + 1) /\ t[r + 1] = x
        /\ \A k \in 1..r : t[k] = b.received[k]
    <2>1. Len(t) = r + 1 /\ t \in Seq(Nat) /\ t[r + 1] = x /\ \A k \in 1..r : t[k] = b.received[k]
      BY <1>1, <1>3, AppendProperties
    <2> QED BY <2>1
  <1> HIDE DEF q, t, x
  <1>6. /\ c \in Boxes /\ c.queue = q /\ c.received = t /\ c.from = b.from
        /\ c.state = b.state /\ c.dropped = b.dropped
    BY <1>1, <1>4, <1>5 DEF Boxes, q, t, x
  <1> HIDE DEF n, r
  <1>7. Increasing(q)
    <2>1. \A i, j \in 1..n : i < j => b.queue[i] < b.queue[j]
      BY <1>1, <1>2 DEF Ordered, Increasing
    <2>2. \A i \in 1..(n - 1) : i + 1 \in 1..n /\ i \in Nat
      BY <1>2
    <2>3. \A i, j \in 1..(n - 1) : i < j => q[i] < q[j]
      BY <1>4, <2>1, <2>2, SMTT(20), ZenonT(30)
    <2> QED BY <1>4, <2>3 DEF Increasing
  <1>8. Increasing(t)
    <2>1. \A k \in DOMAIN b.received : b.received[k] < x
      <3>1. 1 \in DOMAIN b.queue
        BY <1>2
      <3> QED BY <1>1, <1>3, <3>1 DEF Ordered
    <2> QED BY <1>1, <1>3, <2>1, IncreasingAppend DEF Ordered, t
  <1>9. ASSUME NEW i \in DOMAIN t, NEW j \in DOMAIN q PROVE t[i] < q[j]
    <2>1. j + 1 \in 1..n /\ 1 \in 1..n /\ 1 < j + 1 /\ q[j] = b.queue[j + 1]
      BY <1>2, <1>4
    <2>2. CASE i = r + 1
      BY <1>1, <1>2, <1>3, <1>5, <2>1, <2>2 DEF Ordered, Increasing
    <2>3. CASE i # r + 1
      <3>1. i \in 1..r
        BY <1>2, <1>5, <2>3
      <3> QED BY <1>1, <1>2, <1>5, <2>1, <3>1 DEF Ordered
    <2> QED BY <2>2, <2>3
  <1>10. Ordered(c)
    BY <1>6, <1>7, <1>8, <1>9 DEF Ordered
  <1>11. Held(c) = Held(b)
    <2>1. ToSet(t) = ToSet(b.received) \cup {x}
      BY <1>1, <1>3, ToSetAppend DEF t
    <2>2. ASSUME NEW y \in ToSet(b.queue) PROVE y = x \/ y \in ToSet(q)
      <3>1. PICK k \in 1..n : y = b.queue[k]
        BY <1>2, <2>2 DEF ToSet
      <3>2. CASE k = 1
        BY <1>3, <3>1, <3>2
      <3>3. CASE k # 1
        <4>1. k - 1 \in 1..(n - 1) /\ (k - 1) + 1 = k
          BY <1>2, <3>3
        <4> QED BY <1>4, <3>1, <4>1 DEF ToSet
      <3> QED BY <3>2, <3>3
    <2>3. x \in ToSet(b.queue)
      <3>1. 1 \in DOMAIN b.queue
        BY <1>2
      <3> QED BY <1>3, <3>1 DEF ToSet
    <2>4. ASSUME NEW y \in ToSet(q) PROVE y \in ToSet(b.queue)
      <3>1. PICK k \in 1..(n - 1) : y = q[k]
        BY <1>4, <2>4 DEF ToSet
      <3>2. k + 1 \in 1..n
        BY <1>2
      <3> QED BY <1>2, <1>4, <3>1, <3>2 DEF ToSet
    <2> QED BY <1>6, <2>1, <2>2, <2>3, <2>4 DEF Held
  <1>12. Pressed(q, events)
    <2> DEFINE p(y) == events[y].kind = "progress"
    <2>1. SUFFICES ASSUME n - 1 > MaxSize, NEW k \in 1..(n - 1), NEW l \in 1..(n - 1), p(q[k]), p(q[l])
                   PROVE  k = l
      BY <1>4 DEF Pressed
    <2>2. k + 1 \in 1..n /\ l + 1 \in 1..n /\ n > MaxSize
      BY <1>2, <2>1, MaxSizeAssumption
    <2>3. p(b.queue[k + 1]) /\ p(b.queue[l + 1])
      <3> HIDE DEF p
      <3> QED BY <1>4, <2>1
    <2>4. k + 1 = l + 1
      BY <1>2, <2>2, <2>3 DEF MailboxOK, Pressed, n
    <2> QED BY <2>4
  <1> QED BY <1>6, <1>10, <1>11, <1>12 DEF MailboxOK, Missed

(* A listening mailbox and the end of the execution.                       *)
LEMMA EndQueued ==
    ASSUME NEW s \in Sessions, NEW e \in Event, NEW h, NEW b, HeadOK(h, s.events),
           MailboxOK(b, h, s.events), b.state = "open", ~IsTerminal(s.status)
    PROVE  LET t == Recorded(s, e)
               i == SequenceOf(s, e)
               c == PublishedBox(h, b, t.events, i)
           IN  IF IsTerminal(t.status)
               THEN c.state = "closed" /\ c.queue # << >> /\ c.queue[Len(c.queue)] = Len(t.events)
               ELSE c.state = "open"
  <1> DEFINE t == Recorded(s, e)
             i == SequenceOf(s, e)
             d == Delivered(b, t.events, i)
             c == PublishedBox(h, b, t.events, i)
  <1>1. /\ s.events \in Seq(Event) /\ DOMAIN s.events = 1..Len(s.events) /\ Len(s.events) \in Nat
        /\ h.attached /\ ~h.closed /\ h.published = 1..Len(s.events)
    BY DEF Sessions, MailboxOK, HeadOK, PublishedOK
  <1>2. CASE Replayed(s, e) # {}
    <2>1. t = s /\ i \in DOMAIN s.events
      <3>1. i \in Replayed(s, e)
        BY <1>2 DEF SequenceOf
      <3> QED BY <1>2, <3>1 DEF Recorded, Replayed
    <2> HIDE DEF t, i
    <2>2. c = b
      BY <1>1, <2>1 DEF PublishedBox, Publishes
    <2> QED BY <2>1, <2>2 DEF t, i
  <1>3. CASE Replayed(s, e) = {}
    <2>1. t.events = Append(s.events, e) /\ t.status = StatusAfter(e.kind) /\ i = Len(s.events) + 1
      BY <1>3 DEF Recorded, SequenceOf, Sessions
    <2>2. IsTerminal(t.status) <=> IsTerminal(e.kind)
      BY <2>1 DEF StatusAfter, IsTerminal, TerminalKinds
    <2> HIDE DEF t, i
    <2>3. t.events[i] = e /\ Len(t.events) = i /\ i \in Nat /\ Publishes(h, i)
      BY <1>1, <2>1, AppendProperties DEF Publishes
    <2>4. Queues(b, d, i, t.events)
      <3>1. \A x \in Held(b) : x < i
        BY <1>1, <2>1 DEF MailboxOK
      <3> QED BY <2>3, <3>1, DeliveredQueues DEF MailboxOK
    <2> HIDE DEF d
    <2>5. d \in Boxes /\ d.state = "open" /\ d.queue # << >> /\ d.queue[Len(d.queue)] = i
      BY <2>4 DEF Queues
    <2>6. CASE IsTerminal(t.status)
      <3>1. c = ClosedBox(d)
        BY <2>2, <2>3, <2>6 DEF PublishedBox, d
      <3>2. c = [d EXCEPT !.state = "closed", !.wake = TRUE]
        BY <2>5, <3>1 DEF ClosedBox
      <3>3. c.state = "closed" /\ c.queue = d.queue
        <4> HIDE DEF c
        <4> QED BY <2>5, <3>2 DEF Boxes
      <3> QED BY <2>3, <2>5, <2>6, <3>3 DEF t, i
    <2>7. CASE ~IsTerminal(t.status)
      <3>1. c = d
        BY <2>2, <2>3, <2>7 DEF PublishedBox, d
      <3> QED BY <2>5, <2>7, <3>1 DEF t, i
    <2> QED BY <2>6, <2>7
  <1> QED BY <1>2, <1>3

EndReached(m) ==
    box[m].state = "open" /\ ~IsTerminal(session.status) /\ IsTerminal(session'.status) =>
        /\ box'[m].state = "closed"
        /\ box'[m].queue # << >>
        /\ box'[m].queue[Len(box'[m].queue)] = Len(session'.events)

LEMMA MailboxSteps ==
    ASSUME MailboxInv, [Next]_vars
    PROVE  MailboxInv' /\ \A m \in Mailboxes : EndReached(m)
  <1>1. SessionTypeOK'
    BY SessionSteps DEF MailboxInv
  <1>2. /\ session \in Sessions /\ HeadOK(head, session.events) /\ DOMAIN box = Mailboxes
        /\ \A m \in Mailboxes : MailboxOK(box[m], head, session.events)
    BY DEF MailboxInv, SessionTypeOK, Sessions
  <1>3. /\ \A kind \in CommandKinds :
              /\ Commanded(session, kind) \in Sessions
              /\ Commanded(session, kind).events = session.events
              /\ Commanded(session, kind).status = session.status
        /\ StartedSession \in Sessions /\ StartedSession.events = session.events
        /\ StartedSession.status = session.status
    BY <1>2 DEF Commanded, Sessions, StartedSession, CommandKinds
  <1>4. ASSUME NEW s \in Sessions, NEW e \in Event, s.events = session.events,
               s.status = session.status, RecordEvent(s, e)
        PROVE  MailboxInv' /\ \A m \in Mailboxes : EndReached(m)
    <2> DEFINE later == Recorded(s, e).events
               i     == SequenceOf(s, e)
    <2>1. /\ session' = Recorded(s, e) /\ head' = PublishedHead(head, later, i)
          /\ box' = [m \in Mailboxes |-> PublishedBox(head, box[m], later, i)]
      BY <1>4 DEF RecordEvent
    <2>2. HeadOK(head', session'.events)
      BY <1>2, <1>4, <2>1, MailboxGrows
    <2>3. ASSUME NEW m \in Mailboxes PROVE MailboxOK(box'[m], head', session'.events)
      BY <1>2, <1>4, <2>1, MailboxGrows
    <2>4. ASSUME NEW m \in Mailboxes PROVE EndReached(m)
      <3>1. SUFFICES ASSUME box[m].state = "open", ~IsTerminal(session.status),
                            IsTerminal(session'.status)
                     PROVE  /\ box'[m].state = "closed" /\ box'[m].queue # << >>
                            /\ box'[m].queue[Len(box'[m].queue)] = Len(session'.events)
        BY DEF EndReached
      <3>2. LET c == PublishedBox(head, box[m], later, i)
            IN  /\ c.state = "closed" /\ c.queue # << >>
                /\ c.queue[Len(c.queue)] = Len(Recorded(s, e).events)
        BY <1>2, <1>4, <2>1, <3>1, EndQueued
      <3>3. box'[m] = PublishedBox(head, box[m], later, i)
        BY <2>1
      <3> QED BY <2>1, <3>2, <3>3
    <2> QED BY <1>1, <2>1, <2>2, <2>3, <2>4 DEF MailboxInv
  <1>5. ASSUME NEW e \in Executors,
               ActivateExecutor(e) \/ Cancel(e) \/ \E event \in Event : EmitEvent(e, event)
        PROVE  MailboxInv' /\ \A m \in Mailboxes : EndReached(m)
    <2>1. Fact("submitted") \in Event /\ Fact("cancelled") \in Event /\ "cancel" \in CommandKinds
      BY EventsKnown DEF EventKinds, TerminalKinds, CommandKinds
    <2> QED BY <1>2, <1>3, <1>4, <1>5, <2>1 DEF ActivateExecutor, Cancel, EmitEvent
  <1>6. ASSUME NEW e \in Executors, NEW a \in Artifacts, Complete(e, a)
        PROVE  MailboxInv' /\ \A m \in Mailboxes : EndReached(m)
    <2> DEFINE s1 == Recorded(session, Artifact(a))
               i1 == SequenceOf(session, Artifact(a))
               h1 == PublishedHead(head, s1.events, i1)
               b1(m) == PublishedBox(head, box[m], s1.events, i1)
               s2 == Recorded(s1, Fact("completed"))
               i2 == SequenceOf(s1, Fact("completed"))
               h2 == PublishedHead(h1, s2.events, i2)
               b2(m) == PublishedBox(h1, b1(m), s2.events, i2)
    <2>1. /\ Artifact(a) \in Event /\ Fact("completed") \in Event
          /\ Artifact(a).kind = "artifact_ready"
      BY EventsKnown DEF EventKinds, TerminalKinds
    <2>2. session' = s2 /\ head' = h2 /\ box' = [m \in Mailboxes |-> b2(m)]
      BY <1>6 DEF Complete
    <2>3. /\ s1 \in Sessions /\ HeadOK(h1, s1.events)
          /\ \A m \in Mailboxes : MailboxOK(b1(m), h1, s1.events)
      BY <1>2, <2>1, RecordedSession, MailboxGrows
    <2>4. \A m \in Mailboxes : box[m].state = "open" /\ ~IsTerminal(session.status) =>
              b1(m).state = "open" /\ ~IsTerminal(s1.status)
      <3>1. IsTerminal(session.status) \/ ~IsTerminal(s1.status)
        BY <2>1 DEF Recorded, StatusAfter, IsTerminal, TerminalKinds, Sessions
      <3> QED BY <1>2, <2>1, <3>1, EndQueued
    <2> HIDE DEF s1, i1, h1, b1
    <2>5. HeadOK(h2, s2.events) /\ \A m \in Mailboxes : MailboxOK(b2(m), h2, s2.events)
      BY <2>1, <2>3, MailboxGrows
    <2>6. \A m \in Mailboxes : b1(m).state = "open" /\ ~IsTerminal(s1.status) /\ IsTerminal(s2.status)
              => /\ b2(m).state = "closed" /\ b2(m).queue # << >>
                 /\ b2(m).queue[Len(b2(m).queue)] = Len(s2.events)
      BY <2>1, <2>3, EndQueued
    <2> HIDE DEF s2, i2, h2, b2
    <2> QED BY <1>1, <2>2, <2>4, <2>5, <2>6 DEF MailboxInv, EndReached
  <1>7. ASSUME session'.events = session.events, session'.status = session.status, head' = head,
               DOMAIN box' = Mailboxes,
               \A m \in Mailboxes : MailboxOK(box'[m], head, session.events)
        PROVE  MailboxInv' /\ \A m \in Mailboxes : EndReached(m)
    BY <1>1, <1>2, <1>7 DEF MailboxInv, EndReached
  <1>8. CASE AttachHead
    <2>1. /\ session' = session /\ box' = box /\ ~head.attached
          /\ head' = [head EXCEPT !.attached = TRUE, !.published = DOMAIN session.events]
      BY <1>8 DEF AttachHead
    <2>2. head \in Heads /\ head.published \subseteq DOMAIN session.events
      BY <1>2 DEF HeadOK, PublishedOK
    <2>3. head'.published = DOMAIN session.events /\ head' \in Heads
      <3>1. DOMAIN session.events \subseteq Nat
        BY <1>2 DEF Sessions
      <3> QED BY <2>1, <2>2, <3>1 DEF Heads
    <2>4. HeadOK(head', session.events)
      BY <2>3 DEF HeadOK, PublishedOK
    <2>5. ASSUME NEW m \in Mailboxes PROVE MailboxOK(box[m], head', session.events)
      <3>1. box[m].state # "open"
        BY <1>2, <2>1 DEF MailboxOK
      <3> QED BY <1>2, <2>2, <2>3, <3>1 DEF MailboxOK
    <2> QED BY <1>1, <1>2, <2>1, <2>4, <2>5 DEF MailboxInv, EndReached
  <1>9. ASSUME NEW b, NEW h, MailboxOK(b, head, session.events), h.published = head.published
        PROVE  MailboxOK(ClosedBox(b), h, session.events)
    <2>1. CASE b.state = "open"
      <3> DEFINE c == ClosedBox(b)
      <3>1. c = [b EXCEPT !.state = "closed", !.wake = TRUE] /\ b \in Boxes
        BY <1>9, <2>1 DEF ClosedBox, MailboxOK
      <3> HIDE DEF c
      <3>2. /\ c \in Boxes /\ c.queue = b.queue /\ c.received = b.received /\ c.from = b.from
            /\ c.state = "closed"
        BY <3>1 DEF Boxes
      <3>3. MailboxOK(c, h, session.events)
        BY <1>9, <3>2 DEF MailboxOK, Ordered, Held
      <3> QED BY <3>3 DEF c
    <2>2. CASE b.state # "open"
      BY <1>9, <2>2 DEF ClosedBox, MailboxOK
    <2> QED BY <2>1, <2>2
  <1>10. CASE CloseHead
    <2>1. /\ session' = session /\ head' = [head EXCEPT !.closed = TRUE]
          /\ box' = [m \in Mailboxes |-> ClosedBox(box[m])]
      BY <1>10 DEF CloseHead
    <2>2. /\ head' \in Heads /\ head'.published = head.published /\ head'.closed
      BY <1>2, <2>1 DEF HeadOK, PublishedOK, Heads
    <2>3. HeadOK(head', session.events)
      BY <1>2, <2>2 DEF HeadOK, PublishedOK
    <2> QED BY <1>1, <1>2, <1>9, <2>1, <2>2, <2>3 DEF MailboxInv, EndReached
  <1>11. ASSUME NEW m \in Mailboxes, UnsubscribeMailbox(m)
         PROVE  MailboxInv' /\ \A n \in Mailboxes : EndReached(n)
    <2>1. session' = session /\ head' = head /\ box' = [box EXCEPT ![m] = ClosedBox(box[m])]
      BY <1>11 DEF UnsubscribeMailbox
    <2> QED BY <1>2, <1>7, <1>9, <2>1
  <1>12. ASSUME NEW m \in Mailboxes, SubscribeMailbox(m)
         PROVE  MailboxInv' /\ \A n \in Mailboxes : EndReached(n)
    <2> DEFINE n == Len(session.events)
               c == NewBox(n, IF head.closed THEN "closed" ELSE "open")
    <2>1. session' = session /\ head' = head /\ box' = [box EXCEPT ![m] = c] /\ head.attached
      BY <1>12 DEF SubscribeMailbox
    <2>2. n \in Nat /\ DOMAIN session.events = 1..n
      BY <1>2 DEF Sessions
    <2>3. /\ c \in Boxes /\ c.queue = << >> /\ c.received = << >> /\ c.from = n /\ c.dropped = 0
          /\ c.state = "open" => ~head.closed
      BY <2>2 DEF NewBox, Boxes
    <2> HIDE DEF c
    <2>4. Ordered(c) /\ Held(c) = {} /\ Pressed(c.queue, session.events)
      BY <2>3, MaxSizeAssumption DEF Ordered, Held, ToSet, Pressed, Increasing
    <2>5. Missed(c, head) = {}
      <3>1. head.published \subseteq 1..n
        BY <1>2, <2>2 DEF HeadOK
      <3> QED BY <2>2, <2>3, <3>1 DEF Missed
    <2>6. Cardinality(Missed(c, head)) = 0
      BY <2>5, FS_EmptySet
    <2>7. MailboxOK(c, head, session.events)
      BY <2>1, <2>2, <2>3, <2>4, <2>5, <2>6 DEF MailboxOK
    <2> QED BY <1>2, <1>7, <2>1, <2>7
  <1>13. ASSUME NEW m \in Mailboxes, Receive(m)
         PROVE  MailboxInv' /\ \A n \in Mailboxes : EndReached(n)
    <2> DEFINE b == box[m]
               taken   == [b EXCEPT !.wake = FALSE, !.queue = Tail(@), !.reader = "reading",
                                    !.received = Append(@, Head(b.queue))]
               waiting == [b EXCEPT !.wake = FALSE,
                                    !.reader = IF b.state = "closed" THEN "done" ELSE "asleep"]
    <2>1. /\ session' = session /\ head' = head
          /\ box' = [box EXCEPT ![m] = IF b.queue # << >> THEN taken ELSE waiting]
      BY <1>13 DEF Receive
    <2>2. CASE b.queue # << >>
      <3>1. MailboxOK(taken, head, session.events)
        BY <1>2, <2>2, ReceivedKeeps
      <3> HIDE DEF taken
      <3> QED BY <1>2, <1>7, <2>1, <2>2, <3>1
    <2>3. CASE b.queue = << >>
      <3>1. /\ waiting \in Boxes /\ waiting.queue = b.queue /\ waiting.received = b.received
            /\ waiting.from = b.from /\ waiting.state = b.state /\ waiting.dropped = b.dropped
        BY <1>2 DEF MailboxOK, Boxes
      <3> HIDE DEF waiting
      <3>2. MailboxOK(waiting, head, session.events)
        BY <1>2, <3>1 DEF MailboxOK, Ordered, Held, Missed
      <3> QED BY <1>2, <1>7, <2>1, <2>3, <3>2
    <2> QED BY <2>2, <2>3
  <1>14. ASSUME \/ Start \/ UNCHANGED vars
                \/ \E e \in Executors : \/ BindStopCallback(e) \/ BindInputCallback(e) \/ BindExecutor(e)
                                      \/ ActivateMismatched(e) \/ CancelMismatched(e)
                                      \/ ProvideInput(e) \/ ReleaseExecutor(e)
         PROVE  MailboxInv' /\ \A m \in Mailboxes : EndReached(m)
    <2>1. /\ UNCHANGED <<head, box>>
          /\ \/ session' = session \/ session' = StartedSession
             \/ \E kind \in CommandKinds : session' = Commanded(session, kind)
      BY <1>14 DEF vars, Start, BindStopCallback, BindInputCallback, BindExecutor,
                   ActivateMismatched, CancelMismatched, ProvideInput, ReleaseExecutor, CommandKinds
    <2> QED BY <1>2, <1>3, <1>7, <2>1
  <1> QED BY <1>5, <1>6, <1>8, <1>10, <1>11, <1>12, <1>13, <1>14 DEF Next, ExecutorStep, SubscriberStep

LEMMA MailboxInvariant == Spec => []MailboxInv
  <1>1. ASSUME Init PROVE MailboxInv
    <2>1. SessionTypeOK /\ session.events = << >> /\ Len(session.events) = 0
      BY <1>1, JournalInitial DEF Init, JournalInv
    <2>9. session.events \in Seq(Event)
      BY <2>1 DEF SessionTypeOK
    <2>10. DOMAIN session.events = {}
      BY <2>1, <2>9
    <2>2. head.attached \in BOOLEAN /\ head.closed = FALSE /\ head.published = {}
      BY <1>1 DEF Init
    <2>3. head = [attached |-> head.attached, closed |-> FALSE, published |-> {}]
      BY <1>1 DEF Init
    <2>4. HeadOK(head, session.events)
      BY <2>10, <2>2, <2>3 DEF HeadOK, PublishedOK, Heads
    <2> DEFINE c == NewBox(0, "unused")
    <2>5. /\ c \in Boxes /\ c.queue = << >> /\ c.received = << >> /\ c.from = 0 /\ c.state = "unused"
      BY DEF NewBox, Boxes
    <2> HIDE DEF c
    <2>6. Ordered(c) /\ Held(c) = {} /\ Pressed(c.queue, session.events)
      BY <2>5, MaxSizeAssumption DEF Ordered, Held, ToSet, Pressed, Increasing
    <2>7. MailboxOK(c, head, session.events)
      BY <2>1, <2>5, <2>6 DEF MailboxOK
    <2>8. box = [m \in Mailboxes |-> c]
      BY <1>1 DEF Init, c
    <2> QED BY <2>1, <2>4, <2>7, <2>8 DEF MailboxInv
  <1>2. MailboxInv /\ [Next]_vars => MailboxInv'
    BY MailboxSteps
  <1> QED BY <1>1, <1>2, PTL DEF Spec

(* What a subscriber has read, and what waits for it, as one sequence.     *)
LEMMA SeenInOrder ==
    ASSUME NEW b \in Boxes, Ordered(b)
    PROVE  Increasing(Seen(b)) /\ ToSet(Seen(b)) = Held(b)
  <1> DEFINE r == b.received
             q == b.queue
             s == Seen(b)
  <1>1. r \in Seq(Nat) /\ q \in Seq(Nat) /\ Ordered(b)
    BY DEF Boxes
  <1>2. /\ s \in Seq(Nat) /\ Len(s) = Len(r) + Len(q)
        /\ \A i \in 1..(Len(r) + Len(q)) : s[i] = IF i <= Len(r) THEN r[i] ELSE q[i - Len(r)]
    BY <1>1, ConcatProperties DEF Seen
  <1> DEFINE n == Len(r)
             k == Len(q)
  <1>3. /\ n \in Nat /\ k \in Nat /\ DOMAIN r = 1..n /\ DOMAIN q = 1..k /\ DOMAIN s = 1..(n + k)
        /\ \A i \in 1..(n + k) : s[i] = IF i <= n THEN r[i] ELSE q[i - n]
    <2> HIDE DEF s, r, q
    <2>1. n \in Nat /\ k \in Nat /\ DOMAIN r = 1..n /\ DOMAIN q = 1..k
      BY <1>1
    <2>2. s \in Seq(Nat) /\ Len(s) = n + k
      BY <1>2
    <2>3. DOMAIN s = 1..(n + k)
      BY <2>1, <2>2
    <2> QED BY <1>2, <2>1, <2>3
  <1>4. /\ \A i, j \in 1..n : i < j => r[i] < r[j]
        /\ \A i, j \in 1..k : i < j => q[i] < q[j]
        /\ \A i \in 1..n, j \in 1..k : r[i] < q[j]
    BY <1>1, <1>3 DEF Ordered, Increasing
  <1>5. ToSet(s) = ToSet(r) \cup ToSet(q)
    <2> HIDE DEF n, k, s, r, q
    <2>1. \A i \in 1..n : i \in 1..(n + k) /\ s[i] = r[i]
      BY <1>3
    <2>2. ASSUME NEW i \in 1..k PROVE i + n \in 1..(n + k) /\ s[i + n] = q[i]
      <3>1. i + n \in 1..(n + k) /\ ~(i + n <= n) /\ (i + n) - n = i
        BY <1>3
      <3> QED BY <1>3, <3>1
    <2>3. ASSUME NEW i \in 1..(n + k) PROVE s[i] \in ToSet(r) \cup ToSet(q)
      <3>1. CASE i <= n
        <4>1. i \in 1..n
          BY <1>3, <3>1
        <4> QED BY <1>3, <2>1, <4>1 DEF ToSet
      <3>2. CASE ~(i <= n)
        <4>1. i - n \in 1..k
          BY <1>3, <3>2
        <4> QED BY <1>3, <3>2, <4>1 DEF ToSet
      <3> QED BY <3>1, <3>2
    <2>4. ToSet(s) = {s[i] : i \in 1..(n + k)} /\ ToSet(r) = {r[i] : i \in 1..n}
          /\ ToSet(q) = {q[i] : i \in 1..k}
      BY <1>3 DEF ToSet
    <2>5. ASSUME NEW x \in ToSet(r) \cup ToSet(q) PROVE x \in ToSet(s)
      BY <2>1, <2>2, <2>4
    <2> QED BY <2>3, <2>4, <2>5
  <1>6. Increasing(s)
    <2> HIDE DEF n, k, s, r, q
    <2>1. SUFFICES ASSUME NEW i \in 1..(n + k), NEW j \in 1..(n + k), i < j PROVE s[i] < s[j]
      BY <1>3 DEF Increasing
    <2>2. CASE j <= n
      <3>1. i \in 1..n /\ j \in 1..n /\ i <= n
        BY <1>3, <2>1, <2>2
      <3> QED BY <1>3, <1>4, <2>1, <2>2, <3>1
    <2>3. CASE i <= n /\ ~(j <= n)
      <3>1. i \in 1..n /\ j - n \in 1..k
        BY <1>3, <2>1, <2>3
      <3> QED BY <1>3, <1>4, <2>1, <2>3, <3>1
    <2>4. CASE ~(i <= n)
      <3>1. ~(j <= n) /\ i - n \in 1..k /\ j - n \in 1..k /\ i - n < j - n
        BY <1>3, <2>1, <2>4
      <3> QED BY <1>3, <1>4, <2>1, <2>4, <3>1
    <2> QED BY <2>2, <2>3, <2>4
  <1> QED BY <1>5, <1>6 DEF Held

(* A mailbox that is open misses progress only, as many as it counted; and *)
(* what a subscriber reads is the published journal in order, whatever the *)
(* bound, the number of subscribers and the pressure                       *)
(* (MailboxLosesOnlyProgress).                                             *)
THEOREM OnlyProgressIsLost == Spec => []MailboxLosesOnlyProgress
  <1>1. ASSUME MailboxInv PROVE MailboxLosesOnlyProgress
    <2>1. ASSUME NEW m \in Mailboxes
          PROVE  /\ Increasing(Seen(box[m]))
                 /\ ToSet(Seen(box[m])) = Held(box[m])
                 /\ MailboxOK(box[m], head, session.events)
      <3>1. MailboxOK(box[m], head, session.events)
        BY <1>1 DEF MailboxInv
      <3> QED BY <3>1, SeenInOrder DEF MailboxOK
    <2> QED BY <2>1 DEF MailboxLosesOnlyProgress, MailboxOK, Missed
  <1> QED BY <1>1, MailboxInvariant, PTL

(* A subscriber that listens when the execution ends has the end queued    *)
(* behind everything else before its mailbox closes.                       *)
THEOREM EndAlwaysArrives == Spec => EndIsDelivered
  <1>1. MailboxInv /\ [Next]_vars => [\A m \in Mailboxes : EndReached(m)]_vars
    BY MailboxSteps
  <1> QED BY <1>1, MailboxInvariant, PTL DEF Spec, EndIsDelivered, EndReached

(* Beyond its bound a mailbox holds facts and at most one progress.        *)
THEOREM PressureHolds == Spec => []PressureBound
  <1>1. ASSUME MailboxInv PROVE PressureBound
    <2> SUFFICES ASSUME NEW m \in Mailboxes, Len(box[m].queue) > MaxSize
                 PROVE  Cardinality({k \in DOMAIN box[m].queue :
                                       session.events[box[m].queue[k]].kind = "progress"}) <= 1
      BY DEF PressureBound
    <2> DEFINE T == {k \in DOMAIN box[m].queue :
                       session.events[box[m].queue[k]].kind = "progress"}
    <2>1. \A k, l \in T : k = l
      BY <1>1 DEF MailboxInv, MailboxOK, Pressed
    <2> HIDE DEF T
    <2>2. CASE T = {}
      <3>1. Cardinality(T) = 0
        BY <2>2, FS_EmptySet
      <3> QED BY <3>1 DEF T
    <2>3. CASE T # {}
      <3>1. PICK k \in T : TRUE
        BY <2>3
      <3>2. T = {k}
        BY <2>1, <3>1
      <3>3. Cardinality(T) = 1
        BY <3>2, FS_Singleton
      <3> QED BY <3>3 DEF T
    <2> QED BY <2>2, <2>3
  <1> QED BY <1>1, MailboxInvariant, PTL

-----------------------------------------------------------------------------
(***************************************************************************)
(* Theorems about the settlement of an execution (module CoreLedger), for  *)
(* every set of settling tasks and every number of attempts.               *)
(***************************************************************************)
SettlerStates ==
    [pc : {"idle", "appending", "backoff", "returned"}, attempt : 0..MaxAttempts,
     record : Records \cup {None}, result : {None, "inserted", "duplicate", "already", "raised"}]

Results == {None, "inserted", "duplicate", "already", "raised"}

(* What a record that claims to know the end says of it.                   *)
Evident(r) ==
    r # None /\ r.evident =>
        terminal # None /\ r.status \in {LedgerStatus(terminal, a) : a \in BOOLEAN}

(* A task in backoff has an attempt left.                                  *)
AttemptsLeft == \A t \in Settlers : settler[t].pc = "backoff" => settler[t].attempt < MaxAttempts

(* The inductive invariant: the checked properties, and that a task that   *)
(* is busy holds a record and no record misreports the end.                *)
LedgerInv ==
    /\ LedgerTypeOK
    /\ OneAppender
    /\ ClaimIsHeldOrStored
    /\ AttemptsLeft
    /\ \A t \in Settlers : Busy(t) => settler[t].record # None
    /\ \A t \in Settlers : Evident(settler[t].record)
    /\ Evident(row)

-----------------------------------------------------------------------------
(* A prepared record is a record, and it says how the execution ended if   *)
(* it had ended.                                                           *)
LEMMA PreparedRecords ==
    ASSUME terminal \in Endings \cup {None}, NEW p \in Preparations
    PROVE  p \in Records /\ p # None /\ Evident(p)
  <1>1. CASE terminal = None
    BY <1>1, NoneAssumption DEF Preparations, Records, Evident
  <1>2. CASE terminal # None
    <2>1. PICK a \in BOOLEAN : p.status = LedgerStatus(terminal, a) /\ p.evident
      BY <1>2 DEF Preparations
    <2>2. p.status \in LedgerStatuses
      BY <1>2, <2>1 DEF LedgerStatus, LedgerStatuses, Endings
    <2>3. p = [status |-> p.status, evident |-> p.evident] /\ p.evident = TRUE
      BY <1>2 DEF Preparations
    <2>4. p \in Records
      BY <2>2, <2>3 DEF Records
    <2> QED BY <1>2, <2>1, <2>4, NoneAssumption DEF Evident
  <1> QED BY <1>1, <1>2

(* A task that returns holds nothing: whatever else the step does to the   *)
(* row and the claim, the parts about the tasks are kept.                  *)
LEMMA ReturnKeeps ==
    ASSUME LedgerInv, NEW t \in Settlers, NEW result \in Results,
           settler' = Returned(t, result), terminal' = terminal
    PROVE  /\ settler' \in [Settlers -> SettlerStates]
           /\ OneAppender' /\ AttemptsLeft'
           /\ ~Busy(t)' /\ \A u \in Settlers : u # t => (Busy(u)' <=> Busy(u))
           /\ (\A u \in Settlers : Busy(u) => settler[u].record # None)'
           /\ (\A u \in Settlers : Evident(settler[u].record))'
  <1> DEFINE state == [pc |-> "returned", attempt |-> 0, record |-> None, result |-> result]
  <1>1. settler' = [settler EXCEPT ![t] = state] /\ settler \in [Settlers -> SettlerStates]
    BY DEF Returned, LedgerInv, LedgerTypeOK, SettlerStates
  <1>2. state \in SettlerStates
    BY MaxAttemptsAssumption DEF SettlerStates, Results
  <1>3. state.pc = "returned" /\ state.record = None
    OBVIOUS
  <1> HIDE DEF state
  <1>4. settler' \in [Settlers -> SettlerStates]
    BY <1>1, <1>2
  <1>5. settler'[t] = state /\ \A u \in Settlers : u # t => settler'[u] = settler[u]
    BY <1>1
  <1>6. ~Busy(t)' /\ \A u \in Settlers : u # t => (Busy(u)' <=> Busy(u))
    BY <1>3, <1>5 DEF Busy
  <1>7. OneAppender'
    BY <1>6 DEF LedgerInv, OneAppender
  <1>8. (\A u \in Settlers : Busy(u) => settler[u].record # None)'
    BY <1>5, <1>6 DEF LedgerInv
  <1>9. (\A u \in Settlers : Evident(settler[u].record))'
    BY <1>3, <1>5 DEF LedgerInv, Evident
  <1>10. AttemptsLeft'
    BY <1>3, <1>5 DEF LedgerInv, AttemptsLeft
  <1> QED BY <1>4, <1>6, <1>7, <1>8, <1>9, <1>10

(* Every step keeps the invariant.                                         *)
LEMMA LedgerSteps ==
    ASSUME LedgerInv, [LedgerNext]_ledgerVars
    PROVE  LedgerInv'
  <1>1. /\ terminal \in Endings \cup {None} /\ settled \in BOOLEAN
        /\ settler \in [Settlers -> SettlerStates] /\ row \in Records \cup {None}
    BY DEF LedgerInv, LedgerTypeOK, SettlerStates
  <1>2. ASSUME NEW kind \in Endings, End(kind) PROVE LedgerInv'
    <2>1. /\ terminal = None /\ terminal' = kind
          /\ settled' = settled /\ settler' = settler /\ row' = row
      BY <1>2 DEF End
    <2>2. LedgerTypeOK' /\ OneAppender' /\ ClaimIsHeldOrStored' /\ AttemptsLeft'
      BY <2>1 DEF LedgerInv, LedgerTypeOK, OneAppender, ClaimIsHeldOrStored, AttemptsLeft, Busy
    <2>3. ASSUME NEW r, Evident(r) PROVE r # None => ~r.evident
      BY <2>1, <2>3 DEF Evident
    <2>4. Evident(row)' /\ \A t \in Settlers : Evident(settler[t].record)'
      BY <2>1, <2>3 DEF LedgerInv, Evident
    <2> QED BY <2>1, <2>2, <2>4 DEF LedgerInv, Busy
  <1>3. ASSUME NEW t \in Settlers, SettleRefused(t) PROVE LedgerInv'
    <2>1. /\ settler' = Returned(t, "already") /\ terminal' = terminal
          /\ settled' = settled /\ row' = row /\ ~Busy(t)
      BY <1>3 DEF SettleRefused
    <2>2. "already" \in Results
      BY DEF Results
    <2>3. ClaimIsHeldOrStored'
      BY <2>1, <2>2, ReturnKeeps DEF LedgerInv, ClaimIsHeldOrStored
    <2>4. Evident(row)'
      BY <2>1 DEF LedgerInv, Evident
    <2> QED BY <1>1, <2>1, <2>2, <2>3, <2>4, ReturnKeeps DEF LedgerInv, LedgerTypeOK, SettlerStates
  <1>4. ASSUME NEW t \in Settlers, SettleClaimed(t) PROVE LedgerInv'
    <2>1. PICK p \in Preparations :
             settler' = [settler EXCEPT ![t] =
                           [pc |-> "appending", attempt |-> 1, record |-> p, result |-> None]]
      BY <1>4 DEF SettleClaimed
    <2>2. /\ ~settled /\ settled' = TRUE /\ terminal' = terminal /\ row' = row
      BY <1>4 DEF SettleClaimed
    <2>3. p \in Records /\ p # None /\ Evident(p)
      BY <1>1, PreparedRecords
    <2> DEFINE state == [pc |-> "appending", attempt |-> 1, record |-> p, result |-> None]
    <2>4. state \in SettlerStates
      BY <2>3, MaxAttemptsAssumption DEF SettlerStates
    <2>5. state.pc = "appending" /\ state.record = p
      OBVIOUS
    <2> HIDE DEF state
    <2>6. settler'[t] = state /\ \A u \in Settlers : u # t => settler'[u] = settler[u]
      BY <1>1, <2>1 DEF state
    <2>7. \A u \in Settlers : ~Busy(u)
      BY <2>2 DEF LedgerInv, ClaimIsHeldOrStored
    <2>8. Busy(t)' /\ \A u \in Settlers : u # t => ~Busy(u)'
      BY <2>5, <2>6, <2>7 DEF Busy
    <2>9. settler' \in [Settlers -> SettlerStates]
      BY <1>1, <2>1, <2>4 DEF state
    <2>10. LedgerTypeOK'
      BY <1>1, <2>2, <2>9 DEF LedgerTypeOK, SettlerStates
    <2>11. OneAppender' /\ ClaimIsHeldOrStored'
      BY <2>2, <2>8 DEF OneAppender, ClaimIsHeldOrStored
    <2>14. AttemptsLeft'
      BY <2>5, <2>6 DEF LedgerInv, AttemptsLeft
    <2>12. (\A u \in Settlers : Busy(u) => settler[u].record # None)'
      BY <2>3, <2>5, <2>6, <2>8
    <2>13. (\A u \in Settlers : Evident(settler[u].record))' /\ Evident(row)'
      BY <2>2, <2>3, <2>5, <2>6 DEF LedgerInv, Evident
    <2> QED BY <2>10, <2>11, <2>12, <2>13, <2>14 DEF LedgerInv
  <1>5. ASSUME NEW t \in Settlers, AppendReturns(t) PROVE LedgerInv'
    <2> DEFINE result == IF row = None THEN "inserted" ELSE "duplicate"
    <2>1. /\ settler' = Returned(t, result) /\ result \in Results
          /\ terminal' = terminal /\ settled' = settled
          /\ row' = IF row = None THEN settler[t].record ELSE row
          /\ Busy(t)
      BY <1>5 DEF AppendReturns, Results, Busy
    <2> HIDE DEF result
    <2>2. settler[t].record \in Records /\ settler[t].record # None
      BY <1>1, <2>1 DEF LedgerInv, SettlerStates
    <2>3. row' \in Records /\ row' # None
      BY <1>1, <2>1, <2>2
    <2>4. ClaimIsHeldOrStored'
      BY <2>1, <2>3, ReturnKeeps DEF LedgerInv, ClaimIsHeldOrStored
    <2>5. Evident(row)'
      BY <2>1 DEF LedgerInv, Evident
    <2> QED BY <1>1, <2>1, <2>3, <2>4, <2>5, ReturnKeeps DEF LedgerInv, LedgerTypeOK, SettlerStates
  <1>6. ASSUME NEW t \in Settlers, AppendBusy(t) \/ Retry(t) PROVE LedgerInv'
    <2>1. /\ settler' \in [Settlers -> SettlerStates]
          /\ \A u \in Settlers : settler'[u].record = settler[u].record
          /\ \A u \in Settlers : Busy(u)' <=> Busy(u)
          /\ AttemptsLeft'
      <3>1. CASE AppendBusy(t)
        BY <1>1, <3>1, MaxAttemptsAssumption DEF AppendBusy, LedgerInv, AttemptsLeft, SettlerStates, Busy
      <3>2. CASE Retry(t)
        <4>1. settler[t].attempt + 1 \in 0..MaxAttempts
          BY <1>1, <3>2, MaxAttemptsAssumption DEF LedgerInv, AttemptsLeft, Retry, SettlerStates
        <4> QED BY <1>1, <3>2, <4>1 DEF Retry, LedgerInv, AttemptsLeft, SettlerStates, Busy
      <3> QED BY <1>6, <3>1, <3>2
    <2>2. terminal' = terminal /\ settled' = settled /\ row' = row
      BY <1>6 DEF AppendBusy, Retry
    <2>3. LedgerTypeOK'
      BY <1>1, <2>1, <2>2 DEF LedgerTypeOK, SettlerStates
    <2>4. OneAppender' /\ ClaimIsHeldOrStored'
      BY <2>1, <2>2 DEF LedgerInv, OneAppender, ClaimIsHeldOrStored
    <2>5. /\ (\A u \in Settlers : Busy(u) => settler[u].record # None)'
          /\ (\A u \in Settlers : Evident(settler[u].record))' /\ Evident(row)'
      BY <2>1, <2>2 DEF LedgerInv, Evident
    <2> QED BY <2>1, <2>3, <2>4, <2>5 DEF LedgerInv
  <1>7. ASSUME NEW t \in Settlers, AppendFails(t) \/ CancelSettler(t) PROVE LedgerInv'
    <2>1. /\ settler' = Returned(t, "raised") /\ terminal' = terminal /\ settled' = FALSE
          /\ row' \in {row, settler[t].record} /\ Busy(t)
      BY <1>7 DEF AppendFails, CancelSettler, Busy
    <2>2. "raised" \in Results
      BY DEF Results
    <2>3. settler[t].record \in Records \cup {None}
      BY <1>1 DEF SettlerStates
    <2>4. LedgerTypeOK'
      BY <1>1, <2>1, <2>2, <2>3, ReturnKeeps DEF LedgerTypeOK, SettlerStates
    <2>5. \A u \in Settlers : ~Busy(u)'
      BY <2>1, <2>2, ReturnKeeps DEF LedgerInv, OneAppender
    <2>6. ClaimIsHeldOrStored'
      BY <2>1, <2>5 DEF ClaimIsHeldOrStored
    <2>7. Evident(row)'
      BY <2>1 DEF LedgerInv, Evident
    <2> QED BY <2>1, <2>2, <2>4, <2>6, <2>7, ReturnKeeps DEF LedgerInv
  <1>8. CASE UNCHANGED ledgerVars
    BY <1>8 DEF ledgerVars, LedgerInv, LedgerTypeOK, OneAppender, ClaimIsHeldOrStored, AttemptsLeft, Busy, Evident
  <1> QED BY <1>2, <1>3, <1>4, <1>5, <1>6, <1>7, <1>8 DEF LedgerNext, SettlerStep

LEMMA LedgerInvariant == LedgerSpec => []LedgerInv
  <1>1. ASSUME LedgerInit PROVE LedgerInv
    <2>1. /\ terminal = None /\ settled = FALSE /\ row = None
          /\ settler = [t \in Settlers |-> Idle]
      BY <1>1 DEF LedgerInit
    <2>2. Idle \in SettlerStates /\ Idle.pc = "idle" /\ Idle.record = None
      BY MaxAttemptsAssumption DEF Idle, SettlerStates
    <2>3. LedgerTypeOK
      BY <2>1, <2>2 DEF LedgerTypeOK, SettlerStates
    <2>4. \A t \in Settlers : ~Busy(t) /\ settler[t].record = None
      BY <2>1, <2>2 DEF Busy
    <2> QED BY <2>1, <2>3, <2>4 DEF LedgerInv, OneAppender, ClaimIsHeldOrStored, AttemptsLeft, Busy, Evident
  <1>2. LedgerInv /\ [LedgerNext]_ledgerVars => LedgerInv'
    BY LedgerSteps
  <1> QED BY <1>1, <1>2, PTL DEF LedgerSpec

-----------------------------------------------------------------------------
(* Every variable keeps its type, the attempts their bound.                *)
THEOREM LedgerTypeCorrect == LedgerSpec => []LedgerTypeOK
  <1>1. LedgerInv => LedgerTypeOK
    BY DEF LedgerInv
  <1> QED BY <1>1, LedgerInvariant, PTL

(* Two tasks never append for one execution.                               *)
THEOREM OneAppenderHolds == LedgerSpec => []OneAppender
  <1>1. LedgerInv => OneAppender
    BY DEF LedgerInv
  <1> QED BY <1>1, LedgerInvariant, PTL

(* A claim is held by a task that appends or stands for a stored row.      *)
THEOREM ClaimIsHeldOrStoredHolds == LedgerSpec => []ClaimIsHeldOrStored
  <1>1. LedgerInv => ClaimIsHeldOrStored
    BY DEF LedgerInv
  <1> QED BY <1>1, LedgerInvariant, PTL

(* A stored row that knew the end tells it.                                *)
THEOREM StoredIsEvidentHolds == LedgerSpec => []StoredIsEvident
  <1>1. LedgerInv => StoredIsEvident
    BY DEF LedgerInv, Evident, StoredIsEvident
  <1> QED BY <1>1, LedgerInvariant, PTL

(* A stored row is never replaced.                                         *)
THEOREM RowIsFinalHolds == LedgerSpec => RowIsFinal
  <1>1. [LedgerNext]_ledgerVars => [row # None => row' = row]_ledgerVars
    <2>1. ASSUME NEW t \in Settlers, SettlerStep(t), row # None PROVE row' = row
      BY <2>1 DEF SettlerStep, SettleRefused, SettleClaimed, AppendReturns, AppendBusy, Retry,
                  AppendFails, CancelSettler
    <2> QED BY <2>1 DEF LedgerNext, End
  <1> QED BY <1>1, PTL DEF LedgerSpec, RowIsFinal

=============================================================================
