--------------------------- MODULE TurnOutputProofs ---------------------------
(***************************************************************************)
(* Proofs about one coordinated turn, for every behaviour of the plugin    *)
(* gate, every combination of the failures and any number of messages: at  *)
(* most one message of the turn is sent under the final reservation, the   *)
(* conversation keeps at most one entry of it, of what was shown, and a    *)
(* completed turn that showed something has its entry.                     *)
(***************************************************************************)
EXTENDS TurnOutput, TLAPS

(* Every update of the turn state that an action makes is typed.           *)
LEMMA TurnFields ==
    ASSUME NEW t \in TurnType, NEW b \in BOOLEAN
    PROVE  /\ [t EXCEPT !.flag = b] \in TurnType
           /\ [t EXCEPT !.replied = b] \in TurnType
           /\ [t EXCEPT !.withheld = b] \in TurnType
           /\ [t EXCEPT !.stopped = b] \in TurnType
           /\ [t EXCEPT !.pending = b] \in TurnType
           /\ [t EXCEPT !.committed = b] \in TurnType
BY DEF TurnType

LEMMA TurnValues ==
    ASSUME NEW t \in TurnType
    PROVE  /\ \A p \in {"committed", "emitted", "suppressed", "failed"} :
                 [t EXCEPT !.persona = p] \in TurnType
           /\ \A o \in {"reserved", "delivered", "suppressed", "failed"} :
                 [t EXCEPT !.final = o] \in TurnType
           /\ \A s \in {"completed", "failed", "cancelled"} :
                 [t EXCEPT !.status = s] \in TurnType
           /\ \A r \in {"turn_completed", "turn_cancelled", "turn_cleanup"} :
                 [t EXCEPT !.closed = r] \in TurnType
           /\ \A r \in {"none", "silent", "persona", "hybrid"} :
                 [t EXCEPT !.route = r] \in TurnType
           /\ \A k \in SUBSET Kind : [t EXCEPT !.recorded = k] \in TurnType
           /\ t.recorded \in SUBSET Kind
           /\ [t EXCEPT !.persona = t.persona] = t
           /\ [t EXCEPT !.final = t.final] = t
           /\ [t EXCEPT !.status = t.status] = t
           /\ [t EXCEPT !.closed = t.closed] = t
           /\ [t EXCEPT !.flag = t.flag] = t
           /\ t.flag \in BOOLEAN /\ t.stopped \in BOOLEAN /\ t.replied \in BOOLEAN
BY ZenonT(40) DEF TurnType

LEMMA TurnOps ==
    ASSUME NEW t \in TurnType
    PROVE  /\ Completed(t) \in TurnType
           /\ Cancelled(t) \in TurnType
           /\ Close(t, "turn_cleanup") \in TurnType
           /\ FailedUnlessCompleted(t) \in TurnType
           /\ CommitLost(t) \in TurnType
           /\ SuppressPersona(t) \in TurnType
           /\ Reserve(t) \in TurnType
           /\ StoppedByHook(t) \in TurnType
           /\ \A o \in {"delivered", "suppressed", "failed"} : Finish(t, o) \in TurnType
           /\ \A n \in Resumption : Settled(t, n) \in TurnType
           /\ \A k \in Kind : Recorded(t, k) \in TurnType
<1>1. \A r \in {"turn_completed", "turn_cancelled", "turn_cleanup"} :
         \A u \in TurnType : Close(u, r) \in TurnType
  BY DEF Close, TurnType
<1>2. Completed(t) \in TurnType
  BY <1>1 DEF Completed, TurnType
<1>3. \A u \in TurnType : [u EXCEPT !.status = "cancelled"] \in TurnType
  BY DEF TurnType
<1>4. \A u \in TurnType : Cancelled(u) \in TurnType
  BY <1>1, <1>3 DEF Cancelled
<1>5. FailedUnlessCompleted(t) \in TurnType /\ CommitLost(t) \in TurnType
  BY DEF FailedUnlessCompleted, CommitLost, TurnType
<1>6. SuppressPersona(t) \in TurnType
  BY DEF SuppressPersona, TurnType
<1>7. Reserve(t) \in TurnType
  BY <1>6, TurnValues DEF Reserve
<1>8. StoppedByHook(t) \in TurnType
  BY <1>4, TurnFields DEF StoppedByHook
<1>9. \A o \in {"delivered", "suppressed", "failed"} : Finish(t, o) \in TurnType
  BY DEF Finish, TurnType
<1>10. \A n \in Resumption : Settled(t, n) \in TurnType
  BY <1>9 DEF Settled
<1>11. \A k \in Kind : Recorded(t, k) \in TurnType
  BY DEF Recorded, TurnType
<1> QED
  BY <1>1, <1>2, <1>4, <1>5, <1>6, <1>7, <1>8, <1>9, <1>10, <1>11

(* Wherever the main task goes next, its record is typed.                  *)
LEMMA MainFields ==
    ASSUME NEW m \in MainType
    PROVE  /\ \A p \in Place : [m EXCEPT !.at = p] \in MainType
           /\ \A n \in Resumption : [m EXCEPT !.next = n] \in MainType
           /\ \A b \in BOOLEAN : [m EXCEPT !.advancing = b] \in MainType
           /\ \A b \in BOOLEAN : [m EXCEPT !.head = b] \in MainType
           /\ \A e \in SUBSET Kind : [m EXCEPT !.entry = e] \in MainType
           /\ m.next \in Resumption
           /\ m.at \in Place
           /\ m.started < MaxMessages => Count(m) \in MainType
<1>1. ASSUME m.started < MaxMessages PROVE Count(m) \in MainType
  <2>1. m.started \in 0..MaxMessages
    BY DEF MainType
  <2>2. m.started + 1 \in 0..MaxMessages
    BY <1>1, <2>1, MaxMessagesAssumption
  <2>3. \A n \in 0..MaxMessages : [m EXCEPT !.started = n] \in MainType
    BY DEF MainType
  <2> QED
    BY <2>2, <2>3 DEF Count
<1> QED
  BY <1>1 DEF MainType

LEMMA MainOps ==
    ASSUME main \in MainType
    PROVE  /\ \A p \in Place : Goto(p) \in MainType /\ Goto(p).started = main.started
           /\ Raise \in MainType
           /\ \A t : Return(t) \in MainType
           /\ \A t : \A n \in Resumption : Resume(t, n) \in MainType
<1>1. \A p \in Place : Goto(p) \in MainType /\ Goto(p).started = main.started
  BY DEF Goto, MainType
<1>2. Raise \in MainType
  BY DEF Raise, MainType, Place
<1>3. \A t : Return(t) \in MainType
  <2> TAKE t
  <2>1. Goto("core") \in MainType
    BY <1>1 DEF Place
  <2>2. (t.final = "pending") \in BOOLEAN
    OBVIOUS
  <2>3. \A m \in MainType, b \in BOOLEAN : [m EXCEPT !.advancing = b] \in MainType
    BY DEF MainType
  <2> QED
    BY <1>2, <2>1, <2>2, <2>3 DEF Return
<1>4. \A t : \A n \in Resumption : Resume(t, n) \in MainType
  BY <1>1, <1>2, <1>3 DEF Resume, Resumption, Place
<1> QED
  BY <1>1, <1>2, <1>3, <1>4

(* The Personal task and the messages on the way.                          *)
LEMMA OthersTyped ==
    ASSUME personal \in PersonalType, send \in [Tasks -> SendType]
    PROVE  /\ \A b \in BOOLEAN : AskIf(b, personal) \in PersonalType
           /\ \A p \in {"sending", "returned", "raised", "cancelled"} :
                 [personal EXCEPT !.at = p] \in PersonalType
           /\ \A t \in Tasks, s \in SendType : [send EXCEPT ![t] = s] \in [Tasks -> SendType]
           /\ NoSend \in SendType
           /\ \A k \in Kind : Preparing(k) \in SendType
           /\ \A t \in Tasks : \A s \in {"wire", "shown", "completing"} :
                 [send[t] EXCEPT !.step = s] \in SendType
           /\ \A t \in Tasks : send[t].kind # "none" => send[t].kind \in Kind
<1>1. \A b \in BOOLEAN : AskIf(b, personal) \in PersonalType
  BY DEF AskIf, Ask, PersonalType
<1>2. \A p \in {"sending", "returned", "raised", "cancelled"} :
         [personal EXCEPT !.at = p] \in PersonalType
  BY DEF PersonalType
<1>3. NoSend \in SendType /\ \A k \in Kind : Preparing(k) \in SendType
  BY DEF NoSend, Preparing, SendType
<1> QED
  BY <1>1, <1>2, <1>3 DEF SendType

(* A message has a kind exactly while it is on the way, and the Personal   *)
(* task sends nothing but its immediate reply.                             *)
MessagesNamed ==
    /\ \A t \in Tasks : send[t].kind = "none" <=> send[t].step = "none"
    /\ send["personal"].kind \in {"none", "immediate"}

LEMMA PersistTyped ==
    ASSUME TypeOK, NEW t \in TurnType, NEW n \in Resumption, Persist(t, n)
    PROVE  turn' \in TurnType /\ main' \in MainType
<1>1. turn \in TurnType /\ main \in MainType
  BY DEF TypeOK
<1>2. CASE t.status = "completed"
  BY <1>1, <1>2, TurnOps, MainOps DEF Persist
<1>3. CASE t.status # "completed" /\ t.recorded = {}
  <2>1. [main EXCEPT !.at = "announce"] \in MainType
    BY <1>1, MainFields DEF Place
  <2>2. [[main EXCEPT !.at = "announce"] EXCEPT !.next = n] \in MainType
    BY <2>1, MainFields
  <2> QED
    BY <1>1, <1>3, <2>2, TurnValues DEF Persist
<1>4. CASE t.status # "completed" /\ t.recorded # {}
  <2>1. [main EXCEPT !.at = "commit"] \in MainType
    BY <1>1, MainFields DEF Place
  <2>2. [[main EXCEPT !.at = "commit"] EXCEPT !.next = n] \in MainType
    BY <2>1, MainFields
  <2>3. t.recorded \in SUBSET Kind
    BY TurnValues
  <2> QED
    BY <1>1, <1>4, <2>2, <2>3, MainFields DEF Persist
<1> QED
  BY <1>2, <1>3, <1>4

LEMMA SilenceTyped ==
    ASSUME TypeOK, CompleteSilently
    PROVE  turn' \in TurnType /\ main' \in MainType
<1>1. turn \in TurnType /\ main \in MainType
  BY DEF TypeOK
<1>2. Finish(Reserve(turn), "suppressed") \in TurnType
  BY <1>1, TurnOps
<1> QED
  BY <1>1, <1>2, TurnOps, MainOps DEF CompleteSilently, Place

LEMMA ReplyTyped ==
    ASSUME TypeOK, NEW n \in Resumption, CompleteReply(n)
    PROVE  turn' \in TurnType /\ main' \in MainType
BY MainOps, MainFields DEF CompleteReply, Place, TypeOK

LEMMA UnwindTyped ==
    ASSUME TypeOK, MessagesNamed, NEW t \in TurnType, NEW p \in Place, Unwind(t, p)
    PROVE  /\ turn' \in TurnType /\ main' \in MainType /\ gate' = gate
           /\ personal' \in PersonalType /\ send' \in [Tasks -> SendType]
           /\ shown' \in Seq(Kind) /\ history' \in Seq(SUBSET Kind)
<1>1. /\ turn \in TurnType /\ main \in MainType /\ personal \in PersonalType
      /\ send \in [Tasks -> SendType]
      /\ shown \in Seq(Kind) /\ history \in Seq(SUBSET Kind)
  BY DEF TypeOK
<1>2. turn' \in TurnType
  <2> DEFINE u == [t EXCEPT !.final = IF @ = "reserved" THEN "failed" ELSE @]
             v == [u EXCEPT !.flag = IF send["main"].kind = "failure" THEN FALSE ELSE @]
  <2>1. u \in TurnType
    BY TurnValues
  <2>2. \A w \in TurnType :
           [w EXCEPT !.flag = IF send["main"].kind = "failure" THEN FALSE ELSE @] \in TurnType
    BY TurnFields, TurnValues, ZenonT(40)
  <2>3. [v EXCEPT !.pending = FALSE] \in TurnType
    BY <2>1, <2>2, TurnFields
  <2>4. turn' = [v EXCEPT !.pending = FALSE]
    BY DEF Unwind
  <2> QED
    BY <2>3, <2>4
<1>3. main' \in MainType
  BY <1>1, MainOps, MainFields DEF Unwind
<1>4. personal' \in PersonalType
  BY <1>1, OthersTyped DEF Unwind
<1>5. send' \in [Tasks -> SendType]
  BY <1>1, OthersTyped DEF Unwind, KeepSend, Tasks
<1>6. shown' \in Seq(Kind)
  <2>1. send["main"].step = "wire" => send["main"].kind \in Kind
    BY <1>1, OthersTyped DEF MessagesNamed, Tasks
  <2> QED
    BY <1>1, <2>1 DEF Unwind
<1>7. history' \in Seq(SUBSET Kind)
  <2>1. main.entry \in SUBSET Kind
    BY <1>1 DEF MainType
  <2> QED
    BY <1>1, <2>1 DEF Unwind, Appended
<1> QED
  BY <1>2, <1>3, <1>4, <1>5, <1>6, <1>7 DEF Unwind

LEMMA StopTyped ==
    ASSUME TypeOK, NEW t \in Tasks, SendStops(t)
    PROVE  /\ turn' \in TurnType /\ main' \in MainType
           /\ personal' \in PersonalType /\ send' \in [Tasks -> SendType]
<1>1. /\ turn \in TurnType /\ main \in MainType /\ personal \in PersonalType
      /\ send \in [Tasks -> SendType]
  BY DEF TypeOK
<1>2. send' \in [Tasks -> SendType]
  BY <1>1, OthersTyped DEF SendStops, KeepSend
<1>3. CASE t = "main"
  <2>1. MainFails(send["main"].kind)
    BY <1>3 DEF SendStops
  <2>2. Finish(turn, "failed") \in TurnType
    BY <1>1, TurnOps
  <2>3. turn' \in TurnType
    <3>1. PICK u \in TurnType :
            turn' = [u EXCEPT !.flag = IF send["main"].kind = "failure" THEN FALSE ELSE @,
                              !.status = IF send["main"].kind = "failure" /\ @ # "completed"
                                         THEN "failed" ELSE @]
      BY <1>1, <2>1, <2>2 DEF MainFails
    <3> DEFINE v == [u EXCEPT !.flag = IF send["main"].kind = "failure" THEN FALSE ELSE @]
    <3>2. v \in TurnType
      BY TurnFields, TurnValues
    <3>3. [v EXCEPT !.status = IF send["main"].kind = "failure" /\ @ # "completed"
                               THEN "failed" ELSE @] \in TurnType
      BY <3>2, TurnValues, ZenonT(40)
    <3> QED
      BY <3>1, <3>3
  <2>4. main' \in MainType /\ personal' = personal
    BY <1>1, <2>1, MainOps DEF MainFails
  <2> QED
    BY <1>1, <1>2, <2>3, <2>4
<1>4. CASE t = "personal"
  <2>1. PersonalFails
    BY <1>4 DEF SendStops
  <2> QED
    BY <1>1, <1>2, <2>1, TurnValues, TurnFields, OthersTyped DEF PersonalFails
<1> QED
  BY <1>3, <1>4 DEF Tasks
LEMMA TypeStep == TypeOK /\ MessagesNamed /\ [Next]_vars => TypeOK'
<1> SUFFICES ASSUME TypeOK, MessagesNamed, [Next]_vars PROVE TypeOK'
  OBVIOUS
<1>0. /\ turn \in TurnType /\ main \in MainType /\ personal \in PersonalType
      /\ send \in [Tasks -> SendType] /\ gate \in Gates \cup {"open"}
      /\ shown \in Seq(Kind) /\ history \in Seq(SUBSET Kind) /\ hit \subseteq Faults
  BY DEF TypeOK
<1>1. ASSUME CommitTurn PROVE TypeOK'
  <2>1. main.entry \in SUBSET Kind
    BY <1>0 DEF MainType
  <2>2. history' \in Seq(SUBSET Kind)
    BY <1>0, <1>1, <2>1 DEF CommitTurn, Appended
  <2>3. [turn EXCEPT !.committed = TRUE] \in TurnType
    BY <1>0, TurnFields
  <2>4. main' \in MainType
    BY <1>0, <1>1, MainOps DEF CommitTurn, Place
  <2> QED
    BY <1>0, <1>1, <2>2, <2>3, <2>4, TurnOps DEF CommitTurn, TypeOK
<1>2. ASSUME Announce PROVE TypeOK'
  BY <1>0, <1>2, TurnOps, MainOps, MainFields DEF Announce, TypeOK
<1>3. ASSUME MainRecords PROVE TypeOK'
  <2> DEFINE k == send["main"].kind
  <2>1. k \in Kind
    BY <1>0, <1>3, OthersTyped DEF MainRecords, MessagesNamed, Tasks
  <2>2. Recorded(turn, k) \in TurnType
    BY <1>0, <2>1, TurnOps
  <2>3. turn' \in TurnType /\ main' \in MainType
    <3>1. CASE k = "answer"
      <4>1. Finish(Recorded(turn, k), "delivered") \in TurnType
        BY <2>2, TurnOps
      <4> QED
        BY <1>0, <1>3, <3>1, <4>1, TurnFields, MainOps DEF MainRecords, Place
    <3>2. CASE k = "raw"
      BY <1>0, <1>3, <2>2, <3>2, MainOps DEF MainRecords, Place
    <3>3. CASE k = "tool"
      BY <1>3, <2>2, <3>3, PersistTyped DEF MainRecords, Resumption
    <3>4. CASE k = "plugin"
      BY <1>3, <2>2, <3>4, PersistTyped DEF MainRecords, Resumption
    <3>5. CASE k = "failure"
      <4>1. [Recorded(turn, k) EXCEPT !.flag = FALSE] \in TurnType
        BY <2>2, TurnFields
      <4> QED
        BY <1>3, <3>5, <4>1, PersistTyped DEF MainRecords, Resumption
    <3>6. CASE k \notin {"answer", "raw", "tool", "plugin", "failure"}
      BY <1>0, <1>3, <3>6 DEF MainRecords
    <3> QED
      BY <3>1, <3>2, <3>3, <3>4, <3>5, <3>6
  <2>4. send' \in [Tasks -> SendType]
    BY <1>0, <1>3, OthersTyped DEF MainRecords, KeepSend, Tasks
  <2> QED
    BY <1>0, <1>3, <2>3, <2>4 DEF MainRecords, TypeOK
<1>4. ASSUME MainWithholds PROVE TypeOK'
  <2> DEFINE seen(b) == [turn EXCEPT !.stopped = @ \/ b]
  <2>1. PICK b \in BOOLEAN :
          /\ send["main"].kind \in {"answer", "raw", "plugin", "failure"}
          /\ KeepSend("main", NoSend)
          /\ CASE send["main"].kind = "answer" ->
                     /\ turn' = Finish(Cancelled(seen(b)), "suppressed")
                     /\ main' = Return(turn')
               [] send["main"].kind = "raw" ->
                     /\ turn' = [seen(b) EXCEPT !.withheld = TRUE]
                     /\ main' = Goto("hook")
               [] send["main"].kind = "plugin" ->
                     /\ turn' = seen(b)
                     /\ main' = Goto("trailing")
               [] OTHER ->
                     /\ turn' = [FailedUnlessCompleted(Finish(seen(b), "suppressed"))
                                   EXCEPT !.flag = FALSE, !.withheld = TRUE]
                     /\ main' = Goto("release")
          /\ UNCHANGED <<gate, personal, shown, history, hit>>
    BY <1>4 DEF MainWithholds
  <2>2. seen(b) \in TurnType
    BY <1>0 DEF TurnType
  <2> HIDE DEF seen
  <2>3. /\ Finish(Cancelled(seen(b)), "suppressed") \in TurnType
        /\ [seen(b) EXCEPT !.withheld = TRUE] \in TurnType
        /\ FailedUnlessCompleted(Finish(seen(b), "suppressed")) \in TurnType
    BY <2>2, TurnOps, TurnFields
  <2>4. [FailedUnlessCompleted(Finish(seen(b), "suppressed"))
           EXCEPT !.flag = FALSE, !.withheld = TRUE] \in TurnType
    BY <2>3, TurnFields
  <2>5. turn' \in TurnType /\ main' \in MainType
    BY <1>0, <2>1, <2>2, <2>3, <2>4, MainOps DEF Place
  <2>6. send' \in [Tasks -> SendType]
    BY <1>0, <2>1, OthersTyped DEF KeepSend, Tasks
  <2> QED
    BY <1>0, <2>1, <2>5, <2>6 DEF TypeOK
<1>5. ASSUME SuppressDuplicate PROVE TypeOK'
  <2>1. Finish(turn, "delivered") \in TurnType
    BY <1>0, TurnOps
  <2>2. turn' \in TurnType
    BY <1>5, <2>1, TurnFields DEF SuppressDuplicate
  <2> QED
    BY <1>0, <1>5, <2>2, MainOps, OthersTyped DEF SuppressDuplicate, KeepSend, TypeOK,
      Place, Tasks
<1>6. ASSUME PluginTakesTurn PROVE TypeOK'
  BY <1>0, <1>6, TurnOps, MainOps, OthersTyped DEF PluginTakesTurn, At,
    Suppressing, TypeOK, Place
<1>7. ASSUME PersonalEndsFirst PROVE TypeOK'
  BY <1>0, <1>7, MainOps DEF PersonalEndsFirst, At, Ended, TypeOK, Place
<1>8. ASSUME GatePasses PROVE TypeOK'
  BY <1>0, <1>8, MainOps DEF GatePasses, At, TypeOK, Place
<1>9. ASSUME FollowRoute PROVE TypeOK'
  BY <1>0, <1>9, SilenceTyped, ReplyTyped, MainOps DEF FollowRoute, At,
    Ended, TypeOK, Place, Resumption
<1>10. ASSUME PlanExecutes PROVE TypeOK'
  BY <1>0, <1>10, MainOps, MainFields DEF PlanExecutes, At, TypeOK, Place
<1>11. ASSUME PlanDeclines PROVE TypeOK'
  BY <1>0, <1>11, SilenceTyped, ReplyTyped DEF PlanDeclines, At, TypeOK,
    Resumption
<1>12. ASSUME VisibleCompletes PROVE TypeOK'
  BY <1>0, <1>12, PersistTyped, MainFields DEF VisibleCompletes, TypeOK
<1>13. ASSUME HookStops PROVE TypeOK'
  BY <1>0, <1>13, TurnOps, MainOps, MainFields DEF HookStops, TypeOK
<1>14. ASSUME CoreAnswers PROVE TypeOK'
  BY <1>0, <1>14, MainOps, MainFields DEF CoreAnswers, AtCore, CanStart,
    At, Idle, Busy, TypeOK, Place
<1>15. ASSUME CaptureAnswer PROVE TypeOK'
  <2>1. send' \in [Tasks -> SendType]
    BY <1>0, <1>15, OthersTyped DEF CaptureAnswer, KeepSend, Tasks, Kind, Final
  <2>2. turn' \in TurnType /\ main' \in MainType
    BY <1>0, <1>15, TurnOps, MainOps DEF CaptureAnswer, Place
  <2>3. personal' \in PersonalType
    BY <1>0, <1>15, OthersTyped DEF CaptureAnswer, Suppressing
  <2> QED
    BY <1>0, <1>15, <2>1, <2>2, <2>3 DEF CaptureAnswer, TypeOK
<1>16. ASSUME HookPasses PROVE TypeOK'
  <2>1. [turn EXCEPT !.pending = FALSE] \in TurnType
    BY <1>0, TurnFields
  <2>2. turn' \in TurnType /\ main' \in MainType
    BY <1>0, <1>16, <2>1, PersistTyped, MainOps DEF HookPasses, Resumption
  <2> QED
    BY <1>0, <1>16, <2>2 DEF HookPasses, TypeOK
<1>17. ASSUME ToolFinalizes PROVE TypeOK'
  BY <1>0, <1>17, TurnOps, MainFields, OthersTyped DEF ToolFinalizes,
    AtCore, CanStart, Reservable, Suppressing, KeepSend, At, Idle, Busy,
    TypeOK, Tasks, Kind, Final
<1>18. ASSUME ToolReports PROVE TypeOK'
  BY <1>0, <1>18, MainFields, OthersTyped DEF ToolReports, AtCore,
    CanStart, KeepSend, At, Idle, Busy, TypeOK, Tasks, Kind, Final
<1>19. ASSUME CoreEnds PROVE TypeOK'
  BY <1>0, <1>19, MainOps, MainFields DEF CoreEnds, AtCore, At, Idle,
    Busy, TypeOK, Place
<1>20. ASSUME ServeRequest PROVE TypeOK'
  BY <1>0, <1>20, MainOps, MainFields DEF ServeRequest, At, CanStart,
    TypeOK, Place
<1>21. ASSUME JobEnds PROVE TypeOK'
  BY <1>0, <1>21, MainOps DEF JobEnds, At, TypeOK, Place
<1>22. ASSUME ClaimInline PROVE TypeOK'
  BY <1>0, <1>22, TurnOps, MainOps, OthersTyped DEF ClaimInline, AtInline,
    At, Reservable, Suppressing, Idle, Busy, TypeOK, Place
<1>23. ASSUME SendArtifact PROVE TypeOK'
  BY <1>0, <1>23, MainFields, OthersTyped DEF SendArtifact, AtInline,
    CanStart, KeepSend, At, Idle, Busy, TypeOK, Tasks, Kind, Final
<1>24. ASSUME SendFinalArtifact PROVE TypeOK'
  BY <1>0, <1>24, OthersTyped DEF SendFinalArtifact, AtInline, At,
    KeepSend, Idle, Busy, TypeOK, Tasks, Kind, Final
<1>25. ASSUME InlineEnds PROVE TypeOK'
  BY <1>0, <1>25, TurnOps, MainOps DEF InlineEnds, AtInline, At, Idle,
    Busy, TypeOK, Place
<1>26. ASSUME ExpiryHandled PROVE TypeOK'
  BY <1>0, <1>26, MainOps DEF ExpiryHandled, At, TypeOK, Place
<1>27. ASSUME ExpiryReplies PROVE TypeOK'
  BY <1>0, <1>27, TurnOps, MainOps, TurnFields, TurnValues, MainFields,
    OthersTyped DEF ExpiryReplies, At, Reservable, Suppressing, KeepSend,
    TypeOK, Place, Tasks, Kind, Final
<1>28. ASSUME ExpiryIsSilent PROVE TypeOK'
  BY <1>0, <1>28, TurnOps, MainOps, OthersTyped DEF ExpiryIsSilent, At,
    Reservable, Suppressing, TypeOK, Place
<1>29. ASSUME Release PROVE TypeOK'
  BY <1>0, <1>29, TurnOps, MainOps, OthersTyped DEF Release, At, Ended,
    TypeOK, Place
<1>30. ASSUME PersonalPlans PROVE TypeOK'
  <2> DEFINE planned(r) == IF turn.persona = "pending"
                           THEN [turn EXCEPT !.route = r] ELSE turn
  <2>1. PICK r \in {"none", "silent", "persona", "hybrid"} :
          IF r \in {"persona", "hybrid"} /\ MayCommit(turn)
          THEN /\ turn' = [planned(r) EXCEPT !.persona = "committed", !.flag = TRUE]
               /\ personal' = [personal EXCEPT !.at = "sending"]
               /\ KeepSend("personal", Preparing("immediate"))
          ELSE /\ turn' = SuppressPersona(planned(r))
               /\ personal' = [personal EXCEPT !.at = "returned"]
               /\ send' = send
    BY <1>30 DEF PersonalPlans
  <2>2. planned(r) \in TurnType
    BY <1>0, TurnValues
  <2> HIDE DEF planned
  <2>3. [planned(r) EXCEPT !.persona = "committed"] \in TurnType
    BY <2>2, TurnValues
  <2>4. turn' \in TurnType
    BY <2>1, <2>2, <2>3, TurnFields, TurnOps
  <2>5. personal' \in PersonalType
    BY <1>0, <2>1, OthersTyped
  <2>6. send' \in [Tasks -> SendType]
    BY <1>0, <2>1, OthersTyped DEF KeepSend, Tasks, Kind
  <2> QED
    BY <1>0, <1>30, <2>4, <2>5, <2>6 DEF PersonalPlans, TypeOK
<1>31. ASSUME PersonalCancelled PROVE TypeOK'
  <2>1. turn' \in TurnType /\ personal' \in PersonalType
    BY <1>0, <1>31, TurnFields, TurnValues, OthersTyped DEF PersonalCancelled
  <2>2. send' \in [Tasks -> SendType]
    BY <1>0, <1>31, OthersTyped DEF PersonalCancelled, KeepSend, Tasks
  <2>3. "immediate" \in Kind
    BY DEF Kind
  <2>4. shown' \in Seq(Kind)
    BY <1>0, <1>31, <2>3, SMTT(20), ZenonT(30) DEF PersonalCancelled
  <2> QED
    BY <1>0, <1>31, <2>1, <2>2, <2>4 DEF PersonalCancelled, TypeOK
<1>32. ASSUME EmitImmediate PROVE TypeOK'
  <2>1. Recorded(turn, "immediate") \in TurnType
    BY <1>0, TurnOps DEF Kind
  <2>2. [Recorded(turn, "immediate") EXCEPT !.persona = "emitted"] \in TurnType
    BY <2>1, TurnValues
  <2>3. turn' \in TurnType
    BY <1>32, <2>2, TurnFields DEF EmitImmediate
  <2>4. send' \in [Tasks -> SendType] /\ personal' \in PersonalType
    BY <1>0, <1>32, OthersTyped DEF EmitImmediate, KeepSend, Tasks
  <2> QED
    BY <1>0, <1>32, <2>3, <2>4 DEF EmitImmediate, TypeOK
<1>33. ASSUME WithholdImmediate PROVE TypeOK'
  <2>1. PICK b \in BOOLEAN :
          turn' = [turn EXCEPT !.persona = "suppressed", !.flag = FALSE,
                               !.withheld = TRUE, !.stopped = @ \/ b]
    BY <1>33 DEF WithholdImmediate
  <2>2. turn' \in TurnType
    BY <1>0, <2>1 DEF TurnType
  <2>3. send' \in [Tasks -> SendType] /\ personal' \in PersonalType
    BY <1>0, <1>33, OthersTyped DEF WithholdImmediate, KeepSend, Tasks
  <2> QED
    BY <1>0, <1>33, <2>2, <2>3 DEF WithholdImmediate, TypeOK
<1>34. ASSUME CommitFails PROVE TypeOK'
  BY <1>0, <1>34, TurnOps, MainOps DEF CommitFails, At, Happens, TypeOK,
    Place
<1>35. ASSUME PersonalRaises PROVE TypeOK'
  BY <1>0, <1>35, OthersTyped DEF PersonalRaises, TypeOK, Place
<1>36. ASSUME PlanFails PROVE TypeOK'
  BY <1>0, <1>36, ReplyTyped, MainOps DEF PlanFails, At, TypeOK,
    Resumption
<1>37. ASSUME PlanTimesOut PROVE TypeOK'
  BY <1>0, <1>37, ReplyTyped, MainOps DEF PlanTimesOut, At, Happens,
    TypeOK, Place, Resumption
<1>38. ASSUME VisibleFails PROVE TypeOK'
  BY <1>0, <1>38, MainOps, TurnFields, TurnValues DEF VisibleFails, At,
    Happens, TypeOK
<1>39. ASSUME CoreRaises PROVE TypeOK'
  BY <1>0, <1>39, MainOps DEF CoreRaises, AtCore, At, Idle, Busy, TypeOK
<1>40. ASSUME DeadlineStrikes PROVE TypeOK'
  <2>1. Unwind(turn, "expired") /\ hit' \subseteq Faults
    BY <1>0, <1>40 DEF DeadlineStrikes, UnderDeadline, Happens
  <2> QED
    BY <1>0, <2>1, UnwindTyped DEF TypeOK, Place
<1>41. ASSUME Interrupt PROVE TypeOK'
  <2>1. Unwind(Cancelled(turn), "release") /\ hit' \subseteq Faults
    BY <1>0, <1>41 DEF Interrupt, Happens
  <2>2. Cancelled(turn) \in TurnType
    BY <1>0, TurnOps
  <2> QED
    BY <1>0, <2>1, <2>2, UnwindTyped DEF TypeOK, Place
<1>42. ASSUME GateResolves PROVE TypeOK'
  BY <1>0, <1>42 DEF GateResolves, TypeOK
<1>43. ASSUME Stopped PROVE TypeOK'
  BY <1>0, <1>43 DEF Stopped, At, Ended, vars, TypeOK
<1>44. ASSUME NEW t \in Tasks, StartWire(t) PROVE TypeOK'
  BY <1>0, <1>44, TurnFields, TurnValues, OthersTyped DEF StartWire,
    KeepSend, TypeOK, Tasks, Kind, Final
<1>45. ASSUME NEW t \in Tasks, Reach(t) PROVE TypeOK'
  <2>1. send[t].kind \in Kind
    BY <1>0, <1>45, OthersTyped DEF Reach, MessagesNamed
  <2>2. send' \in [Tasks -> SendType]
    BY <1>0, <1>45, OthersTyped DEF Reach, KeepSend
  <2> QED
    BY <1>0, <1>45, <2>1, <2>2 DEF Reach, TypeOK
<1>46. ASSUME NEW t \in Tasks, CompleteMessage(t) PROVE TypeOK'
  BY <1>0, <1>46, OthersTyped DEF CompleteMessage, KeepSend, TypeOK,
    Tasks, Kind, Final
<1>47. ASSUME NEW t \in Tasks, OutputClosed(t) PROVE TypeOK'
  BY <1>0, <1>47, StopTyped DEF OutputClosed, TypeOK
<1>48. ASSUME NEW t \in Tasks, SendFails(t) PROVE TypeOK'
  BY <1>0, <1>48, StopTyped DEF SendFails, Happens, TypeOK
<1>49. ASSUME NEW t \in Tasks, CompletionFails(t) PROVE TypeOK'
  BY <1>0, <1>49, StopTyped DEF CompletionFails, Happens, TypeOK
<1>50. CASE UNCHANGED vars
  BY <1>50 DEF vars, TypeOK
<1> QED
  BY <1>1, <1>2, <1>3, <1>4, <1>5, <1>6, <1>7, <1>8, <1>9, <1>10, <1>11,
      <1>12, <1>13, <1>14, <1>15, <1>16, <1>17, <1>18, <1>19, <1>20, <1>21,
      <1>22, <1>23, <1>24, <1>25, <1>26, <1>27, <1>28, <1>29, <1>30, <1>31,
      <1>32, <1>33, <1>34, <1>35, <1>36, <1>37, <1>38, <1>39, <1>40, <1>41,
      <1>42, <1>43, <1>44, <1>45, <1>46, <1>47, <1>48, <1>49, <1>50 DEF
      Next, PersonalStep, MainStep, Failing, Deliver, Tasks

(* What the operations of the turn state do to its final output.           *)
LEMMA FinalOfOps ==
    ASSUME NEW t \in TurnType
    PROVE  /\ Completed(t).final = t.final
           /\ Cancelled(t).final = t.final
           /\ Close(t, "turn_cleanup").final = t.final
           /\ FailedUnlessCompleted(t).final = t.final
           /\ CommitLost(t).final = t.final
           /\ SuppressPersona(t).final = t.final
           /\ StoppedByHook(t).final = t.final
           /\ \A k : Recorded(t, k).final = t.final
           /\ Reserve(t).final = "reserved"
           /\ \A o \in {"delivered", "suppressed", "failed"} : Finish(t, o).final = o
           /\ \A n : \/ Settled(t, n).final = t.final
                     \/ t.final = "reserved" /\ Settled(t, n).final = "delivered"
<1>1. /\ Close(t, "turn_cleanup").final = t.final
      /\ Completed(t).final = t.final
      /\ Cancelled(t).final = t.final
  BY DEF Completed, Cancelled, Close, TurnType
<1>2. /\ FailedUnlessCompleted(t).final = t.final
      /\ CommitLost(t).final = t.final
      /\ SuppressPersona(t).final = t.final
      /\ \A k : Recorded(t, k).final = t.final
  BY DEF FailedUnlessCompleted, CommitLost, SuppressPersona, Recorded, TurnType
<1>3. \A o \in {"delivered", "suppressed", "failed"} : Finish(t, o).final = o
  BY DEF Finish, TurnType
<1>4. \A n : \/ Settled(t, n).final = t.final
             \/ t.final = "reserved" /\ Settled(t, n).final = "delivered"
  <2> TAKE n
  <2>1. \/ t.final = "reserved" /\ Settled(t, n) = Finish(t, "delivered")
        \/ Settled(t, n) = t
    BY DEF Settled
  <2> QED
    BY <1>3, <2>1
<1>5. Cancelled(t) \in TurnType /\ SuppressPersona(t) \in TurnType
  BY TurnOps
<1>6. Reserve(t).final = "reserved"
  BY <1>5 DEF Reserve, TurnType
<1>7. StoppedByHook(t).final = t.final
  BY <1>1, <1>5 DEF StoppedByHook, TurnType
<1> QED
  BY <1>1, <1>2, <1>3, <1>4, <1>6, <1>7

LEMMA FinalOfFields ==
    ASSUME NEW t \in TurnType
    PROVE  /\ \A v : [t EXCEPT !.persona = v].final = t.final
           /\ \A v : [t EXCEPT !.status = v].final = t.final
           /\ \A v : [t EXCEPT !.route = v].final = t.final
           /\ \A b \in BOOLEAN : [t EXCEPT !.flag = b].final = t.final
           /\ \A b \in BOOLEAN : [t EXCEPT !.replied = b].final = t.final
           /\ \A b \in BOOLEAN : [t EXCEPT !.withheld = b].final = t.final
           /\ \A b \in BOOLEAN : [t EXCEPT !.stopped = b].final = t.final
           /\ \A b \in BOOLEAN : [t EXCEPT !.pending = b].final = t.final
           /\ \A b \in BOOLEAN : [t EXCEPT !.committed = b].final = t.final
BY DEF TurnType

(* Where the main task goes.                                               *)
LEMMA PlaceOfMain ==
    ASSUME main \in MainType
    PROVE  /\ \A p : Goto(p).at = p
           /\ Raise.at = "release"
           /\ \A t : Return(t).at \in {"core", "release"}
           /\ \A t, n : Resume(t, n).at \in {"core", "trailing", "expired", "release"}
BY DEF Goto, Raise, Return, Resume, MainType

LEMMA PlaceOfFields ==
    ASSUME NEW m \in MainType
    PROVE  /\ \A v : [m EXCEPT !.next = v].at = m.at
           /\ \A v : [m EXCEPT !.head = v].at = m.at
           /\ \A v : [m EXCEPT !.advancing = v].at = m.at
           /\ \A v : [m EXCEPT !.at = v].at = v
           /\ Count(m).at = m.at
BY DEF Count, MainType

FinalShown == \E i \in DOMAIN shown : shown[i] \in Final

(* Where the main task waits while its message is on the way.              *)
SendPlace ==
    /\ send["main"].kind # "immediate"
    /\ send["main"].kind \in {"answer", "raw"} => At({"respond"})
    /\ send["main"].kind = "tool" => At({"core"})
    /\ send["main"].kind = "plugin" => At({"owned"})
    /\ send["main"].kind = "failure" => At({"failing"})
    /\ send["main"].kind = "side" => At({"core", "inline", "owned", "trailing"})

(* A free final output has not been used.                                  *)
FreeIsUnused ==
    turn.final = "pending" => ~FinalShown /\ send["main"].kind \notin Final

(* A final message that has not reached the platform holds the reservation *)
(* and is the first one; so is the one the plugin's delivery will send.    *)
Coming ==
    \/ send["main"].kind \in Final /\ send["main"].step \in {"preparing", "wire"}
    \/ At({"owned"}) /\ send["main"].kind # "plugin"

ComingIsFirst == Coming => turn.final = "reserved" /\ ~FinalShown

FinalInv == MessagesNamed /\ SendPlace /\ FreeIsUnused /\ ComingIsFirst /\ FinalOnce

(* A step that neither sends nor ends a message of the main task, and does *)
(* not free the final output, keeps the invariant.                         *)
LEMMA MoveKeeps ==
    ASSUME TypeOK, FinalInv, send["main"].kind = "none", send' = send, shown' = shown,
           turn'.final = "pending" => turn.final = "pending", main'.at # "owned"
    PROVE  FinalInv'
BY DEF FinalInv, MessagesNamed, SendPlace, FreeIsUnused, ComingIsFirst, Coming, FinalOnce,
  FinalShown, At, Final

(* So does one that ends its message, shown or not.                        *)
LEMMA EndKeeps ==
    ASSUME TypeOK, FinalInv, KeepSend("main", NoSend),
           shown' = shown \/ (/\ send["main"].step = "wire"
                              /\ shown' = Append(shown, send["main"].kind)),
           turn'.final = "pending" => turn.final = "pending",
           \/ main'.at # "owned"
           \/ /\ send["main"].kind \notin Final /\ main'.at = main.at
              /\ turn'.final = turn.final /\ shown' = shown
    PROVE  FinalInv'
<1>1. /\ send \in [Tasks -> SendType] /\ shown \in Seq(Kind)
  BY DEF TypeOK
<1>2. /\ send'["main"] = NoSend /\ send'["personal"] = send["personal"]
      /\ NoSend.kind = "none" /\ NoSend.step = "none"
  BY <1>1 DEF KeepSend, NoSend, Tasks
<1>3. MessagesNamed' /\ SendPlace'
  BY <1>1, <1>2 DEF FinalInv, MessagesNamed, SendPlace, Tasks
<1>4. CASE shown' = shown
  BY <1>2, <1>3, <1>4 DEF FinalInv, FreeIsUnused, ComingIsFirst, Coming, FinalOnce, FinalShown, At, Final
<1>5. CASE send["main"].step = "wire" /\ shown' = Append(shown, send["main"].kind)
  <2>1. \A i \in DOMAIN shown' :
           \/ i \in DOMAIN shown /\ shown'[i] = shown[i]
           \/ i = Len(shown) + 1 /\ shown'[i] = send["main"].kind
    BY <1>1, <1>5
  <2>2. CASE send["main"].kind \in Final
    BY <1>1, <1>2, <1>3, <1>5, <2>1, <2>2
      DEF FinalInv, FreeIsUnused, ComingIsFirst, Coming, FinalOnce, FinalShown, At
  <2>3. CASE send["main"].kind \notin Final
    BY <1>1, <1>2, <1>3, <1>5, <2>1, <2>3
      DEF FinalInv, FreeIsUnused, ComingIsFirst, Coming, FinalOnce, FinalShown, At, Final
  <2> QED
    BY <2>2, <2>3
<1> QED
  BY <1>4, <1>5

(* The Personal task does not touch the final output.                      *)
LEMMA PersonalKeeps ==
    ASSUME TypeOK, FinalInv, MessagesNamed', main'.at = main.at,
           send'["main"] = send["main"], turn'.final = turn.final,
           shown' = shown \/ shown' = Append(shown, "immediate")
    PROVE  FinalInv'
<1>1. shown \in Seq(Kind) /\ "immediate" \in Kind
  BY DEF TypeOK, Kind
<1>2. FinalShown' <=> FinalShown
  <2>1. CASE shown' = shown
    BY <2>1 DEF FinalShown
  <2>2. CASE shown' = Append(shown, "immediate")
    BY <1>1, <2>2, SMTT(20), ZenonT(30) DEF FinalShown, Final
  <2> QED
    BY <2>1, <2>2
<1>3. FinalOnce'
  <2>1. CASE shown' = shown
    BY <2>1 DEF FinalInv, FinalOnce
  <2>2. CASE shown' = Append(shown, "immediate")
    BY <1>1, <2>2 DEF FinalInv, FinalOnce, Final
  <2> QED
    BY <2>1, <2>2
<1> QED
  BY <1>2, <1>3 DEF FinalInv, SendPlace, FreeIsUnused, ComingIsFirst, Coming, At

(* Away from these places the main task has no message on the way.         *)
LEMMA IdleAt ==
    ASSUME TypeOK, FinalInv,
           main.at \notin {"respond", "core", "owned", "failing", "inline", "trailing"}
    PROVE  send["main"].kind = "none"
<1>1. send["main"].kind \in Kind \cup {"none"}
  BY DEF TypeOK, SendType, Tasks
<1> QED
  BY <1>1 DEF FinalInv, SendPlace, At, Kind, Final

(* Persisting frees nothing and does not lead to the plugin's final.       *)
LEMMA PersistMoves ==
    ASSUME TypeOK, NEW t \in TurnType, NEW n, Persist(t, n)
    PROVE  /\ turn'.final = "pending" => t.final = "pending"
           /\ main'.at \in {"core", "trailing", "expired", "release", "announce", "commit"}
<1>1. main \in MainType
  BY DEF TypeOK
<1>2. CASE t.status = "completed"
  BY <1>1, <1>2, FinalOfOps, PlaceOfMain DEF Persist
<1>3. CASE t.status # "completed" /\ t.recorded = {}
  <2>1. main'.at = "announce"
    BY <1>1, <1>3 DEF Persist, MainType
  <2>2. turn' = [t EXCEPT !.status = "failed"]
    BY <1>3 DEF Persist
  <2> QED
    BY <2>1, <2>2, FinalOfFields
<1>4. CASE t.status # "completed" /\ t.recorded # {}
  BY <1>1, <1>4 DEF Persist, MainType
<1> QED
  BY <1>2, <1>3, <1>4

LEMMA SilenceMoves ==
    ASSUME TypeOK, CompleteSilently
    PROVE  turn'.final # "pending" \/ turn'.final = turn.final
<1>1. turn \in TurnType /\ Reserve(turn) \in TurnType
  BY TurnOps DEF TypeOK
<1>2. Finish(Reserve(turn), "suppressed") \in TurnType
  BY <1>1, TurnOps
<1> QED
  BY <1>1, <1>2, FinalOfOps DEF CompleteSilently

(* A message of the main task that cannot be delivered.                    *)
LEMMA FailMoves ==
    ASSUME TypeOK, NEW k, MainFails(k)
    PROVE  /\ turn'.final = "pending" => turn.final = "pending"
           /\ \/ main'.at \in {"core", "release"}
              \/ At({"core"}) /\ main' = main
<1>1. turn \in TurnType /\ main \in MainType
  BY DEF TypeOK
<1>2. Finish(turn, "failed") \in TurnType /\ Finish(turn, "failed").final = "failed"
  BY <1>1, TurnOps, FinalOfOps
<1>3. turn'.final \in {turn.final, "failed"}
  BY <1>1, <1>2 DEF MainFails, TurnType
<1> QED
  BY <1>1, <1>3, PlaceOfMain DEF MainFails

LEMMA UnwindKeeps ==
    ASSUME TypeOK, FinalInv, NEW t \in TurnType, t.final = turn.final,
           NEW p \in {"expired", "release"}, Unwind(t, p)
    PROVE  FinalInv'
<1>1. main \in MainType /\ send \in [Tasks -> SendType]
  BY DEF TypeOK
<1>2. turn'.final = "pending" => turn.final = "pending"
  BY DEF Unwind, TurnType
<1>3. main'.at # "owned"
  BY <1>1 DEF Unwind, Goto, MainType
<1>4. shown' = shown \/ (send["main"].step = "wire" /\ shown' = Append(shown, send["main"].kind))
  BY DEF Unwind
<1>5. KeepSend("main", NoSend)
  BY DEF Unwind
<1> QED
  BY <1>2, <1>3, <1>4, <1>5, EndKeeps

LEMMA FinalStep == TypeOK /\ FinalInv /\ [Next]_vars => FinalInv'
<1> SUFFICES ASSUME TypeOK, FinalInv, [Next]_vars PROVE FinalInv'
  OBVIOUS
<1>0. /\ turn \in TurnType /\ main \in MainType /\ personal \in PersonalType
      /\ send \in [Tasks -> SendType] /\ shown \in Seq(Kind)
  BY DEF TypeOK
<1>1. ASSUME CommitTurn PROVE FinalInv'
  <2> DEFINE u == [turn EXCEPT !.committed = TRUE]
  <2>1. turn' = Completed(u)
    BY <1>1 DEF CommitTurn
  <2>2. u \in TurnType /\ u.final = turn.final
    BY <1>0 DEF TurnType
  <2> HIDE DEF u
  <2>3. turn'.final = turn.final
    BY <2>1, <2>2, FinalOfOps
  <2> QED
    BY <1>0, <1>1, <2>3, PlaceOfMain, IdleAt, MoveKeeps DEF CommitTurn, At
<1>2. ASSUME Announce PROVE FinalInv'
  BY <1>0, <1>2, FinalOfOps, PlaceOfMain, IdleAt, MoveKeeps DEF Announce, At
<1>3. ASSUME MainRecords PROVE FinalInv'
  <2> DEFINE k == send["main"].kind
  <2>1. Recorded(turn, k) \in TurnType
    BY <1>0, <1>3, OthersTyped, TurnOps DEF MainRecords, FinalInv, MessagesNamed, Tasks
  <2>2. /\ turn'.final = "pending" => turn.final = "pending"
        /\ \/ main'.at # "owned"
           \/ k \notin Final /\ main'.at = main.at /\ turn'.final = turn.final
    <3>1. CASE k = "answer"
      <4> DEFINE u == Finish(Recorded(turn, k), "delivered")
      <4>1. turn' = [u EXCEPT !.pending = turn.status # "completed"]
        BY <1>3, <3>1 DEF MainRecords
      <4>2. u \in TurnType /\ u.final = "delivered"
        BY <2>1, TurnOps, FinalOfOps
      <4> HIDE DEF u
      <4>3. turn'.final = "delivered"
        BY <4>1, <4>2 DEF TurnType
      <4> QED
        BY <1>0, <1>3, <3>1, <4>3, PlaceOfMain DEF MainRecords
    <3>2. CASE k = "raw"
      BY <1>0, <1>3, <3>2, FinalOfOps, PlaceOfMain DEF MainRecords
    <3>3. CASE k \in {"tool", "plugin", "failure"}
      <4>1. PICK u \in TurnType : u = Recorded(turn, k) /\ u.final = turn.final
        BY <1>0, <2>1, FinalOfOps
      <4>2. [u EXCEPT !.flag = FALSE] \in TurnType /\ [u EXCEPT !.flag = FALSE].final = u.final
        BY DEF TurnType
      <4>3. \E n \in Resumption : Persist(u, n) \/ Persist([u EXCEPT !.flag = FALSE], n)
        BY <1>3, <3>3, <4>1 DEF MainRecords, Resumption
      <4> QED
        BY <4>1, <4>2, <4>3, PersistMoves
    <3>4. CASE k \notin {"answer", "raw", "tool", "plugin", "failure"}
      BY <1>3, <3>4 DEF MainRecords, Final
    <3> QED
      BY <3>1, <3>2, <3>3, <3>4
  <2> QED
    BY <1>3, <2>2, EndKeeps DEF MainRecords
<1>4. ASSUME MainWithholds PROVE FinalInv'
  <2> DEFINE seen(b) == [turn EXCEPT !.stopped = @ \/ b]
  <2>1. PICK b \in BOOLEAN :
          /\ send["main"].kind \in {"answer", "raw", "plugin", "failure"}
          /\ KeepSend("main", NoSend)
          /\ CASE send["main"].kind = "answer" ->
                     /\ turn' = Finish(Cancelled(seen(b)), "suppressed")
                     /\ main' = Return(turn')
               [] send["main"].kind = "raw" ->
                     /\ turn' = [seen(b) EXCEPT !.withheld = TRUE]
                     /\ main' = Goto("hook")
               [] send["main"].kind = "plugin" ->
                     /\ turn' = seen(b)
                     /\ main' = Goto("trailing")
               [] OTHER ->
                     /\ turn' = [FailedUnlessCompleted(Finish(seen(b), "suppressed"))
                                   EXCEPT !.flag = FALSE, !.withheld = TRUE]
                     /\ main' = Goto("release")
          /\ UNCHANGED <<gate, personal, shown, history, hit>>
    BY <1>4 DEF MainWithholds
  <2>2. seen(b) \in TurnType /\ seen(b).final = turn.final
    BY <1>0 DEF TurnType
  <2> HIDE DEF seen
  <2>3. /\ Cancelled(seen(b)) \in TurnType
        /\ Finish(seen(b), "suppressed") \in TurnType
        /\ FailedUnlessCompleted(Finish(seen(b), "suppressed")) \in TurnType
    BY <2>2, TurnOps
  <2>4. /\ [FailedUnlessCompleted(Finish(seen(b), "suppressed"))
              EXCEPT !.flag = FALSE, !.withheld = TRUE].final = "suppressed"
        /\ [seen(b) EXCEPT !.withheld = TRUE].final = turn.final
        /\ Finish(Cancelled(seen(b)), "suppressed").final = "suppressed"
    BY <2>2, <2>3, FinalOfOps DEF TurnType
  <2>5. turn'.final \in {turn.final, "suppressed"}
    BY <2>1, <2>2, <2>4
  <2>6. main'.at # "owned"
    BY <1>0, <2>1, PlaceOfMain
  <2> QED
    BY <2>1, <2>5, <2>6, EndKeeps
<1>5. ASSUME SuppressDuplicate PROVE FinalInv'
  <2>1. Finish(turn, "delivered") \in TurnType
    BY <1>0, TurnOps
  <2>2. turn'.final = "delivered"
    BY <1>0, <1>5, <2>1, FinalOfOps, FinalOfFields DEF SuppressDuplicate
  <2> QED
    BY <1>0, <1>5, <2>2, PlaceOfMain, EndKeeps DEF SuppressDuplicate
<1>6. ASSUME PluginTakesTurn PROVE FinalInv'
  <2>1. main'.at # "owned"
    BY <1>0, <1>6, PlaceOfMain DEF PluginTakesTurn
  <2> QED
    BY <1>0, <1>6, <2>1, FinalOfOps, IdleAt, MoveKeeps DEF PluginTakesTurn, At
<1>7. ASSUME PersonalEndsFirst PROVE FinalInv'
  BY <1>0, <1>7, PlaceOfMain, IdleAt, MoveKeeps DEF PersonalEndsFirst, At
<1>8. ASSUME GatePasses PROVE FinalInv'
  BY <1>0, <1>8, PlaceOfMain, IdleAt, MoveKeeps DEF GatePasses, At
<1>9. ASSUME FollowRoute PROVE FinalInv'
  <2>1. main'.at # "owned"
    BY <1>0, <1>9, PlaceOfMain DEF FollowRoute, CompleteReply, CompleteSilently, MainType, Goto
  <2>2. turn'.final = "pending" => turn.final = "pending"
    BY <1>9, SilenceMoves DEF FollowRoute, CompleteReply
  <2> QED
    BY <1>9, <2>1, <2>2, IdleAt, MoveKeeps DEF FollowRoute, At
<1>10. ASSUME PlanExecutes PROVE FinalInv'
  <2>1. main'.at # "owned"
    BY <1>0, <1>10, PlaceOfMain DEF PlanExecutes, MainType, Goto
  <2> QED
    BY <1>10, <2>1, IdleAt, MoveKeeps DEF PlanExecutes, At
<1>11. ASSUME PlanDeclines PROVE FinalInv'
  <2>1. main'.at # "owned"
    BY <1>0, <1>11, PlaceOfMain DEF PlanDeclines, CompleteReply, CompleteSilently, MainType, Goto
  <2>2. turn'.final = "pending" => turn.final = "pending"
    BY <1>11, SilenceMoves DEF PlanDeclines, CompleteReply
  <2> QED
    BY <1>11, <2>1, <2>2, IdleAt, MoveKeeps DEF PlanDeclines, At
<1>12. ASSUME VisibleCompletes PROVE FinalInv'
  BY <1>0, <1>12, PersistMoves, IdleAt, MoveKeeps DEF VisibleCompletes, At
<1>13. ASSUME HookStops PROVE FinalInv'
  <2>1. main'.at # "owned"
    BY <1>0, <1>13, PlaceOfMain DEF HookStops
  <2> QED
    BY <1>0, <1>13, <2>1, FinalOfOps, IdleAt, MoveKeeps DEF HookStops, At
<1>14. ASSUME CoreAnswers PROVE FinalInv'
  <2>1. main'.at \in {"release", "respond"}
    BY <1>0, <1>14, PlaceOfMain DEF CoreAnswers, Count, Goto, MainType
  <2> QED
    BY <1>14, <2>1, MoveKeeps DEF CoreAnswers, AtCore, Idle, Busy, NoSend
<1>15. ASSUME CaptureAnswer PROVE FinalInv'
  <2>1. send["main"].kind = "none"
    BY <1>15 DEF CaptureAnswer, Idle, Busy, NoSend
  <2>2. CASE KeepSend("main", Preparing("raw")) /\ UNCHANGED <<turn, main>>
    BY <1>0, <1>15, <2>1, <2>2 DEF CaptureAnswer, KeepSend, Preparing, FinalInv, MessagesNamed,
      SendPlace, FreeIsUnused, ComingIsFirst, Coming, FinalOnce, FinalShown, At, Final, Tasks
  <2>3. CASE /\ Reservable(turn) /\ KeepSend("main", Preparing("answer"))
             /\ turn' = Reserve(turn) /\ main' = main
    <3>1. turn'.final = "reserved"
      BY <1>0, <2>3, FinalOfOps
    <3> QED
      BY <1>0, <1>15, <2>1, <2>3, <3>1 DEF CaptureAnswer, KeepSend, Preparing, FinalInv,
        MessagesNamed, SendPlace, FreeIsUnused, ComingIsFirst, Coming, FinalOnce, FinalShown, At, Final,
        Tasks, Reservable
  <2>4. CASE main' = Goto("hook") /\ UNCHANGED <<turn, send>>
    BY <1>0, <1>15, <2>1, <2>4, PlaceOfMain, MoveKeeps DEF CaptureAnswer
  <2> QED
    BY <1>15, <2>2, <2>3, <2>4 DEF CaptureAnswer
<1>16. ASSUME HookPasses PROVE FinalInv'
  <2>1. [turn EXCEPT !.pending = FALSE] \in TurnType
    BY <1>0, TurnFields
  <2>2. /\ turn'.final = "pending" => turn.final = "pending"
        /\ main'.at # "owned"
    BY <1>0, <1>16, <2>1, PersistMoves, FinalOfFields, PlaceOfMain DEF HookPasses
  <2> QED
    BY <1>16, <2>2, IdleAt, MoveKeeps DEF HookPasses, At
<1>17. ASSUME ToolFinalizes PROVE FinalInv'
  <2>1. turn'.final = "reserved" /\ main'.at = main.at
    BY <1>0, <1>17, FinalOfOps, PlaceOfFields DEF ToolFinalizes
  <2> QED
    BY <1>0, <1>17, <2>1 DEF ToolFinalizes, AtCore, Idle, Busy, NoSend, Reservable, KeepSend,
      Preparing, FinalInv, MessagesNamed, SendPlace, FreeIsUnused, ComingIsFirst, Coming, FinalOnce,
      FinalShown, At, Final, Tasks
<1>18. ASSUME ToolReports PROVE FinalInv'
  <2>1. main'.at = main.at
    BY <1>0, <1>18, PlaceOfFields DEF ToolReports
  <2> QED
    BY <1>0, <1>18, <2>1 DEF ToolReports, AtCore, Idle, Busy, NoSend, KeepSend, Preparing,
      FinalInv, MessagesNamed, SendPlace, FreeIsUnused, ComingIsFirst, Coming, FinalOnce, FinalShown,
      At, Final, Tasks
<1>19. ASSUME CoreEnds PROVE FinalInv'
  <2>1. main'.at # "owned"
    BY <1>0, <1>19, PlaceOfMain DEF CoreEnds, Goto, MainType
  <2> QED
    BY <1>19, <2>1, MoveKeeps DEF CoreEnds, AtCore, Idle, Busy, NoSend
<1>20. ASSUME ServeRequest PROVE FinalInv'
  <2>1. main'.at # "owned"
    BY <1>0, <1>20 DEF ServeRequest, Count, Goto, MainType
  <2> QED
    BY <1>20, <2>1, IdleAt, MoveKeeps DEF ServeRequest, At
<1>21. ASSUME JobEnds PROVE FinalInv'
  BY <1>0, <1>21, PlaceOfMain, IdleAt, MoveKeeps DEF JobEnds, At
<1>22. ASSUME ClaimInline PROVE FinalInv'
  <2>1. turn'.final = "reserved" /\ main'.at = "owned"
    BY <1>0, <1>22, FinalOfOps, PlaceOfMain DEF ClaimInline
  <2> QED
    BY <1>0, <1>22, <2>1 DEF ClaimInline, AtInline, Idle, Busy, NoSend, Reservable,
      FinalInv, MessagesNamed, SendPlace, FreeIsUnused, ComingIsFirst, Coming, FinalOnce, FinalShown,
      At, Final, Tasks
<1>23. ASSUME SendArtifact PROVE FinalInv'
  <2>1. main'.at = main.at
    BY <1>0, <1>23, PlaceOfFields DEF SendArtifact
  <2> QED
    BY <1>0, <1>23, <2>1 DEF SendArtifact, AtInline, Idle, Busy, NoSend, KeepSend, Preparing,
      FinalInv, MessagesNamed, SendPlace, FreeIsUnused, ComingIsFirst, Coming, FinalOnce, FinalShown,
      At, Final, Tasks
<1>24. ASSUME SendFinalArtifact PROVE FinalInv'
  BY <1>0, <1>24 DEF SendFinalArtifact, AtInline, Idle, Busy, NoSend, KeepSend, Preparing,
    FinalInv, MessagesNamed, SendPlace, FreeIsUnused, ComingIsFirst, Coming, FinalOnce, FinalShown,
    At, Final, Tasks
<1>25. ASSUME InlineEnds PROVE FinalInv'
  <2>1. turn'.final # "pending" \/ turn'.final = turn.final
    BY <1>0, <1>25, FinalOfOps DEF InlineEnds
  <2> QED
    BY <1>0, <1>25, <2>1, PlaceOfMain, MoveKeeps DEF InlineEnds, AtInline, Idle, Busy, NoSend
<1>26. ASSUME ExpiryHandled PROVE FinalInv'
  BY <1>0, <1>26, PlaceOfMain, IdleAt, MoveKeeps DEF ExpiryHandled, At
<1>27. ASSUME ExpiryReplies PROVE FinalInv'
  <2>1. turn'.final = "reserved" /\ main'.at = "failing"
    <3> DEFINE u == Reserve(turn)
    <3>1. turn' = [u EXCEPT !.flag = TRUE]
      BY <1>27 DEF ExpiryReplies
    <3>2. u \in TurnType /\ u.final = "reserved"
      BY <1>0, TurnOps, FinalOfOps
    <3> HIDE DEF u
    <3>3. turn'.final = "reserved"
      BY <3>1, <3>2 DEF TurnType
    <3> QED
      BY <1>0, <1>27, <3>3 DEF ExpiryReplies, Goto, MainType
  <2>2. send["main"].kind = "none"
    BY <1>27, IdleAt DEF ExpiryReplies, At
  <2> QED
    BY <1>0, <1>27, <2>1, <2>2 DEF ExpiryReplies, Reservable, KeepSend, Preparing,
      FinalInv, MessagesNamed, SendPlace, FreeIsUnused, ComingIsFirst, Coming, FinalOnce, FinalShown,
      At, Final, Tasks
<1>28. ASSUME ExpiryIsSilent PROVE FinalInv'
  <2>1. Reserve(turn) \in TurnType /\ Finish(Reserve(turn), "suppressed") \in TurnType
    BY <1>0, TurnOps
  <2>2. turn'.final # "pending" \/ turn'.final = turn.final
    BY <1>0, <1>28, <2>1, FinalOfOps DEF ExpiryIsSilent
  <2> QED
    BY <1>0, <1>28, <2>2, PlaceOfMain, IdleAt, MoveKeeps DEF ExpiryIsSilent, At
<1>29. ASSUME Release PROVE FinalInv'
  <2>1. turn'.final = turn.final /\ main'.at = "done"
    BY <1>0, <1>29, FinalOfOps, PlaceOfMain DEF Release
  <2> QED
    BY <1>29, <2>1, IdleAt, MoveKeeps DEF Release, At
<1>30. ASSUME PersonalPlans PROVE FinalInv'
  <2> DEFINE planned(r) == IF turn.persona = "pending"
                           THEN [turn EXCEPT !.route = r] ELSE turn
  <2>1. PICK r \in {"none", "silent", "persona", "hybrid"} :
          IF r \in {"persona", "hybrid"} /\ MayCommit(turn)
          THEN /\ turn' = [planned(r) EXCEPT !.persona = "committed", !.flag = TRUE]
               /\ personal' = [personal EXCEPT !.at = "sending"]
               /\ KeepSend("personal", Preparing("immediate"))
          ELSE /\ turn' = SuppressPersona(planned(r))
               /\ personal' = [personal EXCEPT !.at = "returned"]
               /\ send' = send
    BY <1>30 DEF PersonalPlans
  <2>2. planned(r) \in TurnType /\ planned(r).final = turn.final
    BY <1>0, TurnValues, FinalOfFields
  <2> HIDE DEF planned
  <2>3. [planned(r) EXCEPT !.persona = "committed"] \in TurnType
    BY <2>2, TurnValues
  <2>4. turn'.final = turn.final
    <3>1. [planned(r) EXCEPT !.persona = "committed", !.flag = TRUE].final = turn.final
      BY <2>2 DEF TurnType
    <3>2. SuppressPersona(planned(r)).final = turn.final
      BY <2>2, FinalOfOps
    <3> QED
      BY <2>1, <3>1, <3>2
  <2>5. MessagesNamed' /\ send'["main"] = send["main"]
    BY <1>0, <2>1 DEF KeepSend, Preparing, FinalInv, MessagesNamed, Tasks
  <2> QED
    BY <1>30, <2>4, <2>5, PersonalKeeps DEF PersonalPlans
<1>31. ASSUME PersonalCancelled PROVE FinalInv'
  <2>1. turn'.final = turn.final
    BY <1>0, <1>31, FinalOfFields DEF PersonalCancelled
  <2>2. MessagesNamed' /\ send'["main"] = send["main"]
    BY <1>0, <1>31 DEF PersonalCancelled, KeepSend, NoSend, FinalInv, MessagesNamed, Tasks
  <2> QED
    BY <1>31, <2>1, <2>2, PersonalKeeps DEF PersonalCancelled
<1>32. ASSUME EmitImmediate PROVE FinalInv'
  <2>1. Recorded(turn, "immediate") \in TurnType
    BY <1>0, TurnOps DEF Kind
  <2>2. [Recorded(turn, "immediate") EXCEPT !.persona = "emitted"] \in TurnType
    BY <2>1, TurnValues
  <2>3. turn'.final = turn.final
    BY <1>0, <1>32, <2>1, <2>2, FinalOfOps, FinalOfFields DEF EmitImmediate
  <2>4. MessagesNamed' /\ send'["main"] = send["main"]
    BY <1>0, <1>32 DEF EmitImmediate, KeepSend, NoSend, FinalInv, MessagesNamed, Tasks
  <2> QED
    BY <1>32, <2>3, <2>4, PersonalKeeps DEF EmitImmediate
<1>33. ASSUME WithholdImmediate PROVE FinalInv'
  <2>1. turn'.final = turn.final
    BY <1>0, <1>33 DEF WithholdImmediate, TurnType
  <2>2. MessagesNamed' /\ send'["main"] = send["main"]
    BY <1>0, <1>33 DEF WithholdImmediate, KeepSend, NoSend, FinalInv, MessagesNamed, Tasks
  <2> QED
    BY <1>33, <2>1, <2>2, PersonalKeeps DEF WithholdImmediate
<1>34. ASSUME CommitFails PROVE FinalInv'
  BY <1>0, <1>34, FinalOfOps, PlaceOfMain, IdleAt, MoveKeeps DEF CommitFails, At
<1>35. ASSUME PersonalRaises PROVE FinalInv'
  BY <1>35, PersonalKeeps DEF PersonalRaises, FinalInv, MessagesNamed
<1>36. ASSUME PlanFails PROVE FinalInv'
  <2>1. main'.at # "owned"
    BY <1>0, <1>36, PlaceOfMain DEF PlanFails, CompleteReply, Goto, MainType
  <2> QED
    BY <1>36, <2>1, IdleAt, MoveKeeps DEF PlanFails, CompleteReply, At
<1>37. ASSUME PlanTimesOut PROVE FinalInv'
  <2>1. main'.at # "owned"
    BY <1>0, <1>37, PlaceOfMain DEF PlanTimesOut, CompleteReply, Goto, MainType
  <2> QED
    BY <1>37, <2>1, IdleAt, MoveKeeps DEF PlanTimesOut, CompleteReply, At
<1>38. ASSUME VisibleFails PROVE FinalInv'
  <2>1. turn'.final = turn.final
    BY <1>0, <1>38, FinalOfFields DEF VisibleFails
  <2> QED
    BY <1>0, <1>38, <2>1, PlaceOfMain, IdleAt, MoveKeeps DEF VisibleFails, At
<1>39. ASSUME CoreRaises PROVE FinalInv'
  BY <1>0, <1>39, PlaceOfMain, MoveKeeps DEF CoreRaises, AtCore, Idle, Busy, NoSend
<1>40. ASSUME DeadlineStrikes PROVE FinalInv'
  BY <1>0, <1>40, UnwindKeeps DEF DeadlineStrikes, UnderDeadline
<1>41. ASSUME Interrupt PROVE FinalInv'
  BY <1>0, <1>41, TurnOps, FinalOfOps, UnwindKeeps DEF Interrupt
<1>42. ASSUME GateResolves PROVE FinalInv'
  BY <1>42, PersonalKeeps DEF GateResolves, FinalInv, MessagesNamed
<1>43. ASSUME NEW t \in Tasks, StartWire(t) PROVE FinalInv'
  <2>1. turn'.final = turn.final
    BY <1>0, <1>43, FinalOfFields DEF StartWire
  <2> QED
    BY <1>0, <1>43, <2>1 DEF StartWire, KeepSend, SendType, FinalInv, MessagesNamed, SendPlace,
      FreeIsUnused, ComingIsFirst, Coming, FinalOnce, FinalShown, At, Final, Tasks
<1>44. ASSUME NEW t \in Tasks, Reach(t) PROVE FinalInv'
  <2>1. send'[t].kind = send[t].kind /\ send'[t].step = "shown"
    BY <1>0, <1>44 DEF Reach, KeepSend, SendType
  <2>2. CASE t = "main"
    <3>1. \A i \in DOMAIN shown' :
             \/ i \in DOMAIN shown /\ shown'[i] = shown[i]
             \/ i = Len(shown) + 1 /\ shown'[i] = send["main"].kind
      BY <1>0, <1>44, <2>2 DEF Reach
    <3>2. MessagesNamed' /\ SendPlace'
      BY <1>0, <1>44, <2>1, <2>2 DEF Reach, KeepSend, FinalInv, MessagesNamed, SendPlace, At, Tasks
    <3>3. CASE send["main"].kind \in Final
      <4>1. turn.final = "reserved" /\ ~FinalShown
        BY <1>44, <2>2, <3>3 DEF Reach, FinalInv, ComingIsFirst, Coming
      <4>2. main.at = "owned" => send["main"].kind = "plugin"
        BY <3>3 DEF FinalInv, SendPlace, At, Final
      <4>3. FinalOnce'
        BY <3>1, <4>1 DEF FinalOnce, FinalShown
      <4> QED
        BY <1>44, <2>1, <2>2, <3>2, <4>1, <4>2, <4>3 DEF Reach, FinalInv, FreeIsUnused,
          ComingIsFirst, Coming, At
    <3>4. CASE send["main"].kind \notin Final
      BY <1>0, <1>44, <2>1, <2>2, <3>1, <3>2, <3>4 DEF Reach, FinalInv,
        FreeIsUnused, ComingIsFirst, Coming, FinalOnce, FinalShown, At
    <3> QED
      BY <3>3, <3>4
  <2>3. CASE t = "personal"
    <3>1. MessagesNamed' /\ send'["main"] = send["main"] /\ send["personal"].kind = "immediate"
      BY <1>0, <1>44, <2>1, <2>3 DEF Reach, KeepSend, FinalInv, MessagesNamed, Tasks
    <3> QED
      BY <1>44, <2>3, <3>1, PersonalKeeps DEF Reach
  <2> QED
    BY <2>2, <2>3 DEF Tasks
<1>45. ASSUME NEW t \in Tasks, CompleteMessage(t) PROVE FinalInv'
  BY <1>0, <1>45 DEF CompleteMessage, KeepSend, SendType, FinalInv, MessagesNamed, SendPlace,
    FreeIsUnused, ComingIsFirst, Coming, FinalOnce, FinalShown, At, Final, Tasks
<1>46. ASSUME NEW t \in Tasks, SendStops(t), shown' = shown PROVE FinalInv'
  <2>1. CASE t = "main"
    <3>1. KeepSend("main", NoSend) /\ MainFails(send["main"].kind)
      BY <1>46, <2>1 DEF SendStops
    <3>2. main'.at # "owned"
      BY <3>1, FailMoves DEF At
    <3> QED
      BY <1>46, <3>1, <3>2, FailMoves, EndKeeps
  <2>2. CASE t = "personal"
    <3>1. KeepSend("personal", NoSend) /\ PersonalFails
      BY <1>46, <2>2 DEF SendStops
    <3>2. turn'.final = turn.final
      BY <1>0, <3>1 DEF PersonalFails, TurnType
    <3>3. MessagesNamed' /\ send'["main"] = send["main"]
      BY <1>0, <3>1 DEF KeepSend, NoSend, FinalInv, MessagesNamed, Tasks
    <3> QED
      BY <1>46, <3>1, <3>2, <3>3, PersonalKeeps DEF PersonalFails
  <2> QED
    BY <2>1, <2>2 DEF Tasks
<1>47. ASSUME NEW t \in Tasks, OutputClosed(t) \/ SendFails(t) \/ CompletionFails(t)
       PROVE  FinalInv'
  BY <1>46, <1>47 DEF OutputClosed, SendFails, CompletionFails
<1>48. CASE UNCHANGED vars
  BY <1>48 DEF vars, FinalInv, MessagesNamed, SendPlace, FreeIsUnused, ComingIsFirst, Coming, FinalOnce,
    FinalShown, At
<1>49. ASSUME Stopped PROVE FinalInv'
  BY <1>48, <1>49 DEF Stopped
<1> QED
  BY <1>1, <1>2, <1>3, <1>4, <1>5, <1>6, <1>7, <1>8, <1>9, <1>10, <1>11, <1>12, <1>13, <1>14,
    <1>15, <1>16, <1>17, <1>18, <1>19, <1>20, <1>21, <1>22, <1>23, <1>24, <1>25, <1>26, <1>27,
    <1>28, <1>29, <1>30, <1>31, <1>32, <1>33, <1>34, <1>35, <1>36, <1>37, <1>38, <1>39, <1>40,
    <1>41, <1>42, <1>43, <1>44, <1>45, <1>47, <1>48, <1>49
    DEF Next, PersonalStep, MainStep, Failing, Deliver, Tasks

(* What is remembered grows by a message that was completed, and what is   *)
(* being committed is what was remembered.                                 *)
RecordingMoves ==
    /\ \/ turn'.recorded = turn.recorded
       \/ \E s \in Tasks : /\ send[s].step = "completing"
                          /\ turn'.recorded = turn.recorded \cup {send[s].kind}
    /\ main'.entry \in {main.entry, turn'.recorded}

LEMMA PersistRecords ==
    ASSUME TypeOK, NEW t \in TurnType, NEW n, Persist(t, n)
    PROVE  turn'.recorded = t.recorded /\ main'.entry \in {main.entry, t.recorded}
<1>1. main \in MainType
  BY DEF TypeOK
<1>2. turn'.recorded = t.recorded
  BY DEF Persist, Settled, Finish, TurnType
<1>3. main'.entry \in {main.entry, t.recorded}
  BY <1>1 DEF Persist, Resume, Return, Raise, Goto, MainType
<1> QED
  BY <1>2, <1>3

LEMMA RecordedMoves == TypeOK /\ FinalInv /\ [Next]_vars =>
             RecordingMoves
<1> SUFFICES ASSUME TypeOK, FinalInv, [Next]_vars
             PROVE  RecordingMoves
  OBVIOUS
<1>0. /\ turn \in TurnType /\ main \in MainType /\ personal \in PersonalType
      /\ send \in [Tasks -> SendType]
  BY DEF TypeOK
<1>1. ASSUME CommitTurn \/ Announce
       PROVE  RecordingMoves
  BY <1>0, <1>1, ZenonT(40) DEF CommitTurn, At, Appended, Completed, Goto, Close, Announce,
    Settled, Resume, Finish, Return, Raise, TurnType, MainType, Tasks,
    MessagesNamed, FinalInv, RecordingMoves
<1>2. ASSUME VisibleCompletes PROVE RecordingMoves
  BY <1>0, <1>2, PersistRecords DEF VisibleCompletes, RecordingMoves
<1>3. ASSUME HookPasses PROVE RecordingMoves
  <2>1. [turn EXCEPT !.pending = FALSE] \in TurnType
    BY <1>0, TurnFields
  <2>2. [turn EXCEPT !.pending = FALSE].recorded = turn.recorded
    BY <1>0 DEF TurnType
  <2>3. main' = Return(turn) => main'.entry = main.entry
    BY <1>0 DEF Return, Raise, Goto, MainType
  <2> QED
    BY <1>0, <1>3, <2>1, <2>2, <2>3, PersistRecords DEF HookPasses, RecordingMoves
<1>4. ASSUME HookStops
       PROVE  RecordingMoves
  BY <1>0, <1>4 DEF HookStops, At, StoppedByHook, Resume, Raise, Cancelled, Return,
    Goto, Close, TurnType, MainType, Tasks, MessagesNamed, FinalInv, RecordingMoves
<1>5. ASSUME MainRecords PROVE RecordingMoves
  <2> DEFINE k == send["main"].kind
  <2>1. k \in Kind
    BY <1>0, <1>5, OthersTyped DEF MainRecords, FinalInv, MessagesNamed, Tasks
  <2> DEFINE u == Recorded(turn, k)
  <2>2. u \in TurnType /\ u.recorded = turn.recorded \cup {k}
    <3>1. u \in TurnType
      BY <1>0, <2>1, TurnOps
    <3>2. u.recorded = turn.recorded \cup {k}
      BY <1>0 DEF Recorded, TurnType
    <3> QED
      BY <3>1, <3>2
  <2>3. CASE k = "answer"
    <3>1. turn'.recorded = u.recorded
      BY <1>5, <2>2, <2>3 DEF MainRecords, Finish, TurnType
    <3> QED
      BY <1>0, <1>5, <2>2, <2>3, <3>1 DEF MainRecords, Goto, MainType, RecordingMoves, Tasks
  <2>4. CASE k = "raw"
    BY <1>0, <1>5, <2>2, <2>4 DEF MainRecords, Goto, MainType, RecordingMoves, Tasks
  <2>5. CASE k \in {"tool", "plugin"}
    BY <1>0, <1>5, <2>2, <2>5, PersistRecords DEF MainRecords, RecordingMoves, Tasks
  <2>6. CASE k = "failure"
    <3> DEFINE v == [u EXCEPT !.flag = FALSE]
    <3>1. v \in TurnType /\ v.recorded = u.recorded
      <4>1. v \in TurnType
        BY <2>2, TurnFields
      <4>2. \A w \in TurnType : [w EXCEPT !.flag = FALSE].recorded = w.recorded
        BY DEF TurnType
      <4> QED
        BY <2>2, <4>1, <4>2
    <3> HIDE DEF v
    <3>2. Persist(v, "failing") /\ send["main"].step = "completing"
      BY <1>5, <2>6 DEF MainRecords, v
    <3> QED
      BY <2>2, <3>1, <3>2, PersistRecords DEF RecordingMoves, Tasks
  <2>7. CASE k \notin {"answer", "raw", "tool", "plugin", "failure"}
    BY <1>5, <2>7 DEF MainRecords, RecordingMoves
  <2> QED
    BY <2>3, <2>4, <2>5, <2>6, <2>7
<1>6. ASSUME MainWithholds PROVE RecordingMoves
  <2>1. turn'.recorded = turn.recorded
    BY <1>0, <1>6 DEF MainWithholds, Finish, Cancelled, FailedUnlessCompleted, Close, TurnType
  <2>2. main'.entry = main.entry
    BY <1>0, <1>6 DEF MainWithholds, Return, Goto, Raise, MainType
  <2> QED
    BY <2>1, <2>2 DEF RecordingMoves
<1>7. ASSUME SuppressDuplicate
       PROVE  RecordingMoves
  BY <1>0, <1>7 DEF SuppressDuplicate, Preparing, KeepSend, NoSend, Finish, Goto,
    TurnType, MainType, Tasks, MessagesNamed, FinalInv, RecordingMoves
<1>8. ASSUME PluginTakesTurn \/ PersonalEndsFirst \/ GatePasses \/ FollowRoute
       PROVE  RecordingMoves
  BY <1>0, <1>8, ZenonT(40) DEF PluginTakesTurn, At, SuppressPersona, AskIf, Suppressing, Goto,
    Ask, PersonalEndsFirst, Ended, Raise, GatePasses, FollowRoute, CompleteReply,
    CompleteSilently, Completed, Reservable, Finish, Reserve, Close, TurnType,
    MainType, Tasks, MessagesNamed, FinalInv, RecordingMoves
<1>9. ASSUME PlanExecutes \/ PlanDeclines \/ PlanFails \/ PlanTimesOut
       PROVE  RecordingMoves
  BY <1>0, <1>9, ZenonT(40) DEF PlanExecutes, At, Raise, Goto, PlanDeclines, CompleteReply,
    CompleteSilently, Completed, Reservable, Finish, Reserve, Close,
    SuppressPersona, PlanFails, PlanTimesOut, Happens, TurnType, MainType, Tasks,
    MessagesNamed, FinalInv, RecordingMoves
<1>10. ASSUME CoreAnswers \/ CaptureAnswer \/ ToolFinalizes \/ ToolReports
             \/ CoreEnds \/ CoreRaises \/ ServeRequest \/ JobEnds
       PROVE  RecordingMoves
  BY <1>0, <1>10, ZenonT(40) DEF CoreAnswers, AtCore, CanStart, Raise, Count, Goto, At, Idle,
    Busy, NoSend, CaptureAnswer, KeepSend, Preparing, Reservable, Reserve, AskIf,
    Suppressing, SuppressPersona, Ask, ToolFinalizes, ToolReports, CoreEnds,
    CoreRaises, ServeRequest, JobEnds, TurnType, MainType, Tasks, MessagesNamed,
    FinalInv, RecordingMoves
<1>11. ASSUME ClaimInline \/ SendArtifact \/ SendFinalArtifact \/ InlineEnds
             \/ ExpiryHandled \/ ExpiryReplies \/ ExpiryIsSilent \/ Release
       PROVE  RecordingMoves
  BY <1>0, <1>11, ZenonT(40) DEF ClaimInline, AtInline, At, Reservable, Reserve, AskIf,
    Suppressing, Goto, Idle, SuppressPersona, Ask, Busy, NoSend, SendArtifact,
    CanStart, KeepSend, Preparing, Count, SendFinalArtifact, InlineEnds, Finish,
    ExpiryHandled, ExpiryReplies, ExpiryIsSilent, FailedUnlessCompleted, Release,
    Close, Ended, TurnType, MainType, Tasks, MessagesNamed, FinalInv, RecordingMoves
<1>12. ASSUME PersonalPlans \/ PersonalRaises \/ PersonalCancelled \/ EmitImmediate
             \/ WithholdImmediate
       PROVE  RecordingMoves
  BY <1>0, <1>12, SMTT(20), ZenonT(30) DEF PersonalPlans, MayCommit, KeepSend, Preparing, SuppressPersona,
    PersonalRaises, PersonalCancelled, Ended, NoSend, Busy, EmitImmediate, Recorded,
    WithholdImmediate, TurnType, MainType, Tasks, MessagesNamed, FinalInv,
    RecordingMoves
<1>13. ASSUME CommitFails \/ VisibleFails \/ DeadlineStrikes \/ Interrupt
             \/ GateResolves \/ Stopped
       PROVE  RecordingMoves
  BY <1>0, <1>13, SMTT(20), ZenonT(30) DEF CommitFails, At, Happens, CommitLost, Goto, VisibleFails,
    Raise, DeadlineStrikes, Unwind, Appended, KeepSend, NoSend, AskIf, Ended, Ask,
    Interrupt, Cancelled, Close, GateResolves, Stopped, vars, TurnType, MainType,
    Tasks, MessagesNamed, FinalInv, RecordingMoves
<1>14. ASSUME NEW t \in Tasks, StartWire(t) \/ Reach(t) \/ CompleteMessage(t)
             \/ OutputClosed(t) \/ SendFails(t) \/ CompletionFails(t)
       PROVE  RecordingMoves
  BY <1>0, <1>14, ZenonT(40) DEF StartWire, KeepSend, Reach, CompleteMessage, OutputClosed,
    SendStops, NoSend, MainFails, PersonalFails, Finish, At, Return, Raise, Goto,
    SendFails, Happens, CompletionFails, TurnType, MainType, Tasks, MessagesNamed,
    FinalInv, RecordingMoves
<1>15. CASE UNCHANGED vars
  BY <1>15 DEF vars, RecordingMoves
<1> QED
  BY <1>1, <1>2, <1>3, <1>4, <1>5, <1>6, <1>7, <1>8, <1>9, <1>10, <1>11, <1>12,
      <1>13, <1>14, <1>15 DEF Next, PersonalStep, MainStep, Failing, Deliver, Tasks

(* What the user has been shown grows by a message on the wire; a message  *)
(* that counts as shown came from there; the history grows by the entry    *)
(* that is being committed.                                                *)
DeliveryMoves ==
    /\ \/ shown' = shown
       \/ \E s \in Tasks : send[s].step = "wire" /\ shown' = Append(shown, send[s].kind)
    /\ \A s \in Tasks : send'[s].step \in {"shown", "completing"} =>
          /\ send'[s].kind = send[s].kind
          /\ \/ send[s].step \in {"shown", "completing"}
             \/ shown' = Append(shown, send[s].kind)
    /\ history' = history \/ history' = Appended(main.entry)

LEMMA DeliveriesMove == TypeOK /\ FinalInv /\ [Next]_vars =>
             DeliveryMoves
<1> SUFFICES ASSUME TypeOK, FinalInv, [Next]_vars
             PROVE  DeliveryMoves
  OBVIOUS
<1>0. /\ turn \in TurnType /\ main \in MainType /\ personal \in PersonalType
      /\ send \in [Tasks -> SendType]
  BY DEF TypeOK
<1>1. ASSUME CommitTurn \/ Announce
       PROVE  DeliveryMoves
  BY <1>0, <1>1 DEF CommitTurn, At, Announce, SendType, Tasks, MessagesNamed,
    FinalInv, DeliveryMoves
<1>2. ASSUME VisibleCompletes \/ HookPasses
       PROVE  DeliveryMoves
  BY <1>0, <1>2 DEF VisibleCompletes, At, Persist, HookPasses, Deferred, SendType,
    Tasks, MessagesNamed, FinalInv, DeliveryMoves
<1>3. ASSUME HookStops
       PROVE  DeliveryMoves
  BY <1>0, <1>3 DEF HookStops, At, SendType, Tasks, MessagesNamed, FinalInv,
    DeliveryMoves
<1>4. ASSUME MainRecords
       PROVE  DeliveryMoves
  BY <1>0, <1>4 DEF MainRecords, KeepSend, NoSend, Persist, SendType, Tasks,
    MessagesNamed, FinalInv, DeliveryMoves
<1>5. ASSUME MainWithholds
       PROVE  DeliveryMoves
  BY <1>0, <1>5 DEF MainWithholds, KeepSend, NoSend, SendType, Tasks, MessagesNamed,
    FinalInv, DeliveryMoves
<1>6. ASSUME SuppressDuplicate
       PROVE  DeliveryMoves
  BY <1>0, <1>6 DEF SuppressDuplicate, Preparing, KeepSend, NoSend, SendType, Tasks,
    MessagesNamed, FinalInv, DeliveryMoves
<1>7. ASSUME PluginTakesTurn \/ PersonalEndsFirst \/ GatePasses \/ FollowRoute
             \/ PlanExecutes \/ PlanDeclines \/ PlanFails \/ PlanTimesOut
       PROVE  DeliveryMoves
  BY <1>0, <1>7 DEF PluginTakesTurn, At, Suppressing, PersonalEndsFirst, Ended,
    GatePasses, FollowRoute, CompleteReply, CompleteSilently, Reservable,
    PlanExecutes, PlanDeclines, PlanFails, PlanTimesOut, Happens, SendType, Tasks,
    MessagesNamed, FinalInv, DeliveryMoves
<1>8. ASSUME CoreAnswers \/ CaptureAnswer \/ ToolFinalizes \/ ToolReports \/ CoreEnds
             \/ CoreRaises \/ ServeRequest \/ JobEnds
       PROVE  DeliveryMoves
  BY <1>0, <1>8 DEF CoreAnswers, AtCore, CanStart, At, Idle, Busy, NoSend,
    CaptureAnswer, KeepSend, Preparing, Reservable, Suppressing, ToolFinalizes,
    ToolReports, CoreEnds, CoreRaises, ServeRequest, JobEnds, SendType, Tasks,
    MessagesNamed, FinalInv, DeliveryMoves
<1>9. ASSUME ClaimInline \/ SendArtifact \/ SendFinalArtifact \/ InlineEnds
             \/ ExpiryHandled \/ ExpiryReplies \/ ExpiryIsSilent \/ Release
       PROVE  DeliveryMoves
  BY <1>0, <1>9 DEF ClaimInline, AtInline, At, Reservable, Suppressing, Idle, Busy,
    NoSend, SendArtifact, CanStart, KeepSend, Preparing, SendFinalArtifact,
    InlineEnds, ExpiryHandled, ExpiryReplies, ExpiryIsSilent, Release, Ended,
    SendType, Tasks, MessagesNamed, FinalInv, DeliveryMoves
<1>10. ASSUME PersonalPlans \/ PersonalRaises
       PROVE  DeliveryMoves
  BY <1>0, <1>10 DEF PersonalPlans, MayCommit, KeepSend, Preparing, PersonalRaises,
    SendType, Tasks, MessagesNamed, FinalInv, DeliveryMoves
<1>11. ASSUME PersonalCancelled PROVE DeliveryMoves
  <2>1. send["personal"].step = "wire" => send["personal"].kind = "immediate"
    BY DEF FinalInv, MessagesNamed, Tasks
  <2>2. \/ shown' = shown
        \/ \E s \in Tasks : send[s].step = "wire" /\ shown' = Append(shown, send[s].kind)
    BY <1>11, <2>1 DEF PersonalCancelled, Tasks
  <2>3. send'["main"] = send["main"] /\ send'["personal"] = NoSend
    BY <1>0, <1>11 DEF PersonalCancelled, KeepSend, Tasks
  <2> QED
    BY <1>11, <2>2, <2>3 DEF PersonalCancelled, DeliveryMoves, NoSend, Tasks
<1>12. ASSUME EmitImmediate
       PROVE  DeliveryMoves
  BY <1>0, <1>12 DEF EmitImmediate, KeepSend, NoSend, SendType, Tasks,
    MessagesNamed, FinalInv, DeliveryMoves
<1>13. ASSUME WithholdImmediate
       PROVE  DeliveryMoves
  BY <1>0, <1>13 DEF WithholdImmediate, KeepSend, NoSend, SendType, Tasks,
    MessagesNamed, FinalInv, DeliveryMoves
<1>14. ASSUME CommitFails \/ VisibleFails \/ DeadlineStrikes \/ Interrupt
             \/ GateResolves \/ Stopped
       PROVE  DeliveryMoves
  BY <1>0, <1>14 DEF CommitFails, At, Happens, VisibleFails, DeadlineStrikes,
    Unwind, KeepSend, NoSend, Ended, Interrupt, GateResolves, Stopped, vars,
    SendType, Tasks, MessagesNamed, FinalInv, DeliveryMoves
<1>15. ASSUME NEW t \in Tasks, StartWire(t) \/ Reach(t) \/ CompleteMessage(t)
       PROVE  DeliveryMoves
  BY <1>0, <1>15 DEF StartWire, KeepSend, Reach, CompleteMessage, SendType, Tasks,
    MessagesNamed, FinalInv, DeliveryMoves
<1>16. ASSUME NEW t \in Tasks, OutputClosed(t) \/ SendFails(t) \/ CompletionFails(t)
       PROVE  DeliveryMoves
  BY <1>0, <1>16 DEF OutputClosed, SendStops, KeepSend, NoSend, MainFails,
    PersonalFails, At, SendFails, Happens, CompletionFails, SendType, Tasks,
    MessagesNamed, FinalInv, DeliveryMoves
<1>17. CASE UNCHANGED vars
  BY <1>17 DEF vars, DeliveryMoves
<1> QED
  BY <1>1, <1>2, <1>3, <1>4, <1>5, <1>6, <1>7, <1>8, <1>9, <1>10, <1>11, <1>12,
      <1>13, <1>14, <1>15, <1>16, <1>17 DEF Next, PersonalStep, MainStep, Failing,
      Deliver, Tasks

(* The history holds what was shown.                                       *)
RecordedIsShown ==
    /\ \A k \in turn.recorded \cup main.entry : Shown(k)
    /\ \A s \in Tasks : send[s].step \in {"shown", "completing"} => Shown(send[s].kind)

HistoryInv == RecordedIsShown /\ HistoryIsTrue

LEMMA HistoryStep == TypeOK /\ FinalInv /\ HistoryInv /\ [Next]_vars => HistoryInv'
<1> SUFFICES ASSUME TypeOK, FinalInv, HistoryInv, [Next]_vars
             PROVE  HistoryInv'
  OBVIOUS
<1>0. /\ send \in [Tasks -> SendType] /\ shown \in Seq(Kind) /\ history \in Seq(SUBSET Kind)
      /\ TypeOK'
  BY TypeStep DEF TypeOK, FinalInv
<1>1. RecordingMoves /\ DeliveryMoves
  BY RecordedMoves, DeliveriesMove
<1>2. \A k : Shown(k) => Shown(k)'
  <2>1. CASE shown' = shown
    BY <2>1 DEF Shown
  <2>2. ASSUME NEW k, shown' = Append(shown, k), NEW h, Shown(h) PROVE Shown(h)'
    BY <1>0, <2>2 DEF Shown
  <2> QED
    BY <1>1, <2>1, <2>2 DEF DeliveryMoves
<1>3. \A k : shown' = Append(shown, k) => Shown(k)'
  <2> SUFFICES ASSUME NEW k, shown' = Append(shown, k) PROVE Shown(k)'
    OBVIOUS
  <2>1. Len(shown) + 1 \in DOMAIN shown' /\ shown'[Len(shown) + 1] = k
    BY <1>0
  <2> QED
    BY <2>1 DEF Shown
<1>4. \A s \in Tasks : send'[s].step \in {"shown", "completing"} => Shown(send[s].kind)'
  BY <1>1, <1>2, <1>3 DEF DeliveryMoves, HistoryInv, RecordedIsShown
<1>5. \A k \in turn'.recorded : Shown(k)'
  BY <1>1, <1>2 DEF RecordingMoves, HistoryInv, RecordedIsShown
<1>6. \A k \in main'.entry : Shown(k)'
  BY <1>1, <1>2, <1>5 DEF RecordingMoves, HistoryInv, RecordedIsShown
<1>7. HistoryIsTrue'
  <2>1. CASE history' = history
    BY <1>2, <2>1 DEF HistoryInv, HistoryIsTrue
  <2>2. CASE history = <<>> /\ history' = Append(history, main.entry)
    <3>1. Len(history') = 1 /\ history'[1] = main.entry /\ DOMAIN history' = {1}
      BY <1>0, <2>2
    <3> QED
      BY <1>2, <3>1 DEF HistoryInv, RecordedIsShown, HistoryIsTrue
  <2> QED
    BY <1>1, <2>1, <2>2 DEF DeliveryMoves, Appended
<1> QED
  BY <1>4, <1>5, <1>6, <1>7 DEF HistoryInv, RecordedIsShown

LEMMA InitEstablishes == Init => TypeOK /\ FinalInv /\ HistoryInv
<1> SUFFICES ASSUME Init PROVE TypeOK /\ FinalInv /\ HistoryInv
  OBVIOUS
<1>1. /\ turn \in TurnType /\ turn.final = "pending" /\ turn.recorded = {}
  BY DEF Init, TurnType
<1>2. main \in MainType /\ main.at \in {"control", "personal"} /\ main.entry = {}
  BY MaxMessagesAssumption DEF Init, MainType, Place, Resumption
<1>3. /\ send \in [Tasks -> SendType]
      /\ \A s \in Tasks : send[s].kind = "none" /\ send[s].step = "none"
  BY DEF Init, NoSend, SendType
<1>4. TypeOK
  BY <1>1, <1>2, <1>3, GatesAssumption DEF Init, TypeOK, PersonalType
<1>5. shown = <<>> /\ history = <<>>
  BY DEF Init
<1>6. FinalInv
  BY <1>2, <1>3, <1>5 DEF FinalInv, MessagesNamed, SendPlace, FreeIsUnused, ComingIsFirst, Coming,
    FinalOnce, FinalShown, At, Final, Tasks
<1>7. HistoryInv
  BY <1>1, <1>2, <1>3, <1>5 DEF HistoryInv, RecordedIsShown, HistoryIsTrue
<1> QED
  BY <1>4, <1>6, <1>7

(* Every state of a turn is typed, whatever the plugin branch decides and  *)
(* whatever fails.                                                         *)
THEOREM TypeCorrect == Spec => [](TypeOK /\ FinalInv)
<1>1. Init => TypeOK /\ FinalInv
  BY InitEstablishes
<1>2. TypeOK /\ FinalInv /\ [Next]_vars => (TypeOK /\ FinalInv)'
  BY TypeStep, FinalStep DEF FinalInv
<1> QED
  BY <1>1, <1>2, PTL DEF Spec

(* At most one message of the turn holds the final reservation when it is  *)
(* shown: an answer, a plugin's final, a tool's final output and a failure *)
(* reply exclude each other, whichever task is cancelled where.            *)
THEOREM FinalsAreExclusive == Spec => []FinalOnce
<1>1. FinalInv => FinalOnce
  BY DEF FinalInv
<1> QED
  BY <1>1, TypeCorrect, PTL

(* The conversation gets at most one entry of the turn, and the entry      *)
(* holds nothing that the user was not shown.                              *)
THEOREM HistoryTellsTheTruth == Spec => []HistoryIsTrue
<1>1. Init => HistoryInv
  BY InitEstablishes
<1>2. TypeOK /\ FinalInv /\ HistoryInv /\ [Next]_vars => HistoryInv'
  BY HistoryStep
<1>3. HistoryInv => HistoryIsTrue
  BY DEF HistoryInv
<1> QED
  BY <1>1, <1>2, <1>3, TypeCorrect, PTL DEF Spec

-----------------------------------------------------------------------------
(* What a completed turn has shown is in the history.                      *)

(* Until the route is followed the main task has sent nothing; once the    *)
(* lease is given back it sends nothing more.                              *)
Early == {"control", "gate", "personal", "plan"}
Late  == {"release", "done"}

PlaceMoves ==
    /\ main'.at \in Early => main.at \in Early
    /\ main'.at = "plan" => main.at = "plan" \/ personal.at = "returned"
    /\ main.at \in Late => main'.at \in Late

LEMMA PlacesMove == TypeOK /\ FinalInv /\ [Next]_vars => PlaceMoves
<1> SUFFICES ASSUME TypeOK, FinalInv, [Next]_vars
             PROVE  PlaceMoves
  OBVIOUS
<1>0. /\ turn \in TurnType /\ main \in MainType /\ personal \in PersonalType
      /\ send \in [Tasks -> SendType]
      /\ main.at \in Late \cup Early => send["main"].kind = "none" /\ send["main"].step = "none"
  BY IdleAt DEF TypeOK, FinalInv, MessagesNamed, Tasks, Late, Early
<1>1. ASSUME CommitTurn \/ Announce \/ CommitFails PROVE PlaceMoves
  BY <1>0, <1>1, PlaceOfMain DEF CommitTurn, Announce, CommitFails, At, PlaceMoves, Early, Late
<1>2. ASSUME VisibleCompletes \/ HookPasses PROVE PlaceMoves
  <2>1. [turn EXCEPT !.pending = FALSE] \in TurnType
    BY <1>0, TurnFields
  <2>2. main'.at \in {"core", "trailing", "expired", "release", "announce", "commit"}
    BY <1>0, <1>2, <2>1, PersistMoves, PlaceOfMain DEF VisibleCompletes, HookPasses
  <2> QED
    BY <1>2, <2>2 DEF VisibleCompletes, HookPasses, At, PlaceMoves, Early, Late
<1>3. ASSUME HookStops \/ VisibleFails PROVE PlaceMoves
  BY <1>0, <1>3, PlaceOfMain DEF HookStops, VisibleFails, At, PlaceMoves, Early, Late
<1>4. ASSUME MainRecords PROVE PlaceMoves
  <2>1. main.at \notin Early \cup Late
    BY <1>0, <1>4 DEF MainRecords
  <2>2. /\ Recorded(turn, send["main"].kind) \in TurnType
        /\ [Recorded(turn, send["main"].kind) EXCEPT !.flag = FALSE] \in TurnType
    <3>1. send["main"].kind \in Kind
      BY <1>0, <1>4, OthersTyped DEF MainRecords, FinalInv, MessagesNamed, Tasks
    <3> QED
      BY <1>0, <3>1, TurnOps, TurnFields
  <2>3. main' = main \/ main'.at \in {"core", "trailing", "expired", "release", "announce",
                                      "commit", "hook"}
    <3>1. ASSUME NEW t \in TurnType, NEW n, Persist(t, n)
          PROVE  main'.at \in {"core", "trailing", "expired", "release", "announce", "commit"}
      BY <3>1, PersistMoves
    <3> QED
      BY <1>0, <1>4, <2>2, <3>1, PlaceOfMain DEF MainRecords
  <2> QED
    BY <2>1, <2>3 DEF PlaceMoves, Early, Late
<1>5. ASSUME MainWithholds \/ SuppressDuplicate PROVE PlaceMoves
  <2>1. send["main"].step = "preparing"
    <3>1. CASE MainWithholds
      BY <3>1 DEF MainWithholds
    <3>2. CASE SuppressDuplicate
      BY <3>2 DEF SuppressDuplicate, Preparing
    <3> QED
      BY <1>5, <3>1, <3>2
  <2>2. main.at \notin Early \cup Late
    BY <1>0, <2>1
  <2>3. ASSUME MainWithholds PROVE main'.at \in {"core", "release", "hook", "trailing"}
    <3>1. PICK t : main' \in {Return(t), Goto("hook"), Goto("trailing"), Goto("release")}
      BY <2>3 DEF MainWithholds
    <3> QED
      BY <1>0, <3>1, PlaceOfMain
  <2>4. ASSUME SuppressDuplicate PROVE main'.at = "hook"
    BY <1>0, <2>4, PlaceOfMain DEF SuppressDuplicate
  <2> QED
    BY <1>5, <2>2, <2>3, <2>4 DEF PlaceMoves, Early, Late
<1>6. ASSUME PluginTakesTurn \/ PersonalEndsFirst \/ GatePasses \/ FollowRoute
             \/ PlanExecutes \/ PlanDeclines \/ PlanFails \/ PlanTimesOut
       PROVE  PlaceMoves
  BY <1>0, <1>6, PlaceOfMain, PlaceOfFields DEF PluginTakesTurn, At, PersonalEndsFirst, GatePasses,
    FollowRoute, CompleteReply, CompleteSilently, PlanExecutes, PlanDeclines, PlanFails,
    PlanTimesOut, Goto, MainType, PlaceMoves, Early, Late
<1>7. ASSUME CoreAnswers \/ CaptureAnswer \/ ToolFinalizes \/ ToolReports \/ CoreEnds
             \/ CoreRaises \/ ServeRequest \/ JobEnds
       PROVE  PlaceMoves
  BY <1>0, <1>7 DEF CoreAnswers, AtCore, CaptureAnswer, ToolFinalizes, ToolReports, CoreEnds,
    CoreRaises, ServeRequest, JobEnds, At, Goto, Raise, Count, MainType, PlaceMoves, Early, Late
<1>8. ASSUME ClaimInline \/ SendArtifact \/ SendFinalArtifact \/ InlineEnds
             \/ ExpiryHandled \/ ExpiryReplies \/ ExpiryIsSilent \/ Release
       PROVE  PlaceMoves
  BY <1>0, <1>8 DEF ClaimInline, AtInline, SendArtifact, SendFinalArtifact, InlineEnds,
    ExpiryHandled, ExpiryReplies, ExpiryIsSilent, Release, At, Goto, Count, MainType, PlaceMoves,
    Early, Late
<1>9. ASSUME DeadlineStrikes \/ Interrupt PROVE PlaceMoves
  <2>1. \/ main'.at = "expired" /\ main.at \notin Late
        \/ main'.at = "release"
    BY <1>0, <1>9 DEF DeadlineStrikes, UnderDeadline, Interrupt, Unwind, Goto, At, MainType, Late
  <2> QED
    BY <2>1 DEF PlaceMoves, Early, Late
<1>10. ASSUME NEW t \in Tasks, OutputClosed(t) \/ SendFails(t) \/ CompletionFails(t)
       PROVE  PlaceMoves
  <2>1. CASE t = "personal"
    BY <1>10, <2>1 DEF OutputClosed, SendFails, CompletionFails, SendStops, PersonalFails,
      PlaceMoves, Late
  <2>2. CASE t = "main"
    <3>1. main.at \notin Early \cup Late
      BY <1>0, <1>10, <2>2 DEF OutputClosed, SendFails, CompletionFails
    <3>2. MainFails(send["main"].kind)
      BY <1>10, <2>2 DEF OutputClosed, SendFails, CompletionFails, SendStops
    <3>3. main'.at \in {"core", "release"}
      BY <3>2, FailMoves DEF At
    <3> QED
      BY <3>1, <3>3 DEF PlaceMoves, Early, Late
  <2> QED
    BY <2>1, <2>2 DEF Tasks
<1>11. ASSUME UNCHANGED main PROVE PlaceMoves
  BY <1>11 DEF PlaceMoves, Late
<1>12. ASSUME NEW t \in Tasks, StartWire(t) \/ Reach(t) \/ CompleteMessage(t) PROVE PlaceMoves
  BY <1>11, <1>12 DEF StartWire, Reach, CompleteMessage
<1>13. ASSUME PersonalPlans \/ PersonalRaises \/ PersonalCancelled \/ EmitImmediate
              \/ WithholdImmediate \/ GateResolves \/ Stopped
       PROVE  PlaceMoves
  BY <1>11, <1>13 DEF PersonalPlans, PersonalRaises, PersonalCancelled, EmitImmediate,
    WithholdImmediate, GateResolves, Stopped, vars
<1>14. CASE UNCHANGED vars
  BY <1>11, <1>14 DEF vars
<1> QED
  BY <1>1, <1>2, <1>3, <1>4, <1>5, <1>6, <1>7, <1>8, <1>9, <1>10, <1>12, <1>13, <1>14
    DEF Next, PersonalStep, MainStep, Failing, Deliver, Tasks

(* What the operations of the turn state do to its status, to the mark of  *)
(* its commit and to the Personal status.                                  *)
LEMMA StatusOfOps ==
    ASSUME NEW t \in TurnType
    PROVE  /\ Completed(t).committed = t.committed /\ Completed(t).persona = t.persona
           /\ Cancelled(t).status = "cancelled" /\ Cancelled(t).committed = t.committed
           /\ Cancelled(t).persona = t.persona
           /\ \A r : /\ Close(t, r).status = t.status
                     /\ Close(t, r).committed = t.committed
                     /\ Close(t, r).persona = t.persona
           /\ FailedUnlessCompleted(t).status \in {t.status, "failed"}
           /\ FailedUnlessCompleted(t).committed = t.committed
           /\ FailedUnlessCompleted(t).persona = t.persona
           /\ CommitLost(t).status = "failed" /\ CommitLost(t).committed = t.committed
           /\ CommitLost(t).persona = t.persona
           /\ \A o : /\ Finish(t, o).status = t.status
                     /\ Finish(t, o).committed = t.committed
                     /\ Finish(t, o).persona = t.persona
           /\ \A n : /\ Settled(t, n).status = t.status
                     /\ Settled(t, n).committed = t.committed
                     /\ Settled(t, n).persona = t.persona
           /\ \A k : /\ Recorded(t, k).status = t.status
                     /\ Recorded(t, k).committed = t.committed
                     /\ Recorded(t, k).persona = t.persona
BY DEF Completed, Cancelled, Close, FailedUnlessCompleted, CommitLost, Finish, Settled, Recorded,
  TurnType

LEMMA PersonaOfOps ==
    ASSUME NEW t \in TurnType
    PROVE  /\ SuppressPersona(t).status = t.status /\ SuppressPersona(t).committed = t.committed
           /\ SuppressPersona(t).persona # t.persona =>
                 t.persona = "pending" /\ SuppressPersona(t).persona = "suppressed"
           /\ Reserve(t).status = t.status /\ Reserve(t).committed = t.committed
           /\ Reserve(t).persona # t.persona =>
                 t.persona = "pending" /\ Reserve(t).persona = "suppressed"
           /\ StoppedByHook(t).status = "cancelled" /\ StoppedByHook(t).committed = t.committed
           /\ StoppedByHook(t).persona = t.persona
<1>1. SuppressPersona(t) \in TurnType /\ Cancelled(t) \in TurnType
  BY TurnOps
<1>2. /\ SuppressPersona(t).status = t.status /\ SuppressPersona(t).committed = t.committed
      /\ SuppressPersona(t).persona # t.persona =>
            t.persona = "pending" /\ SuppressPersona(t).persona = "suppressed"
  BY DEF SuppressPersona, TurnType
<1>3. /\ Reserve(t).status = SuppressPersona(t).status
      /\ Reserve(t).committed = SuppressPersona(t).committed
      /\ Reserve(t).persona = SuppressPersona(t).persona
  BY <1>1 DEF Reserve, TurnType
<1>4. /\ StoppedByHook(t).status = Cancelled(t).status
      /\ StoppedByHook(t).committed = Cancelled(t).committed
      /\ StoppedByHook(t).persona = Cancelled(t).persona
  BY <1>1 DEF StoppedByHook, TurnType
<1> QED
  BY <1>2, <1>3, <1>4, StatusOfOps

LEMMA StatusOfFields ==
    ASSUME NEW t \in TurnType
    PROVE  /\ \A v : [t EXCEPT !.flag = v].status = t.status
           /\ \A v : [t EXCEPT !.flag = v].committed = t.committed
           /\ \A v : [t EXCEPT !.flag = v].persona = t.persona
           /\ \A v : [t EXCEPT !.pending = v].status = t.status
           /\ \A v : [t EXCEPT !.pending = v].committed = t.committed
           /\ \A v : [t EXCEPT !.pending = v].persona = t.persona
           /\ \A v : [t EXCEPT !.stopped = v].status = t.status
           /\ \A v : [t EXCEPT !.stopped = v].committed = t.committed
           /\ \A v : [t EXCEPT !.stopped = v].persona = t.persona
BY DEF TurnType

LEMMA PersistStatus ==
    ASSUME TypeOK, NEW t \in TurnType, NEW n, Persist(t, n)
    PROVE  /\ turn'.status \in {t.status, "failed"}
           /\ turn'.committed = t.committed
           /\ turn'.persona = t.persona
<1>1. CASE turn' = Settled(t, n)
  BY <1>1, StatusOfOps
<1>2. CASE turn' = [t EXCEPT !.status = "failed"]
  BY <1>2 DEF TurnType
<1> QED
  BY <1>1, <1>2 DEF Persist

LEMMA MainFailsStatus ==
    ASSUME TypeOK, NEW k, MainFails(k)
    PROVE  /\ turn'.status \in {turn.status, "failed"}
           /\ turn'.committed = turn.committed
           /\ turn'.persona = turn.persona
<1>1. turn \in TurnType /\ Finish(turn, "failed") \in TurnType
  BY TurnOps DEF TypeOK
<1>2. PICK t \in {turn, Finish(turn, "failed")}, b \in BOOLEAN :
         turn' = [t EXCEPT !.flag = IF b THEN FALSE ELSE @,
                           !.status = IF b /\ @ # "completed" THEN "failed" ELSE @]
  BY DEF MainFails
<1>3. /\ turn'.status \in {t.status, "failed"}
      /\ turn'.committed = t.committed /\ turn'.persona = t.persona
  BY <1>1, <1>2 DEF TurnType
<1> QED
  BY <1>1, <1>2, <1>3, StatusOfOps

LEMMA UnwindStatus ==
    ASSUME NEW t \in TurnType, NEW p, Unwind(t, p)
    PROVE  turn'.status = t.status /\ turn'.committed = t.committed /\ turn'.persona = t.persona
BY DEF Unwind, TurnType

(* A turn is completed with its entry in the history, or when the route    *)
(* is followed and its reply was not emitted.                              *)
SilentEnd ==
    /\ \/ At({"personal"}) /\ personal.at = "returned"
       \/ At({"plan"})
    /\ turn.persona # "emitted"
    /\ main'.at = "release"
    /\ personal' = personal /\ shown' = shown

StatusMoves ==
    /\ turn'.status = "completed" =>
         turn.status = "completed" \/ turn.committed \/ history' # <<>> \/ SilentEnd
    /\ turn'.committed => turn.committed \/ history' # <<>>

LEMMA SilentStatus ==
    ASSUME TypeOK, CompleteSilently
    PROVE  turn'.committed = turn.committed /\ main'.at = "release"
<1>1. turn \in TurnType /\ main \in MainType
  BY DEF TypeOK
<1>2. Reserve(turn) \in TurnType /\ Finish(Reserve(turn), "suppressed") \in TurnType
  BY <1>1, TurnOps
<1> QED
  BY <1>1, <1>2, StatusOfOps, PersonaOfOps, PlaceOfMain DEF CompleteSilently

LEMMA StatusMove == TypeOK /\ FinalInv /\ [Next]_vars => StatusMoves
<1> SUFFICES ASSUME TypeOK, FinalInv, [Next]_vars
             PROVE  StatusMoves
  OBVIOUS
<1>0. /\ turn \in TurnType /\ main \in MainType /\ personal \in PersonalType
      /\ send \in [Tasks -> SendType]
      /\ history \in Seq(SUBSET Kind)
  BY DEF TypeOK
<1>plain. ASSUME turn'.status \in {turn.status, "failed", "cancelled"},
             turn'.committed = turn.committed
      PROVE  StatusMoves
  BY <1>plain DEF StatusMoves
<1>1. ASSUME CommitTurn PROVE StatusMoves
  <2>1. CASE turn.committed
    BY <2>1 DEF StatusMoves
  <2>2. CASE ~turn.committed
    <3>1. history' = Appended(main.entry)
      BY <1>1, <2>2 DEF CommitTurn
    <3>2. Append(history, main.entry) # <<>>
      <4>1. main.entry \in SUBSET Kind
        BY <1>0 DEF MainType
      <4>2. Len(Append(history, main.entry)) = Len(history) + 1 /\ Len(history) \in Nat
        BY <1>0, <4>1
      <4>3. ASSUME Append(history, main.entry) = <<>> PROVE FALSE
        BY <4>2, <4>3
      <4> QED
        BY <4>3
    <3> QED
      BY <3>1, <3>2 DEF Appended, StatusMoves
  <2> QED
    BY <2>1, <2>2
<1>2. ASSUME Announce \/ CommitFails PROVE StatusMoves
  BY <1>0, <1>2, <1>plain, StatusOfOps DEF Announce, CommitFails
<1>3. ASSUME VisibleCompletes \/ HookPasses PROVE StatusMoves
  <2>1. PICK u \in TurnType : u = [turn EXCEPT !.pending = FALSE]
    BY <1>0, TurnFields
  <2>2. u.status = turn.status /\ u.committed = turn.committed
    BY <1>0, <2>1 DEF TurnType
  <2>3. turn' = turn \/ \E n : Persist(turn, n) \/ Persist(u, n)
    BY <1>3, <2>1 DEF VisibleCompletes, HookPasses
  <2> QED
    BY <1>0, <1>plain, <2>2, <2>3, PersistStatus
<1>4. ASSUME HookStops \/ VisibleFails PROVE StatusMoves
  <2>1. CASE HookStops
    BY <1>0, <1>plain, <2>1, PersonaOfOps DEF HookStops
  <2>2. CASE VisibleFails
    <3>1. turn'.status = turn.status /\ turn'.committed = turn.committed
      BY <1>0, <2>2 DEF VisibleFails, TurnType
    <3> QED
      BY <1>plain, <3>1
  <2> QED
    BY <1>4, <2>1, <2>2
<1>5. ASSUME MainRecords PROVE StatusMoves
  <2>1. send["main"].kind \in Kind
    BY <1>0, <1>5, OthersTyped DEF MainRecords, FinalInv, MessagesNamed, Tasks
  <2>2. PICK u \in TurnType : u = Recorded(turn, send["main"].kind)
    BY <1>0, <2>1, TurnOps
  <2>3. PICK v \in TurnType : v = [u EXCEPT !.flag = FALSE]
    BY TurnFields
  <2>4. PICK w \in TurnType : w = Finish(u, "delivered")
    BY TurnOps
  <2>5. PICK x \in TurnType : x = [w EXCEPT !.pending = turn.status # "completed"]
    BY TurnFields
  <2>6. /\ \A y \in {u, v, w, x} : y.status = turn.status /\ y.committed = turn.committed
    BY <1>0, <2>2, <2>3, <2>4, <2>5, StatusOfOps, StatusOfFields
  <2>7. \/ turn' = turn \/ turn' \in {u, x}
        \/ \E n : Persist(u, n) \/ Persist(v, n)
    BY <1>5, <2>2, <2>3, <2>4, <2>5 DEF MainRecords
  <2> QED
    BY <1>0, <1>plain, <2>6, <2>7, PersistStatus
<1>6. ASSUME MainWithholds PROVE StatusMoves
  <2>1. PICK stop \in BOOLEAN, u \in TurnType :
           /\ u = [turn EXCEPT !.stopped = @ \/ stop]
           /\ turn' \in {Finish(Cancelled(u), "suppressed"), [u EXCEPT !.withheld = TRUE], u,
                         [FailedUnlessCompleted(Finish(u, "suppressed"))
                            EXCEPT !.flag = FALSE, !.withheld = TRUE]}
    <3>1. \A stop \in BOOLEAN : [turn EXCEPT !.stopped = @ \/ stop] \in TurnType
      BY <1>0, TurnFields, TurnValues
    <3> QED
      BY <1>6, <3>1 DEF MainWithholds
  <2>2. u.status = turn.status /\ u.committed = turn.committed
    BY <1>0, <2>1, StatusOfFields
  <2>3. PICK f \in TurnType : f = FailedUnlessCompleted(Finish(u, "suppressed"))
    BY <2>1, TurnOps
  <2>4. f.status \in {turn.status, "failed"} /\ f.committed = turn.committed
    <3>1. Finish(u, "suppressed") \in TurnType
      BY TurnOps
    <3> QED
      BY <2>2, <2>3, <3>1, StatusOfOps
  <2>5. PICK c \in TurnType : c = Cancelled(u)
    BY TurnOps
  <2>6. Finish(c, "suppressed").status = "cancelled" /\ Finish(c, "suppressed").committed = turn.committed
    BY <2>2, <2>5, StatusOfOps
  <2>7. /\ [f EXCEPT !.flag = FALSE, !.withheld = TRUE].status = f.status
        /\ [f EXCEPT !.flag = FALSE, !.withheld = TRUE].committed = f.committed
    BY DEF TurnType
  <2>8. /\ [u EXCEPT !.withheld = TRUE].status = u.status
        /\ [u EXCEPT !.withheld = TRUE].committed = u.committed
    BY DEF TurnType
  <2>9. /\ turn'.status \in {turn.status, "failed", "cancelled"}
        /\ turn'.committed = turn.committed
    BY <2>1, <2>2, <2>3, <2>4, <2>5, <2>6, <2>7, <2>8
  <2> QED
    BY <1>plain, <2>9
<1>7. ASSUME SuppressDuplicate PROVE StatusMoves
  <2>1. PICK w \in TurnType : w = Finish(turn, "delivered")
    BY <1>0, TurnOps
  <2> QED
    BY <1>0, <1>7, <1>plain, <2>1, StatusOfOps, StatusOfFields DEF SuppressDuplicate
<1>8. ASSUME CompleteSilently, SilentEnd PROVE StatusMoves
  BY <1>8, SilentStatus DEF StatusMoves
<1>9. ASSUME FollowRoute \/ PlanDeclines PROVE StatusMoves
  <2>1. \/ turn' = turn
        \/ CompleteSilently /\ SilentEnd
    <3>1. ASSUME FollowRoute PROVE turn' = turn \/ (CompleteSilently /\ SilentEnd)
      BY <3>1, SilentStatus DEF FollowRoute, CompleteReply, SilentEnd
    <3>2. ASSUME PlanDeclines PROVE turn' = turn \/ (CompleteSilently /\ SilentEnd)
      BY <3>2, SilentStatus DEF PlanDeclines, CompleteReply, SilentEnd
    <3> QED
      BY <1>9, <3>1, <3>2
  <2> QED
    BY <1>plain, <1>8, <2>1
<1>10. ASSUME PersonalEndsFirst \/ GatePasses \/ PlanExecutes \/ PlanFails \/ PlanTimesOut
              \/ CoreAnswers \/ ToolReports \/ CoreEnds \/ CoreRaises \/ ServeRequest \/ JobEnds
              \/ SendArtifact \/ SendFinalArtifact \/ ExpiryHandled \/ PersonalRaises
              \/ GateResolves \/ Stopped
       PROVE  StatusMoves
  BY <1>plain, <1>10 DEF PersonalEndsFirst, GatePasses, PlanExecutes, PlanFails, PlanTimesOut,
    CompleteReply, CoreAnswers, ToolReports, CoreEnds, CoreRaises, ServeRequest, JobEnds,
    SendArtifact, SendFinalArtifact, ExpiryHandled, PersonalRaises, GateResolves, Stopped, vars
<1>11. ASSUME PluginTakesTurn \/ CaptureAnswer \/ ToolFinalizes \/ ClaimInline PROVE StatusMoves
  BY <1>0, <1>plain, <1>11, PersonaOfOps DEF PluginTakesTurn, CaptureAnswer, ToolFinalizes, ClaimInline
<1>12. ASSUME InlineEnds \/ Release PROVE StatusMoves
  BY <1>0, <1>plain, <1>12, StatusOfOps DEF InlineEnds, Release
<1>13. ASSUME ExpiryReplies \/ ExpiryIsSilent PROVE StatusMoves
  <2>1. PICK r \in TurnType : r = Reserve(turn)
    BY <1>0, TurnOps
  <2>2. PICK w \in TurnType : w = Finish(r, "suppressed")
    BY TurnOps
  <2>3. turn' \in {[r EXCEPT !.flag = TRUE], FailedUnlessCompleted(w), FailedUnlessCompleted(turn)}
    BY <1>13, <2>1, <2>2 DEF ExpiryReplies, ExpiryIsSilent
  <2>4. /\ r.status = turn.status /\ r.committed = turn.committed
        /\ w.status = turn.status /\ w.committed = turn.committed
    BY <1>0, <2>1, <2>2, StatusOfOps, PersonaOfOps
  <2>5. /\ [r EXCEPT !.flag = TRUE].status = r.status
        /\ [r EXCEPT !.flag = TRUE].committed = r.committed
    BY DEF TurnType
  <2>6. \A t \in {turn, w} : /\ FailedUnlessCompleted(t).status \in {turn.status, "failed"}
                            /\ FailedUnlessCompleted(t).committed = turn.committed
    BY <1>0, <2>4, StatusOfOps
  <2>7. turn'.status \in {turn.status, "failed"} /\ turn'.committed = turn.committed
    BY <2>3, <2>4, <2>5, <2>6
  <2> QED
    BY <1>plain, <2>7
<1>14. ASSUME PersonalPlans PROVE StatusMoves
  <2>1. PICK p \in TurnType :
           /\ p.status = turn.status /\ p.committed = turn.committed
           /\ turn' \in {[p EXCEPT !.persona = "committed", !.flag = TRUE], SuppressPersona(p)}
    <3>1. PICK r \in {"none", "silent", "persona", "hybrid"} :
             \E q \in {turn, [turn EXCEPT !.route = r]} :
               turn' \in {[q EXCEPT !.persona = "committed", !.flag = TRUE], SuppressPersona(q)}
      BY <1>14 DEF PersonalPlans
    <3>2. PICK q \in {turn, [turn EXCEPT !.route = r]} :
             turn' \in {[q EXCEPT !.persona = "committed", !.flag = TRUE], SuppressPersona(q)}
      BY <3>1
    <3>3. /\ q \in TurnType
          /\ q.status = turn.status /\ q.committed = turn.committed
      BY <1>0, <3>2 DEF TurnType
    <3> QED
      BY <3>2, <3>3
  <2>2. /\ [p EXCEPT !.persona = "committed", !.flag = TRUE].status = p.status
        /\ [p EXCEPT !.persona = "committed", !.flag = TRUE].committed = p.committed
    BY DEF TurnType
  <2>3. turn'.status = turn.status /\ turn'.committed = turn.committed
    <3>1. CASE turn' = SuppressPersona(p)
      BY <2>1, <3>1, PersonaOfOps
    <3>2. CASE turn' = [p EXCEPT !.persona = "committed", !.flag = TRUE]
      BY <2>1, <2>2, <3>2
    <3> QED
      BY <2>1, <3>1, <3>2
  <2> QED
    BY <1>plain, <2>3
<1>15. ASSUME PersonalCancelled PROVE StatusMoves
  BY <1>0, <1>plain, <1>15, StatusOfFields DEF PersonalCancelled
<1>16. ASSUME EmitImmediate \/ WithholdImmediate PROVE StatusMoves
  <2>1. turn'.status = turn.status /\ turn'.committed = turn.committed
    BY <1>0, <1>16 DEF EmitImmediate, WithholdImmediate, Recorded, TurnType
  <2> QED
    BY <1>plain, <2>1
<1>17. ASSUME DeadlineStrikes \/ Interrupt PROVE StatusMoves
  <2>1. Cancelled(turn) \in TurnType
    BY <1>0, TurnOps
  <2> QED
    BY <1>0, <1>plain, <1>17, <2>1, UnwindStatus, StatusOfOps DEF DeadlineStrikes, Interrupt
<1>18. ASSUME NEW t \in Tasks, StartWire(t) \/ Reach(t) \/ CompleteMessage(t) PROVE StatusMoves
  <2>1. turn'.status = turn.status /\ turn'.committed = turn.committed
    BY <1>0, <1>18 DEF StartWire, Reach, CompleteMessage, TurnType
  <2> QED
    BY <1>plain, <2>1
<1>19. ASSUME NEW t \in Tasks, OutputClosed(t) \/ SendFails(t) \/ CompletionFails(t)
       PROVE  StatusMoves
  <2>1. MainFails(send[t].kind) \/ PersonalFails
    BY <1>19 DEF OutputClosed, SendFails, CompletionFails, SendStops
  <2>2. ASSUME PersonalFails
        PROVE  turn'.status = turn.status /\ turn'.committed = turn.committed
    BY <1>0, <2>2 DEF PersonalFails, TurnType
  <2> QED
    BY <1>plain, <2>1, <2>2, MainFailsStatus
<1>20. CASE UNCHANGED vars
  BY <1>plain, <1>20 DEF vars
<1> QED
  BY <1>1, <1>2, <1>3, <1>4, <1>5, <1>6, <1>7, <1>9, <1>10, <1>11, <1>12, <1>13, <1>14, <1>15,
     <1>16, <1>17, <1>18, <1>19, <1>20
    DEF Next, PersonalStep, MainStep, Failing, Deliver, Tasks

(* What a step does to the Personal reply: nothing, a decision, a step of  *)
(* its delivery, or the end of its task.                                   *)
ReplyRests ==
    /\ personal'.at = personal.at
    /\ send'["personal"] = send["personal"]
    /\ turn'.persona # turn.persona => turn.persona = "pending"
    /\ shown' = shown \/ shown' = Append(shown, send["main"].kind)

ReplyDecided ==
    /\ personal.at = "planning"
    /\ shown' = shown
    /\ \/ personal'.at = "sending" /\ send'["personal"].step = "preparing"
       \/ personal'.at \in {"returned", "raised"} /\ send'["personal"] = send["personal"]

ReplyGoesOn ==
    /\ send["personal"].step # "none"
    /\ personal'.at = personal.at
    /\ \/ /\ send["personal"].step = "preparing" /\ send'["personal"].step = "wire"
          /\ shown' = shown
       \/ send["personal"].step = "wire" /\ send'["personal"].step = "shown"
       \/ /\ send["personal"].step = "shown" /\ send'["personal"].step = "completing"
          /\ shown' = shown

ReplyEnds ==
    /\ ~Ended(personal)
    /\ send'["personal"] = NoSend
    /\ \/ personal'.at \in {"raised", "cancelled"}
       \/ personal'.at = "returned" /\ turn'.persona = "emitted"
       \/ /\ personal'.at = "returned"
          /\ send["personal"].step = "preparing" /\ shown' = shown

SendingOnly == send["personal"].step # "none" => personal.at = "sending"

ReplyMoves == ReplyRests \/ ReplyDecided \/ ReplyGoesOn \/ ReplyEnds

LEMMA ReplyMove == TypeOK /\ FinalInv /\ SendingOnly /\ [Next]_vars => ReplyMoves
<1> SUFFICES ASSUME TypeOK, FinalInv, SendingOnly, [Next]_vars
             PROVE  ReplyMoves
  OBVIOUS
<1>0. /\ turn \in TurnType /\ main \in MainType /\ personal \in PersonalType
      /\ send \in [Tasks -> SendType]
  BY DEF TypeOK
<1>rests. ASSUME personal'.at = personal.at, send'["personal"] = send["personal"],
             turn'.persona # turn.persona => turn.persona = "pending",
             shown' = shown \/ shown' = Append(shown, send["main"].kind)
      PROVE  ReplyMoves
  BY <1>rests DEF ReplyMoves, ReplyRests
<1>asked. \A b : AskIf(b, personal).at = personal.at
  BY <1>0 DEF AskIf, Ask, PersonalType
<1>main. \A s : KeepSend("main", s) => send'["personal"] = send["personal"]
  BY <1>0 DEF KeepSend, Tasks
<1>1. ASSUME CommitTurn PROVE ReplyMoves
  <2>1. PICK c \in TurnType : c = [turn EXCEPT !.committed = TRUE]
    BY <1>0, TurnFields
  <2>2. c.persona = turn.persona
    BY <1>0, <2>1 DEF TurnType
  <2> QED
    BY <1>rests, <1>1, <2>1, <2>2, StatusOfOps DEF CommitTurn
<1>2. ASSUME Announce \/ CommitFails PROVE ReplyMoves
  BY <1>0, <1>2, <1>rests, StatusOfOps DEF Announce, CommitFails
<1>3. ASSUME VisibleCompletes \/ HookPasses PROVE ReplyMoves
  <2>1. PICK u \in TurnType : u = [turn EXCEPT !.pending = FALSE]
    BY <1>0, TurnFields
  <2>2. u.persona = turn.persona
    BY <1>0, <2>1 DEF TurnType
  <2>3. turn' = turn \/ \E n : Persist(turn, n) \/ Persist(u, n)
    BY <1>3, <2>1 DEF VisibleCompletes, HookPasses
  <2>4. turn'.persona = turn.persona
    BY <1>0, <2>2, <2>3, PersistStatus
  <2> QED
    BY <1>3, <1>rests, <2>4 DEF VisibleCompletes, HookPasses
<1>4. ASSUME HookStops \/ VisibleFails PROVE ReplyMoves
  <2>1. turn'.persona = turn.persona
    <3>1. CASE HookStops
      BY <1>0, <3>1, PersonaOfOps DEF HookStops
    <3>2. CASE VisibleFails
      BY <1>0, <3>2 DEF VisibleFails, TurnType
    <3> QED
      BY <1>4, <3>1, <3>2
  <2> QED
    BY <1>4, <1>rests, <2>1 DEF HookStops, VisibleFails
<1>5. ASSUME MainRecords PROVE ReplyMoves
  <2>1. send["main"].kind \in Kind
    BY <1>0, <1>5, OthersTyped DEF MainRecords, FinalInv, MessagesNamed, Tasks
  <2>2. PICK u \in TurnType : u = Recorded(turn, send["main"].kind)
    BY <1>0, <2>1, TurnOps
  <2>3. PICK v \in TurnType : v = [u EXCEPT !.flag = FALSE]
    BY TurnFields
  <2>4. PICK w \in TurnType : w = Finish(u, "delivered")
    BY TurnOps
  <2>5. PICK x \in TurnType : x = [w EXCEPT !.pending = turn.status # "completed"]
    BY TurnFields
  <2>6. \A y \in {u, v, w, x} : y.persona = turn.persona
    <3>1. u.persona = turn.persona /\ w.persona = u.persona
      BY <1>0, <2>2, <2>4, StatusOfOps
    <3>2. v.persona = u.persona /\ x.persona = w.persona
      BY <2>3, <2>5 DEF TurnType
    <3> QED
      BY <3>1, <3>2
  <2>7. \/ turn' = turn \/ turn' \in {u, x}
        \/ \E n : Persist(u, n) \/ Persist(v, n)
    BY <1>5, <2>2, <2>3, <2>4, <2>5 DEF MainRecords
  <2>8. turn'.persona = turn.persona
    BY <1>0, <2>6, <2>7, PersistStatus
  <2> QED
    BY <1>5, <1>rests, <1>main, <2>8 DEF MainRecords
<1>6. ASSUME MainWithholds PROVE ReplyMoves
  <2>1. PICK stop \in BOOLEAN, u \in TurnType :
           /\ u = [turn EXCEPT !.stopped = @ \/ stop]
           /\ turn' \in {Finish(Cancelled(u), "suppressed"), [u EXCEPT !.withheld = TRUE], u,
                         [FailedUnlessCompleted(Finish(u, "suppressed"))
                            EXCEPT !.flag = FALSE, !.withheld = TRUE]}
    <3>1. \A stop \in BOOLEAN : [turn EXCEPT !.stopped = @ \/ stop] \in TurnType
      BY <1>0, TurnFields, TurnValues
    <3> QED
      BY <1>6, <3>1 DEF MainWithholds
  <2>2. u.persona = turn.persona
    BY <1>0, <2>1, StatusOfFields
  <2>3. PICK f \in TurnType : f = FailedUnlessCompleted(Finish(u, "suppressed"))
    BY <2>1, TurnOps
  <2>4. f.persona = turn.persona
    <3>1. Finish(u, "suppressed") \in TurnType
      BY TurnOps
    <3> QED
      BY <2>2, <2>3, <3>1, StatusOfOps
  <2>5. PICK c \in TurnType : c = Cancelled(u)
    BY TurnOps
  <2>6. Finish(c, "suppressed").persona = turn.persona
    BY <2>2, <2>5, StatusOfOps
  <2>7. /\ [f EXCEPT !.flag = FALSE, !.withheld = TRUE].persona = f.persona
        /\ [u EXCEPT !.withheld = TRUE].persona = u.persona
    BY DEF TurnType
  <2>8. turn'.persona = turn.persona
    BY <2>1, <2>2, <2>3, <2>4, <2>5, <2>6, <2>7
  <2> QED
    BY <1>6, <1>rests, <1>main, <2>8 DEF MainWithholds
<1>7. ASSUME SuppressDuplicate PROVE ReplyMoves
  <2>1. PICK w \in TurnType : w = Finish(turn, "delivered")
    BY <1>0, TurnOps
  <2> QED
    BY <1>0, <1>7, <1>rests, <1>main, <2>1, StatusOfOps, StatusOfFields DEF SuppressDuplicate
<1>8. ASSUME CompleteSilently PROVE turn'.persona # turn.persona => turn.persona = "pending"
  <2>1. PICK r \in TurnType : r = Reserve(turn)
    BY <1>0, TurnOps
  <2>2. PICK w \in TurnType : w = Finish(r, "suppressed")
    BY TurnOps
  <2>3. w.persona = r.persona
    BY <2>2, StatusOfOps
  <2>4. turn' \in {Completed(w), Completed(turn)}
    BY <1>8, <2>1, <2>2 DEF CompleteSilently
  <2> QED
    BY <1>0, <2>1, <2>3, <2>4, StatusOfOps, PersonaOfOps
<1>9. ASSUME FollowRoute \/ PlanDeclines PROVE ReplyMoves
  <2>1. turn' = turn \/ CompleteSilently
    BY <1>9 DEF FollowRoute, PlanDeclines, CompleteReply
  <2> QED
    BY <1>9, <1>rests, <1>8, <2>1 DEF FollowRoute, PlanDeclines
<1>10. ASSUME PersonalEndsFirst \/ GatePasses \/ PlanExecutes \/ PlanFails \/ PlanTimesOut
              \/ CoreAnswers \/ CoreEnds \/ CoreRaises \/ ServeRequest \/ JobEnds
              \/ ExpiryHandled \/ GateResolves \/ Stopped
       PROVE  ReplyMoves
  BY <1>rests, <1>10 DEF PersonalEndsFirst, GatePasses, PlanExecutes, PlanFails, PlanTimesOut,
    CompleteReply, CoreAnswers, CoreEnds, CoreRaises, ServeRequest, JobEnds,
    ExpiryHandled, GateResolves, Stopped, vars
<1>11. ASSUME PluginTakesTurn \/ CaptureAnswer \/ ToolFinalizes \/ ClaimInline PROVE ReplyMoves
  <2>1. turn' \in {turn, SuppressPersona(turn), Reserve(turn)}
    BY <1>11 DEF PluginTakesTurn, CaptureAnswer, ToolFinalizes, ClaimInline
  <2>2. personal' = personal \/ \E b : personal' = AskIf(b, personal)
    BY <1>11 DEF PluginTakesTurn, CaptureAnswer, ToolFinalizes, ClaimInline
  <2>3. send' = send \/ \E s : KeepSend("main", s)
    BY <1>11 DEF PluginTakesTurn, CaptureAnswer, ToolFinalizes, ClaimInline
  <2>4. shown' = shown
    BY <1>11 DEF PluginTakesTurn, CaptureAnswer, ToolFinalizes, ClaimInline
  <2> QED
    BY <1>0, <1>asked, <1>rests, <1>main, <2>1, <2>2, <2>3, <2>4, PersonaOfOps
<1>12. ASSUME ToolReports \/ SendArtifact \/ SendFinalArtifact PROVE ReplyMoves
  BY <1>rests, <1>main, <1>12 DEF ToolReports, SendArtifact, SendFinalArtifact
<1>13. ASSUME InlineEnds \/ Release PROVE ReplyMoves
  <2>1. turn'.persona = turn.persona
    BY <1>0, <1>13, StatusOfOps DEF InlineEnds, Release
  <2> QED
    BY <1>13, <1>asked, <1>rests, <2>1 DEF InlineEnds, Release
<1>14. ASSUME ExpiryReplies \/ ExpiryIsSilent PROVE ReplyMoves
  <2>1. PICK r \in TurnType : r = Reserve(turn)
    BY <1>0, TurnOps
  <2>2. PICK w \in TurnType : w = Finish(r, "suppressed")
    BY TurnOps
  <2>3. turn' \in {[r EXCEPT !.flag = TRUE], FailedUnlessCompleted(w), FailedUnlessCompleted(turn)}
    BY <1>14, <2>1, <2>2 DEF ExpiryReplies, ExpiryIsSilent
  <2>4. w.persona = r.persona /\ [r EXCEPT !.flag = TRUE].persona = r.persona
    BY <2>2, StatusOfOps, StatusOfFields
  <2>5. turn'.persona \in {r.persona, turn.persona}
    <3>1. /\ FailedUnlessCompleted(w).persona = w.persona
          /\ FailedUnlessCompleted(turn).persona = turn.persona
      BY <1>0, StatusOfOps
    <3> QED
      BY <2>3, <2>4, <3>1
  <2>6. turn'.persona # turn.persona => turn.persona = "pending"
    BY <1>0, <2>1, <2>5, PersonaOfOps
  <2> QED
    BY <1>14, <1>asked, <1>rests, <1>main, <2>6 DEF ExpiryReplies, ExpiryIsSilent
<1>15. ASSUME PersonalPlans \/ PersonalRaises PROVE ReplyMoves
  <2>1. personal.at = "planning" /\ shown' = shown
    BY <1>15 DEF PersonalPlans, PersonalRaises
  <2>2. \/ personal'.at = "sending" /\ send'["personal"].step = "preparing"
        \/ personal'.at \in {"returned", "raised"} /\ send'["personal"] = send["personal"]
    BY <1>0, <1>15 DEF PersonalPlans, PersonalRaises, KeepSend, Preparing, PersonalType, Tasks
  <2> QED
    BY <2>1, <2>2 DEF ReplyMoves, ReplyDecided
<1>16. ASSUME PersonalCancelled PROVE ReplyMoves
  BY <1>0, <1>16 DEF PersonalCancelled, KeepSend, PersonalType, Tasks, ReplyMoves, ReplyEnds
<1>17. ASSUME EmitImmediate \/ WithholdImmediate PROVE ReplyMoves
  <2>1. personal.at = "sending"
    BY <1>17 DEF EmitImmediate, WithholdImmediate, SendingOnly
  <2>2. send'["personal"] = NoSend /\ personal'.at = "returned"
    BY <1>0, <1>17 DEF EmitImmediate, WithholdImmediate, KeepSend, PersonalType, Tasks
  <2>3. EmitImmediate => turn'.persona = "emitted"
    BY <1>0 DEF EmitImmediate, Recorded, TurnType
  <2>4. WithholdImmediate => send["personal"].step = "preparing" /\ shown' = shown
    BY DEF WithholdImmediate
  <2> QED
    BY <1>17, <2>1, <2>2, <2>3, <2>4 DEF Ended, ReplyMoves, ReplyEnds
<1>18. ASSUME DeadlineStrikes \/ Interrupt PROVE ReplyMoves
  <2>1. PICK t \in TurnType, p \in {"expired", "release"} : t.persona = turn.persona /\ Unwind(t, p)
    <3>1. Cancelled(turn) \in TurnType
      BY <1>0, TurnOps
    <3> QED
      BY <1>0, <1>18, <3>1, StatusOfOps DEF DeadlineStrikes, Interrupt
  <2>2. turn'.persona = turn.persona
    BY <2>1, UnwindStatus
  <2> QED
    BY <1>asked, <1>rests, <1>main, <2>1, <2>2 DEF Unwind
<1>19. ASSUME StartWire("personal") \/ Reach("personal") \/ CompleteMessage("personal")
       PROVE  ReplyMoves
  BY <1>0, <1>19 DEF StartWire, Reach, CompleteMessage, KeepSend, SendType, Tasks, ReplyMoves,
    ReplyGoesOn
<1>20. ASSUME StartWire("main") \/ Reach("main") \/ CompleteMessage("main") PROVE ReplyMoves
  <2>1. turn'.persona = turn.persona
    BY <1>0, <1>20 DEF StartWire, Reach, CompleteMessage, TurnType
  <2> QED
    BY <1>20, <1>rests, <1>main, <2>1 DEF StartWire, Reach, CompleteMessage
<1>21. ASSUME NEW t \in Tasks, OutputClosed(t) \/ SendFails(t) \/ CompletionFails(t)
       PROVE  ReplyMoves
  <2>1. SendStops(t) /\ send[t].step # "none" /\ shown' = shown
    BY <1>21 DEF OutputClosed, SendFails, CompletionFails
  <2>2. CASE t = "main"
    <3>1. MainFails(send["main"].kind) /\ KeepSend("main", NoSend)
      BY <2>1, <2>2 DEF SendStops
    <3> QED
      BY <1>rests, <1>main, <2>1, <3>1, MainFailsStatus DEF MainFails
  <2>3. CASE t = "personal"
    <3>1. PersonalFails /\ KeepSend("personal", NoSend) /\ personal.at = "sending"
      BY <2>1, <2>3 DEF SendStops, SendingOnly
    <3>2. send'["personal"] = NoSend /\ personal'.at = "raised"
      BY <1>0, <3>1 DEF PersonalFails, KeepSend, PersonalType, Tasks
    <3> QED
      BY <3>1, <3>2 DEF Ended, ReplyMoves, ReplyEnds
  <2> QED
    BY <2>2, <2>3 DEF Tasks
<1>22. CASE UNCHANGED vars
  BY <1>rests, <1>22 DEF vars
<1> QED
  BY <1>1, <1>2, <1>3, <1>4, <1>5, <1>6, <1>7, <1>9, <1>10, <1>11, <1>12, <1>13, <1>14, <1>15,
     <1>16, <1>17, <1>18, <1>19, <1>20, <1>21, <1>22
    DEF Next, PersonalStep, MainStep, Failing, Deliver, Tasks

(* The strengthening.  A reply that was shown is known to its task, or the *)
(* turn has not got past the route; a turn that is completed in silence is *)
(* at its end.                                                             *)
EarlyIsQuiet == main.at \in Early => \A i \in DOMAIN shown : shown[i] = "immediate"

ReplyKnown ==
    Shown("immediate") =>
        /\ personal.at # "planning"
        /\ send["personal"].step \notin {"preparing", "wire"}
        /\ personal.at = "returned" => turn.persona = "emitted"

PlannedReturned == main.at = "plan" => personal.at = "returned"

CommittedKept == turn.committed => history # <<>>

SilentIsOver ==
    turn.status = "completed" /\ history = <<>> =>
        shown = <<>> /\ Ended(personal) /\ main.at \in Late

KeptInv == SendingOnly /\ EarlyIsQuiet /\ ReplyKnown /\ PlannedReturned /\ CommittedKept /\ SilentIsOver

LEMMA KeptStep == TypeOK /\ FinalInv /\ KeptInv /\ [Next]_vars => KeptInv'
<1> SUFFICES ASSUME TypeOK, FinalInv, KeptInv, [Next]_vars
             PROVE  KeptInv'
  OBVIOUS
<1>0. /\ shown \in Seq(Kind) /\ history \in Seq(SUBSET Kind)
      /\ personal \in PersonalType /\ send["personal"].step \in {"none", "preparing", "wire", "shown", "completing"}
      /\ \A s \in Tasks : send[s].kind = "none" <=> send[s].step = "none"
      /\ send["personal"].kind \in {"none", "immediate"}
      /\ send["main"].kind \in (Kind \cup {"none"}) \ {"immediate"}
  BY DEF TypeOK, SendType, Tasks, FinalInv, MessagesNamed, SendPlace
<1>1. PlaceMoves /\ StatusMoves /\ ReplyMoves /\ DeliveryMoves
  BY PlacesMove, StatusMove, ReplyMove, DeliveriesMove DEF KeptInv
<1>2. \/ shown' = shown
      \/ send["main"].step = "wire" /\ shown' = Append(shown, send["main"].kind)
      \/ send["personal"].step = "wire" /\ shown' = Append(shown, "immediate")
  BY <1>0, <1>1 DEF DeliveryMoves, Tasks
<1>3. history # <<>> => history' = history
  BY <1>1 DEF DeliveryMoves, Appended
<1>4. main.at \in Early \cup Late => send["main"].step = "none"
  BY <1>0, IdleAt DEF Early, Late, Tasks
<1>5. SendingOnly'
  <2>1. NoSend.step = "none"
    BY DEF NoSend
  <2> QED
    BY <1>0, <1>1, <2>1 DEF KeptInv, SendingOnly, ReplyMoves, ReplyRests, ReplyDecided, ReplyGoesOn,
      ReplyEnds
<1>6. EarlyIsQuiet'
  <2> SUFFICES ASSUME main'.at \in Early PROVE \A i \in DOMAIN shown' : shown'[i] = "immediate"
    BY DEF EarlyIsQuiet
  <2>1. \A i \in DOMAIN shown : shown[i] = "immediate"
    BY <1>1 DEF PlaceMoves, KeptInv, EarlyIsQuiet
  <2>2. shown' = shown \/ shown' = Append(shown, "immediate")
    BY <1>1, <1>2, <1>4 DEF PlaceMoves
  <2> QED
    BY <1>0, <2>1, <2>2
<1>7. Shown("immediate")' =>
        Shown("immediate") \/ (send["personal"].step = "wire" /\ shown' = Append(shown, "immediate"))
  <2>1. CASE shown' = shown
    BY <2>1 DEF Shown
  <2>2. CASE send["main"].step = "wire" /\ shown' = Append(shown, send["main"].kind)
    <3>1. send["main"].kind \in Kind /\ send["main"].kind # "immediate"
      BY <1>0, <2>2 DEF Tasks
    <3> QED
      BY <1>0, <2>2, <3>1 DEF Shown
  <2> QED
    BY <1>2, <2>1, <2>2
<1>8. ReplyKnown'
  <2> SUFFICES ASSUME Shown("immediate")'
               PROVE  /\ personal'.at # "planning"
                      /\ send'["personal"].step \notin {"preparing", "wire"}
                      /\ personal'.at = "returned" => turn'.persona = "emitted"
    BY DEF ReplyKnown
  <2>1. CASE Shown("immediate")
    <3>1. /\ personal.at # "planning"
          /\ send["personal"].step \notin {"preparing", "wire"}
          /\ personal.at = "returned" => turn.persona = "emitted"
      BY <2>1 DEF KeptInv, ReplyKnown
    <3>2. CASE ReplyRests
      BY <3>1, <3>2 DEF ReplyRests
    <3>3. CASE ReplyGoesOn
      BY <3>1, <3>3 DEF ReplyGoesOn, KeptInv, SendingOnly
    <3>4. CASE ReplyEnds
      BY <3>1, <3>4 DEF ReplyEnds, NoSend
    <3> QED
      BY <1>1, <3>1, <3>2, <3>3, <3>4 DEF ReplyMoves, ReplyDecided
  <2>2. CASE ~Shown("immediate")
    <3>1. send["personal"].step = "wire" /\ personal.at = "sending" /\ shown' = Append(shown, "immediate")
      BY <1>7, <2>2 DEF KeptInv, SendingOnly
    <3>2. shown' # shown /\ (shown' = Append(shown, send["main"].kind) => send["main"].kind = "immediate")
      <4>1. shown \in Seq(Kind \cup {"none"}) /\ "immediate" \in Kind
        BY <1>0 DEF Kind
      <4>2. shown' # shown
        BY <2>2 DEF Shown
      <4>3. ASSUME shown' = Append(shown, send["main"].kind) PROVE send["main"].kind = "immediate"
        BY <1>0, <3>1, <4>1, <4>3
      <4> QED
        BY <4>2, <4>3
    <3> QED
      BY <1>0, <1>1, <3>1, <3>2 DEF ReplyMoves, ReplyRests, ReplyDecided, ReplyGoesOn, ReplyEnds, NoSend
  <2> QED
    BY <2>1, <2>2
<1>9. Ended(personal) => personal'.at = personal.at
  BY <1>1 DEF KeptInv, SendingOnly, Ended, ReplyMoves, ReplyRests, ReplyDecided, ReplyGoesOn, ReplyEnds
<1>10. PlannedReturned'
  BY <1>1, <1>9 DEF KeptInv, PlannedReturned, PlaceMoves, Ended
<1>11. CommittedKept'
  BY <1>1, <1>3 DEF KeptInv, CommittedKept, StatusMoves
<1>12. SilentIsOver'
  <2> SUFFICES ASSUME turn'.status = "completed", history' = <<>>
               PROVE  shown' = <<>> /\ Ended(personal)' /\ main'.at \in Late
    BY DEF SilentIsOver
  <2>1. history = <<>> /\ ~turn.committed
    BY <1>3 DEF KeptInv, CommittedKept
  <2>2. CASE turn.status = "completed"
    <3>1. shown = <<>> /\ Ended(personal) /\ main.at \in Late
      BY <2>1, <2>2 DEF KeptInv, SilentIsOver
    <3>2. send["main"].step = "none" /\ send["personal"].step = "none"
      BY <1>4, <3>1 DEF KeptInv, SendingOnly, Ended
    <3> QED
      BY <1>1, <1>2, <1>9, <3>1, <3>2 DEF PlaceMoves, Ended
  <2>3. CASE SilentEnd
    <3>1. personal.at = "returned" /\ main.at \in Early /\ turn.persona # "emitted"
      BY <2>3 DEF SilentEnd, At, Early, KeptInv, PlannedReturned
    <3>2. ~Shown("immediate")
      BY <3>1 DEF KeptInv, ReplyKnown
    <3>3. shown = <<>>
      <4>1. DOMAIN shown = {}
        BY <3>1, <3>2 DEF KeptInv, EarlyIsQuiet, Shown
      <4> QED
        BY <1>0, <4>1
    <3> QED
      BY <2>3, <3>1, <3>3 DEF SilentEnd, Ended, Late
  <2> QED
    BY <1>1, <2>1, <2>2, <2>3 DEF StatusMoves
<1> QED
  BY <1>5, <1>6, <1>8, <1>10, <1>11, <1>12 DEF KeptInv

LEMMA KeptStarts == Init => KeptInv
<1> SUFFICES ASSUME Init PROVE KeptInv
  OBVIOUS
<1>1. /\ shown = <<>> /\ personal.at = "planning" /\ send["personal"].step = "none"
      /\ main.at # "plan" /\ ~turn.committed /\ turn.status = "active"
  BY DEF Init, NoSend, Tasks
<1>2. ~Shown("immediate") /\ DOMAIN shown = {}
  BY <1>1 DEF Shown
<1> QED
  BY <1>1, <1>2 DEF KeptInv, SendingOnly, EarlyIsQuiet, ReplyKnown, PlannedReturned, CommittedKept,
    SilentIsOver

(* A turn that counts as completed is in the history, or has shown nothing *)
(* at all, whatever commit fails and whichever task is cancelled where.    *)
THEOREM CompletedTurnsAreKept == Spec => []CompletedIsKept
<1>1. Init => KeptInv
  BY KeptStarts
<1>2. TypeOK /\ FinalInv /\ KeptInv /\ [Next]_vars => KeptInv'
  BY KeptStep
<1>3. KeptInv => CompletedIsKept
  BY DEF KeptInv, SilentIsOver, CompletedIsKept
<1> QED
  BY <1>1, <1>2, <1>3, TypeCorrect, PTL DEF Spec
=============================================================================
