----------------------------- MODULE TurnOutput -----------------------------
(***************************************************************************)
(* What one coordinated interaction turn shows and remembers               *)
(* (interaction/turn_state.py, output_controller.py, middleware.py,        *)
(* turn_coordinator.py, pipeline/process_stage/stage.py).                  *)
(*                                                                         *)
(* Two tasks write to the user.  The Personal task commits an immediate    *)
(* reply and sends it; the main task waits for the Personal route and for  *)
(* the plugin gate, runs the Core or serves the plugin's provider requests,*)
(* delivers the answer, the plugin's artifacts or a failure reply, and     *)
(* commits the turn to the conversation history.  They share the turn      *)
(* state: the Personal status, the one final-output reservation, the       *)
(* terminal status, the flag that marks an immediate reply in progress and *)
(* the reason that closes the output.                                      *)
(*                                                                         *)
(* A region under the turn lock holds no await, so it is one step.  A task *)
(* may be overtaken between any two steps below, which are its awaits.     *)
(***************************************************************************)
EXTENDS Naturals, Sequences, FiniteSets

CONSTANTS
    Gates,        \* what the plugin branch may decide in the explored turns
    Faults,       \* the failures that may happen, each at most once
    MaxMessages   \* how many messages and requests the main task may start

ASSUME GatesAssumption == Gates \subseteq {"passed", "handled", "delegated"}
ASSUME FaultsAssumption ==
    Faults \subseteq {"send", "completion", "commit", "deadline", "interrupt"}
ASSUME MaxMessagesAssumption == MaxMessages \in Nat

VARIABLES
    turn,      \* the InteractionTurnState shared by the two tasks
    gate,      \* the plugin gate: open, or its resolution
    main,      \* the main task
    personal,  \* the Personal task
    send,      \* the message each task is sending
    shown,     \* the messages the platform has shown, in order
    history,   \* the entries of this turn in the conversation history
    hit        \* the faults that have happened

vars == <<turn, gate, main, personal, send, shown, history, hit>>

Tasks == {"main", "personal"}

(* The kinds of message.  "raw" is a Core answer that was taken for an     *)
(* immediate reply; "side" is a plugin message or a tool's progress.       *)
Final == {"answer", "plugin", "tool", "failure"}
Kind == Final \cup {"immediate", "raw", "side"}

NoSend == [kind |-> "none", step |-> "none"]
Preparing(k) == [kind |-> k, step |-> "preparing"]

TurnType == [persona : {"pending", "committed", "emitted", "suppressed", "failed"},
             final : {"pending", "reserved", "delivered", "suppressed", "failed"},
             status : {"active", "completed", "failed", "cancelled"},
             closed : {"open", "turn_completed", "turn_cancelled", "turn_cleanup"},
             route : {"none", "silent", "persona", "hybrid"},
             flag : BOOLEAN,         \* emitting_immediate_reply
             replied : BOOLEAN,      \* an immediate reply text is set
             withheld : BOOLEAN,     \* the immediate reply was suppressed before output
             stopped : BOOLEAN,      \* a hook stopped the event
             pending : BOOLEAN,      \* finalization_pending of a respond stage
             committed : BOOLEAN,    \* the committed turn id is set
             recorded : SUBSET Kind] \* the visible outputs worth remembering

Place == {"control", "gate", "personal", "plan", "visible", "core", "serve",
          "respond", "hook", "inline", "owned", "trailing", "commit",
          "announce", "expired", "failing", "release", "done"}
Resumption == {"core", "inline", "end", "failing", "expired"}

MainType == [at : Place,
             next : Resumption,      \* where a settled commit resumes
             advancing : BOOLEAN,    \* inside anext under the turn deadline
             head : BOOLEAN,         \* a Core execution is open
             entry : SUBSET Kind,    \* the material being committed
             started : 0..MaxMessages]

PersonalType == [at : {"planning", "sending", "returned", "raised", "cancelled"},
                 asked : BOOLEAN]    \* its cancellation was requested

SendType == [kind : Kind \cup {"none"},
             step : {"none", "preparing", "wire", "shown", "completing"}]

TypeOK ==
    /\ turn \in TurnType
    /\ gate \in Gates \cup {"open"}
    /\ main \in MainType
    /\ personal \in PersonalType
    /\ send \in [Tasks -> SendType]
    /\ shown \in Seq(Kind)
    /\ history \in Seq(SUBSET Kind)
    /\ hit \subseteq Faults

Shown(k) == \E i \in DOMAIN shown : shown[i] = k

(* A turn without a plugin launch starts as one whose gate has passed: the *)
(* coordinator then awaits the Personal task itself.                       *)
Init ==
    /\ turn = [persona |-> "pending", final |-> "pending", status |-> "active",
               closed |-> "open", route |-> "none", flag |-> FALSE,
               replied |-> FALSE, withheld |-> FALSE, stopped |-> FALSE,
               pending |-> FALSE, committed |-> FALSE, recorded |-> {}]
    /\ gate \in {"open"} \cup (Gates \cap {"passed"})
    /\ main = [at |-> IF gate = "open" THEN "control" ELSE "personal",
               next |-> "end", advancing |-> TRUE, head |-> FALSE,
               entry |-> {}, started |-> 0]
    /\ personal = [at |-> "planning", asked |-> FALSE]
    /\ send = [t \in Tasks |-> NoSend]
    /\ shown = <<>>
    /\ history = <<>>
    /\ hit = {}

-----------------------------------------------------------------------------
(* Operations of the turn state.                                           *)

Close(t, reason) == [t EXCEPT !.closed = IF @ = "open" THEN reason ELSE @]
Completed(t) == Close([t EXCEPT !.status = "completed"], "turn_completed")
Cancelled(t) == Close([t EXCEPT !.status = "cancelled"], "turn_cancelled")
FailedUnlessCompleted(t) ==
    [t EXCEPT !.status = IF @ = "completed" THEN @ ELSE "failed"]

SuppressPersona(t) == [t EXCEPT !.persona = IF @ = "pending" THEN "suppressed" ELSE @]

SlipReservable(t) == t.final \in {"pending", "failed"}
Reservable(t) == t.final = "pending"
Reserve(t) == [SuppressPersona(t) EXCEPT !.final = "reserved"]

(* finish_interaction_turn_final_output by the owner of the reservation.   *)
Finish(t, outcome) == [t EXCEPT !.final = outcome]

(* The cancellation that comes with a suppressed Personal task.            *)
Ask(p) == [p EXCEPT !.asked = TRUE]
AskIf(b, p) == IF b THEN Ask(p) ELSE p

Ended(p) == p.at \in {"returned", "raised", "cancelled"}

Busy(t) == send[t] # NoSend
Idle(t) == ~Busy(t)

At(places) == main.at \in places
Goto(place) == [main EXCEPT !.at = place]
Raise == [main EXCEPT !.at = "release", !.head = FALSE]

(* The main task starts a message, within the bound.                       *)
CanStart == main.started < MaxMessages
Count(m) == [m EXCEPT !.started = @ + 1]

Happens(f) == f \in Faults \ hit /\ hit' = hit \cup {f}

-----------------------------------------------------------------------------
(* Persisting the turn: _persist_interaction_turn, its middleware callback *)
(* and _finalize_turn up to the append to the conversation.                *)

(* The respond stage is left: a stopped event closes the generator, else   *)
(* it is advanced again, under the deadline unless the final is claimed.   *)
Return(t) ==
    IF t.stopped THEN Raise
    ELSE [Goto("core") EXCEPT !.advancing = t.final = "pending"]

(* Where a settled commit resumes.                                         *)
SlipResume(t, next) == IF next = "core" THEN Goto("core") ELSE main
Resume(t, next) ==
    CASE next = "core" /\ ~main.advancing -> Return(t)
      [] next = "core" /\ main.advancing -> Goto("core")
      [] next = "inline" -> Goto("trailing")
      [] next = "expired" -> Goto("expired")
      [] OTHER -> Raise

(* The reservation of a tool's output and of a failure reply ends with the *)
(* commit, that of the plugin's artifacts once they are through.           *)
Settled(t, next) ==
    IF next \in {"core", "failing"} /\ t.final = "reserved"
    THEN Finish(t, "delivered") ELSE t

Persist(t, next) ==
    IF t.status = "completed"
    THEN /\ turn' = Settled(t, next)
         /\ main' = Resume(turn', next)
    ELSE IF t.recorded = {}
         THEN /\ turn' = [t EXCEPT !.status = "failed"]
              /\ main' = [main EXCEPT !.at = "announce", !.next = next]
         ELSE /\ turn' = t
              /\ main' = [main EXCEPT !.at = "commit", !.next = next,
                                      !.entry = t.recorded]

(* The append to the conversation is keyed by the turn id.                 *)
SlipAppended(entry) == Append(history, entry)
Appended(entry) == IF history = <<>> THEN Append(history, entry) ELSE history

CommitTurn ==
    /\ At({"commit"})
    /\ history' = IF turn.committed THEN history ELSE Appended(main.entry)
    /\ turn' = Completed([turn EXCEPT !.committed = TRUE])
    /\ main' = Goto("announce")
    /\ UNCHANGED <<gate, personal, send, shown, hit>>

(* A commit that failed completes the turn.                                *)
SlipCommitLost(t) == Completed(t)
CommitLost(t) == [t EXCEPT !.status = "failed"]

(* Three attempts failed: the turn has failed after visible output.        *)
CommitFails ==
    /\ At({"commit"})
    /\ ~turn.committed
    /\ Happens("commit")
    /\ turn' = CommitLost(turn)
    /\ main' = Goto("announce")
    /\ UNCHANGED <<gate, personal, send, shown, history>>

(* The lifecycle hooks were told; then the reservation is settled.         *)
Announce ==
    /\ At({"announce"})
    /\ turn' = Settled(turn, main.next)
    /\ main' = Resume(turn', main.next)
    /\ UNCHANGED <<gate, personal, send, shown, history, hit>>

-----------------------------------------------------------------------------
(* Sending one message: _deliver_visible_message.  The output is refused   *)
(* when it is closed before the send and again before the completion.      *)

KeepSend(t, m) == send' = [send EXCEPT ![t] = m]

(* What a message that cannot be delivered leaves behind.                  *)
MainFails(kind) ==
    /\ turn' = [CASE kind \in Final -> Finish(turn, "failed")
                  [] kind = "side" /\ At({"owned", "trailing"}) -> Finish(turn, "failed")
                  [] OTHER -> turn
                EXCEPT !.flag = IF kind = "failure" THEN FALSE ELSE @,
                       !.status = IF kind = "failure" /\ @ # "completed"
                                  THEN "failed" ELSE @]
    /\ main' = IF At({"respond"}) THEN Return(turn')
               ELSE IF At({"core"}) THEN main ELSE Raise
    /\ personal' = personal

PersonalFails ==
    /\ turn' = [turn EXCEPT !.persona = "failed", !.flag = FALSE]
    /\ personal' = [personal EXCEPT !.at = "raised"]
    /\ main' = main

SendStops(t) ==
    /\ KeepSend(t, NoSend)
    /\ IF t = "main" THEN MainFails(send[t].kind) ELSE PersonalFails

(* Contributions, materialisation and the speaking hooks come first.       *)
StartWire(t) ==
    /\ send[t].step = "preparing"
    /\ turn.closed = "open"
    /\ KeepSend(t, [send[t] EXCEPT !.step = "wire"])
    /\ turn' = [turn EXCEPT !.replied = @ \/ send[t].kind \in {"immediate", "raw", "failure"}]
    /\ UNCHANGED <<gate, main, personal, shown, history, hit>>

Reach(t) ==
    /\ send[t].step = "wire"
    /\ shown' = Append(shown, send[t].kind)
    /\ KeepSend(t, [send[t] EXCEPT !.step = "shown"])
    /\ UNCHANGED <<turn, gate, main, personal, history, hit>>

SendFails(t) ==
    /\ send[t].step = "wire"
    /\ Happens("send")
    /\ SendStops(t)
    /\ UNCHANGED <<gate, shown, history>>

CompleteMessage(t) ==
    /\ send[t].step = "shown"
    /\ turn.closed = "open"
    /\ KeepSend(t, [send[t] EXCEPT !.step = "completing"])
    /\ UNCHANGED <<turn, gate, main, personal, shown, history, hit>>

OutputClosed(t) ==
    /\ send[t].step \in {"preparing", "shown"}
    /\ turn.closed # "open"
    /\ SendStops(t)
    /\ UNCHANGED <<gate, shown, history, hit>>

CompletionFails(t) ==
    /\ send[t].step = "completing"
    /\ Happens("completion")
    /\ SendStops(t)
    /\ UNCHANGED <<gate, shown, history>>

Recorded(t, kind) == [t EXCEPT !.recorded = @ \cup {kind}]

(* The Personal task: the reply was delivered, or the output policy        *)
(* withheld it before it was prepared.                                     *)
EmitImmediate ==
    /\ send["personal"].step = "completing"
    /\ KeepSend("personal", NoSend)
    /\ turn' = [Recorded(turn, "immediate") EXCEPT !.persona = "emitted", !.flag = FALSE]
    /\ personal' = [personal EXCEPT !.at = "returned"]
    /\ UNCHANGED <<gate, main, shown, history, hit>>

WithholdImmediate ==
    /\ send["personal"].step = "preparing"
    /\ KeepSend("personal", NoSend)
    /\ \E stop \in BOOLEAN :
         turn' = [turn EXCEPT !.persona = "suppressed", !.flag = FALSE,
                              !.withheld = TRUE, !.stopped = @ \/ stop]
    /\ personal' = [personal EXCEPT !.at = "returned"]
    /\ UNCHANGED <<gate, main, shown, history, hit>>

(* The main task's message is through.  In the respond stage persisting    *)
(* waits until the after-message hooks have run.                           *)
MainRecords ==
    LET kind == send["main"].kind IN
    /\ send["main"].step = "completing"
    /\ KeepSend("main", NoSend)
    /\ CASE kind = "answer" ->
               /\ turn' = [Finish(Recorded(turn, kind), "delivered")
                             EXCEPT !.pending = turn.status # "completed"]
               /\ main' = Goto("hook")
         [] kind = "raw" ->
               /\ turn' = Recorded(turn, kind)
               /\ main' = Goto("hook")
         [] kind = "tool" -> Persist(Recorded(turn, kind), "core")
         [] kind = "plugin" -> Persist(Recorded(turn, kind), "inline")
         [] kind = "failure" ->
               Persist([Recorded(turn, kind) EXCEPT !.flag = FALSE], "failing")
         [] OTHER -> UNCHANGED <<turn, main>>
    /\ UNCHANGED <<gate, personal, shown, history, hit>>

(* The output policy leaves nothing to send, and may stop the event.       *)
MainWithholds ==
    LET kind == send["main"].kind IN
    \E stop \in BOOLEAN :
    LET seen == [turn EXCEPT !.stopped = @ \/ stop] IN
    /\ send["main"].step = "preparing"
    /\ kind \in {"answer", "raw", "plugin", "failure"}
    /\ KeepSend("main", NoSend)
    /\ CASE kind = "answer" ->
               /\ turn' = Finish(Cancelled(seen), "suppressed")
               /\ main' = Return(turn')
         [] kind = "raw" ->
               /\ turn' = [seen EXCEPT !.withheld = TRUE]
               /\ main' = Goto("hook")
         [] kind = "plugin" ->
               /\ turn' = seen
               /\ main' = Goto("trailing")
         [] OTHER ->
               /\ turn' = [FailedUnlessCompleted(Finish(seen, "suppressed"))
                             EXCEPT !.flag = FALSE, !.withheld = TRUE]
               /\ main' = Goto("release")
    /\ UNCHANGED <<gate, personal, shown, history, hit>>

(* An answer that repeats the immediate reply is not sent again.           *)
SuppressDuplicate ==
    /\ send["main"] = Preparing("answer")
    /\ turn.replied
    /\ KeepSend("main", NoSend)
    /\ turn' = [Finish(turn, "delivered") EXCEPT !.pending = turn.status # "completed"]
    /\ main' = Goto("hook")
    /\ UNCHANGED <<gate, personal, shown, history, hit>>

-----------------------------------------------------------------------------
(* The Personal task.                                                      *)

(* The response plan: no expression, silence, a reply or a reply with Core *)
(* work.  A task that is no longer pending returns without publishing it.  *)
MayCommit(t) == t.persona = "pending" /\ t.final = "pending"

PersonalPlans ==
    /\ personal.at = "planning"
    /\ \E route \in {"none", "silent", "persona", "hybrid"} :
         LET planned == IF turn.persona = "pending"
                        THEN [turn EXCEPT !.route = route] ELSE turn
         IN IF route \in {"persona", "hybrid"} /\ MayCommit(turn)
            THEN /\ turn' = [planned EXCEPT !.persona = "committed", !.flag = TRUE]
                 /\ personal' = [personal EXCEPT !.at = "sending"]
                 /\ KeepSend("personal", Preparing("immediate"))
            ELSE /\ turn' = SuppressPersona(planned)
                 /\ personal' = [personal EXCEPT !.at = "returned"]
                 /\ send' = send
    /\ UNCHANGED <<gate, main, shown, history, hit>>

PersonalRaises ==
    /\ personal.at = "planning"
    /\ personal' = [personal EXCEPT !.at = "raised"]
    /\ UNCHANGED <<turn, gate, main, send, shown, history, hit>>

(* A requested cancellation reaches the task; the Personal status stays.   *)
PersonalCancelled ==
    /\ personal.asked
    /\ ~Ended(personal)
    /\ personal' = [personal EXCEPT !.at = "cancelled"]
    /\ KeepSend("personal", NoSend)
    /\ turn' = [turn EXCEPT !.flag = IF Busy("personal") THEN FALSE ELSE @]
    /\ shown' \in {shown} \cup
         (IF send["personal"].step = "wire"
          THEN {Append(shown, "immediate")} ELSE {})
    /\ UNCHANGED <<gate, main, history, hit>>

(* The plugin branch decides, or its window is over.                       *)
GateResolves ==
    /\ gate = "open"
    /\ gate' \in Gates
    /\ UNCHANGED <<turn, main, personal, send, shown, history, hit>>

-----------------------------------------------------------------------------
(* The main task: resolve_control.                                         *)

Suppressing == turn.persona = "pending"

(* A branch that takes the turn suppresses a Personal task that has not    *)
(* committed its reply.                                                    *)
PluginTakesTurn ==
    /\ At({"control", "gate"})
    /\ gate \in {"handled", "delegated"}
    /\ turn' = SuppressPersona(turn)
    /\ personal' = AskIf(Suppressing, personal)
    /\ main' = Goto(IF gate = "handled" THEN "inline" ELSE "serve")
    /\ UNCHANGED <<gate, send, shown, history, hit>>

(* The Personal task ended first: what it raised ends the turn, else the   *)
(* gate is awaited.                                                        *)
PersonalEndsFirst ==
    /\ At({"control"})
    /\ gate = "open"
    /\ Ended(personal)
    /\ main' = IF personal.at = "returned" THEN Goto("gate") ELSE Raise
    /\ UNCHANGED <<turn, gate, personal, send, shown, history, hit>>

GatePasses ==
    /\ At({"control", "gate"})
    /\ gate = "passed"
    /\ main' = Goto("personal")
    /\ UNCHANGED <<turn, gate, personal, send, shown, history, hit>>

(* complete_routed_turn once the Personal task is done: a reply that was   *)
(* emitted completes the turn, anything else completes it in silence.      *)
CompleteReply(next) ==
    /\ main' = [Goto("visible") EXCEPT !.next = next]
    /\ turn' = turn

CompleteSilently ==
    /\ turn' = Completed(IF turn.withheld /\ Reservable(turn)
                         THEN Finish(Reserve(turn), "suppressed") ELSE turn)
    /\ main' = Goto("release")

FollowRoute ==
    /\ At({"personal"})
    /\ Ended(personal)
    /\ IF personal.at # "returned" \/ turn.route = "none"
       THEN main' = Raise /\ turn' = turn
       ELSE IF turn.route = "hybrid"
            THEN main' = Goto("plan") /\ turn' = turn
            ELSE IF turn.persona = "emitted"
                 THEN CompleteReply("end") ELSE CompleteSilently
    /\ UNCHANGED <<gate, personal, send, shown, history, hit>>

PlanExecutes ==
    /\ At({"plan"})
    /\ main' = IF turn.stopped THEN Raise ELSE [Goto("core") EXCEPT !.head = TRUE]
    /\ UNCHANGED <<turn, gate, personal, send, shown, history, hit>>

PlanDeclines ==
    /\ At({"plan"})
    /\ IF turn.persona = "emitted" THEN CompleteReply("end") ELSE CompleteSilently
    /\ UNCHANGED <<gate, personal, send, shown, history, hit>>

(* The planner failed, or the deadline struck inside it: an emitted reply  *)
(* completes the turn before the failure goes on.                          *)
PlanFails ==
    /\ At({"plan"})
    /\ IF turn.persona = "emitted" THEN CompleteReply("end")
       ELSE main' = Raise /\ turn' = turn
    /\ UNCHANGED <<gate, personal, send, shown, history, hit>>

PlanTimesOut ==
    /\ At({"plan"})
    /\ Happens("deadline")
    /\ IF turn.persona = "emitted" THEN CompleteReply("expired")
       ELSE main' = Goto("expired") /\ turn' = turn
    /\ UNCHANGED <<gate, personal, send, shown, history>>

(* A turn completed by its immediate reply: the after-message hooks, the   *)
(* platform's completion, then the commit.                                 *)
VisibleCompletes ==
    /\ At({"visible"})
    /\ ~turn.stopped
    /\ Persist(turn, main.next)
    /\ UNCHANGED <<gate, personal, send, shown, history, hit>>

StoppedByHook(t) == [Cancelled(t) EXCEPT !.pending = FALSE, !.stopped = TRUE]

(* A hook that stops the event cancels the finalization.                   *)
HookStops ==
    /\ At({"visible", "hook"})
    /\ turn' = StoppedByHook(turn)
    /\ main' = IF At({"visible"}) THEN Resume(turn', main.next) ELSE Raise
    /\ UNCHANGED <<gate, personal, send, shown, history, hit>>

VisibleFails ==
    /\ At({"visible", "hook"})
    /\ Happens("completion")
    /\ turn' = [turn EXCEPT !.pending = FALSE]
    /\ main' = Raise
    /\ UNCHANGED <<gate, personal, send, shown, history>>

-----------------------------------------------------------------------------
(* The Core execution, under a delegated provider request or not, and the  *)
(* respond stage its answer goes through.                                  *)

AtCore == At({"core"}) /\ main.head /\ Idle("main")

(* The result leaves the generator: the deadline is not counted there.  A  *)
(* stopped event goes no further.                                          *)
CoreAnswers ==
    /\ AtCore
    /\ CanStart
    /\ main' = IF turn.stopped THEN Raise
               ELSE [Count(Goto("respond")) EXCEPT !.advancing = FALSE]
    /\ UNCHANGED <<turn, gate, personal, send, shown, history, hit>>

(* capture_message_chain: the flag of an immediate reply comes first, then *)
(* a final output that is claimed, then the reservation.                   *)
CaptureAnswer ==
    /\ At({"respond"})
    /\ Idle("main")
    /\ IF turn.flag
       THEN /\ KeepSend("main", Preparing("raw"))
            /\ UNCHANGED <<turn, main, personal>>
       ELSE IF Reservable(turn)
       THEN /\ KeepSend("main", Preparing("answer"))
            /\ turn' = Reserve(turn)
            /\ personal' = AskIf(Suppressing, personal)
            /\ main' = main
       ELSE /\ main' = Goto("hook")
            /\ UNCHANGED <<turn, send, personal>>
    /\ UNCHANGED <<gate, shown, history, hit>>

Deferred(t) == t.pending

(* The hooks passed and the turn was completed on the platform: a deferred *)
(* finalization is persisted.                                              *)
HookPasses ==
    /\ At({"hook"})
    /\ ~turn.stopped
    /\ IF Deferred(turn)
       THEN Persist([turn EXCEPT !.pending = FALSE], "core")
       ELSE turn' = turn /\ main' = Return(turn)
    /\ UNCHANGED <<gate, personal, send, shown, history, hit>>

(* A tool writes to the active turn while the Core runs.                   *)
ToolFinalizes ==
    /\ AtCore
    /\ CanStart
    /\ Reservable(turn)
    /\ turn' = Reserve(turn)
    /\ personal' = AskIf(Suppressing, personal)
    /\ KeepSend("main", Preparing("tool"))
    /\ main' = Count(main)
    /\ UNCHANGED <<gate, shown, history, hit>>

ToolReports ==
    /\ AtCore
    /\ CanStart
    /\ KeepSend("main", Preparing("side"))
    /\ main' = Count(main)
    /\ UNCHANGED <<turn, gate, personal, shown, history, hit>>

CoreEnds ==
    /\ AtCore
    /\ main' = IF gate = "delegated"
               THEN [Goto("serve") EXCEPT !.head = FALSE] ELSE Raise
    /\ UNCHANGED <<turn, gate, personal, send, shown, history, hit>>

CoreRaises ==
    /\ AtCore
    /\ main' = Raise
    /\ UNCHANGED <<turn, gate, personal, send, shown, history, hit>>

(* A delegated branch asks for a Core run, or its job ends.                *)
ServeRequest ==
    /\ At({"serve"})
    /\ CanStart
    /\ main' = [Count(Goto("core")) EXCEPT !.head = TRUE]
    /\ UNCHANGED <<turn, gate, personal, send, shown, history, hit>>

JobEnds ==
    /\ At({"serve"})
    /\ main' = Goto("inline")
    /\ UNCHANGED <<turn, gate, personal, send, shown, history, hit>>

-----------------------------------------------------------------------------
(* Inline delivery of the plugin's artifacts.  The last final artifact is  *)
(* sent under the final reservation; without it finals are dropped.        *)

AtInline == At({"inline", "owned", "trailing"}) /\ Idle("main")

ClaimInline ==
    /\ AtInline
    /\ At({"inline"})
    /\ Reservable(turn)
    /\ turn' = Reserve(turn)
    /\ personal' = AskIf(Suppressing, personal)
    /\ main' = Goto("owned")
    /\ UNCHANGED <<gate, send, shown, history, hit>>

SendArtifact ==
    /\ AtInline
    /\ CanStart
    /\ KeepSend("main", Preparing("side"))
    /\ main' = Count(main)
    /\ UNCHANGED <<turn, gate, personal, shown, history, hit>>

SendFinalArtifact ==
    /\ AtInline
    /\ At({"owned"})
    /\ KeepSend("main", Preparing("plugin"))
    /\ UNCHANGED <<turn, gate, main, personal, shown, history, hit>>

InlineEnds ==
    /\ AtInline
    /\ At({"inline", "trailing"})
    /\ turn' = IF At({"trailing"})
               THEN Finish(turn, IF "plugin" \in turn.recorded
                                 THEN "delivered" ELSE "suppressed")
               ELSE turn
    /\ main' = Goto("release")
    /\ UNCHANGED <<gate, personal, send, shown, history, hit>>

-----------------------------------------------------------------------------
(* The deadline, the interruption by newer input, and the release.         *)

(* The main task is cancelled wherever it waits.  A reservation it holds   *)
(* fails, an append or a platform send in flight may or may not have       *)
(* happened, and a Personal task it awaits is cancelled with it.           *)
Unwind(t, place) ==
    /\ turn' = [t EXCEPT !.final = IF @ = "reserved" THEN "failed" ELSE @,
                         !.flag = IF send["main"].kind = "failure" THEN FALSE ELSE @,
                         !.pending = FALSE]
    /\ history' \in {history} \cup
         (IF At({"commit"}) /\ ~turn.committed THEN {Appended(main.entry)} ELSE {})
    /\ shown' \in {shown} \cup
         (IF send["main"].step = "wire"
          THEN {Append(shown, send["main"].kind)} ELSE {})
    /\ KeepSend("main", NoSend)
    /\ personal' = AskIf(At({"personal"}) /\ ~Ended(personal), personal)
    /\ main' = [Goto(place) EXCEPT !.head = FALSE, !.advancing = FALSE]
    /\ UNCHANGED gate

(* asyncio.timeout around anext, unless the final output was claimed when  *)
(* the generator was advanced.                                             *)
UnderDeadline ==
    /\ main.advancing
    /\ ~At({"expired", "failing", "release", "done"})
    /\ "deadline" \in Faults \ hit

DeadlineStrikes ==
    /\ UnderDeadline
    /\ Happens("deadline")
    /\ Unwind(turn, "expired")

(* _handle_deadline_expiry: a completed turn keeps its reply; else a       *)
(* failure reply is sent if the final output is free.  A group gets none.  *)
ExpiryHandled ==
    /\ At({"expired"})
    /\ turn.status = "completed"
    /\ main' = Goto("release")
    /\ UNCHANGED <<turn, gate, personal, send, shown, history, hit>>

ExpiryReplies ==
    /\ At({"expired"})
    /\ turn.status # "completed"
    /\ Reservable(turn)
    /\ turn' = [Reserve(turn) EXCEPT !.flag = TRUE]
    /\ personal' = AskIf(Suppressing, personal)
    /\ KeepSend("main", Preparing("failure"))
    /\ main' = [Goto("failing") EXCEPT !.advancing = FALSE]
    /\ UNCHANGED <<gate, shown, history, hit>>

ExpiryIsSilent ==
    /\ At({"expired"})
    /\ turn.status # "completed"
    /\ turn' = FailedUnlessCompleted(IF Reservable(turn)
                                     THEN Finish(Reserve(turn), "suppressed") ELSE turn)
    /\ personal' = AskIf(Suppressing /\ Reservable(turn), personal)
    /\ main' = Goto("release")
    /\ UNCHANGED <<gate, send, shown, history, hit>>

(* Newer input of the user supersedes a turn whose Core execution is open. *)
Interrupt ==
    /\ main.head
    /\ Happens("interrupt")
    /\ Unwind(Cancelled(turn), "release")

(* The lease closes the output and cancels the tasks of the turn; it waits *)
(* for them one second at most.                                            *)
Release ==
    /\ At({"release"})
    /\ turn' = Close(turn, "turn_cleanup")
    /\ personal' = AskIf(~Ended(personal), personal)
    /\ main' = Goto("done")
    /\ UNCHANGED <<gate, send, shown, history, hit>>

Stopped ==
    /\ At({"done"})
    /\ Ended(personal)
    /\ UNCHANGED vars

-----------------------------------------------------------------------------
Deliver(t) ==
    StartWire(t) \/ Reach(t) \/ CompleteMessage(t) \/ OutputClosed(t)

PersonalStep ==
    \/ PersonalPlans \/ PersonalCancelled \/ EmitImmediate \/ WithholdImmediate
    \/ Deliver("personal")

MainStep ==
    \/ CommitTurn \/ Announce \/ MainRecords \/ MainWithholds \/ SuppressDuplicate
    \/ Deliver("main")
    \/ PluginTakesTurn \/ PersonalEndsFirst \/ GatePasses \/ FollowRoute
    \/ PlanExecutes \/ PlanDeclines \/ VisibleCompletes \/ HookStops
    \/ CoreAnswers \/ CaptureAnswer \/ HookPasses
    \/ ToolFinalizes \/ ToolReports \/ CoreEnds
    \/ ServeRequest \/ JobEnds
    \/ ClaimInline \/ SendArtifact \/ SendFinalArtifact \/ InlineEnds
    \/ ExpiryHandled \/ ExpiryReplies \/ ExpiryIsSilent \/ Release

Failing ==
    \/ CommitFails \/ PersonalRaises \/ PlanFails \/ PlanTimesOut \/ VisibleFails
    \/ CoreRaises \/ DeadlineStrikes \/ Interrupt
    \/ \E t \in Tasks : SendFails(t) \/ CompletionFails(t)

Next == PersonalStep \/ MainStep \/ GateResolves \/ Failing \/ Stopped

Spec == Init /\ [][Next]_vars

(* The deadline strikes where it is counted, whatever is awaited there;    *)
(* elsewhere the main task goes on: sends, hooks and the append end, and   *)
(* so does a Core run once a final output is claimed.  A Personal task     *)
(* that is cancelled ends.                                                 *)
LiveSpec ==
    /\ Spec
    /\ WF_vars(DeadlineStrikes)
    /\ WF_vars(MainStep /\ ~UnderDeadline)
    /\ WF_vars(PersonalCancelled)
-----------------------------------------------------------------------------
(* At most one message of the turn is sent under the final reservation:    *)
(* an answer, a plugin's final, a tool's final output and a failure reply  *)
(* exclude each other, whatever task is cancelled where                    *)
(* (reserve_interaction_turn_final_output, emit_failure_reply).            *)
FinalOnce ==
    \A i, j \in DOMAIN shown : shown[i] \in Final /\ shown[j] \in Final => i = j

(* A Personal reply that was suppressed stays so and is never shown,       *)
(* although its task may go on after its cancellation (suppress_interac-   *)
(* tion_turn_pending_persona, reserve_interaction_turn_immediate_output).  *)
SuppressedIsSilent ==
    [][turn.persona = "suppressed"
         => turn'.persona = "suppressed" /\ ~Shown("immediate")']_vars

(* When the lease is released nothing still holds the final output: every  *)
(* way out of a delivery, cancellation included, settles the reservation   *)
(* (finish_interaction_turn_final_output in except BaseException).         *)
FinalIsSettled == At({"done"}) => turn.final # "reserved"

(* The conversation gets at most one entry of a turn, and it holds only    *)
(* what the user was shown, also when a commit was cut and another         *)
(* persist follows (commit_interaction_conversation_turn).                 *)
HistoryIsTrue ==
    /\ Len(history) <= 1
    /\ \A i \in DOMAIN history : \A k \in history[i] : Shown(k)

(* A completed turn is in the history, unless it showed nothing at all: no *)
(* turn is completed in silence after a reply went out, and none completes *)
(* before its append (_finalize_turn, _complete_silent_or_committed_-      *)
(* persona_turn).                                                          *)
CompletedIsKept == turn.status = "completed" => history # <<>> \/ shown = <<>>

(* A cancelled turn does not become a completed one: neither the unwinding *)
(* of an interrupted task nor a deferred finalization that a hook stopped  *)
(* finishes it (cancel_deferred_turn_finalization, mark_interaction_turn_- *)
(* cancelled).                                                             *)
CancelledStays == [][turn.status = "cancelled" => turn'.status # "completed"]_vars

(* A final output that counts as delivered was decided: its turn ended     *)
(* completed, cancelled by a hook or failed by a fault, never left active  *)
(* with its finalization pending (flush_deferred_turn_finalization).       *)
DeliveredIsDecided ==
    At({"done"}) /\ turn.final = "delivered" /\ hit = {}
        => turn.status \in {"completed", "cancelled"}

(* The lease is released and both tasks end, though the Personal task, the *)
(* gate, the planner, the Core or a branch that is being served never      *)
(* does: the deadline comes for each of these waits.                       *)
TurnEnds == <>(At({"done"}) /\ Ended(personal))

(* A reply that was committed is shown or withheld by the output policy;   *)
(* no result of the plugin takes it back                                   *)
(* (docs/Yakumo/modules/interaction.md:80).                                *)
CommittedIsShown ==
    At({"done"}) /\ Ended(personal) => turn.persona \notin {"committed", "failed"}

(* Every Core answer that is shown holds the final-output reservation: the *)
(* Core's final result and the plugin's final output share the arbitration *)
(* of the turn (docs/Yakumo/README.md:28).                                 *)
AnswerIsClaimed == ~Shown("raw")

(* A final output that was claimed is delivered by what is under way: the  *)
(* deadline does not cut it                                                *)
(* (docs/Yakumo/dev/runtime-function-unification-plan.md:638).             *)
ClaimedIsFinished == turn.final # "failed"
=============================================================================
