--------------------------- MODULE PluginDelivery ---------------------------
(***************************************************************************)
(* One plugin job beside one turn (plugin_execution_runtime.py,            *)
(* turn_coordinator.py, plugin_handler_executor.py, plugin_branch.py,      *)
(* plugin_artifact_delivery.py, delayed_plugin_delivery.py, stage.py):     *)
(* the gate both of them wait for, the provider requests the job hands to  *)
(* the turn (T1), the artifacts it produces, their delivery inside the     *)
(* turn and, for those that come too late, in a background turn (T2) when  *)
(* the job has completed, and the ledger of deliveries both go through.    *)
(*                                                                         *)
(* Artifacts are numbered in the order of their production.  A final one   *)
(* belongs to the delivery group of its handler invocation; groups are     *)
(* numbered too.  The ledger's lock covers no await, so its operations are *)
(* steps.                                                                  *)
(*                                                                         *)
(* Slips the runs must notice are written before the operator they distort, *)
(* under names that begin with "Slip"; no operator of the model uses them. *)
(***************************************************************************)
EXTENDS Naturals, Sequences, FiniteSets

CONSTANTS
    MaxArtifacts,  \* bounds of the model: artifacts a job produces,
    MaxRequests    \*   provider requests it yields

ASSUME BoundsAssumption == MaxArtifacts \in Nat /\ MaxRequests \in Nat

VARIABLES
    gate,       \* result.gate_resolution
    boundary,   \* result.t1_artifact_count, MaxArtifacts + 1 for None
    arts,       \* result.output_artifacts
    job,        \* where the job's task is, its state at the end
    stopped,    \* the branch event is stopped
    requests,   \* provider requests so far
    bridge,     \* the rendezvous: empty, queued, serving, closed
    window,     \* open; over; or unwatched: the turn's watcher was cancelled
    t1,         \* the turn: where it is, what it delivers next, whether it may speak last
    rescued,    \* result.delegated_t1_failure_type is not None
    ledger,     \* _delivery_ledger: per artifact none, reserved, finished
    late,       \* the completion handler: where it is, the group it delivers next
    closed,     \* PluginExecutionRuntime._closed
    media,      \* the media lease is held
    shown,      \* history: sends begun, in order, with the turn that made them
    fate        \* history: artifacts whose reservation was finished

vars == <<gate, boundary, arts, job, stopped, requests, bridge, window, t1,
          rescued, ledger, late, closed, media, shown, fate>>

branch   == <<arts, job, stopped, requests>>
delivery == <<ledger, shown, fate>>

Artifacts == 1..MaxArtifacts
All       == MaxArtifacts + 1

-----------------------------------------------------------------------------
(* publish_gate: the first resolution stays; HANDLED freezes the artifacts *)
(* that belong to T1.                                                      *)
PublishGate(resolution) ==
    IF gate = "pending"
    THEN /\ gate' = resolution
         /\ boundary' = IF resolution = "handled" /\ boundary = All THEN Len(arts') ELSE boundary
    ELSE UNCHANGED <<gate, boundary>>

Finals(as) == {a \in 1..Len(as) : as[a].final}

Group(g) == {a \in Finals(arts) : arts[a].group = g}

(* A job that T1 handled has nothing for T2.                               *)
SlipEligible == gate = "expired" \/ (gate = "delegated" /\ rescued)

(* delayed_delivery_eligible                                               *)
Eligible == gate \in {"expired", "handled", "stopped"} \/ (gate = "delegated" /\ rescued)

(* An artifact reserved before is reserved again.                          *)
SlipReservable(as) == as

(* register_delivery and reserve_delivery, for those of the artifacts that *)
(* are still to be had.                                                    *)
Reservable(as) == {a \in as : ledger[a] = "none"}

Marked(as, mark) == [a \in Artifacts |-> IF a \in as THEN mark ELSE ledger[a]]

(* finish_delivery                                                         *)
Finish(as) ==
    /\ ledger' = Marked(as, "finished")
    /\ fate'   = fate \cup as

-----------------------------------------------------------------------------
(* The job: the handlers behind PluginHandlerExecutor, inside _run_job.    *)

JobStep(pc) == job.pc = pc /\ ~closed

(* A handler's output reaches the branch sink.  The first final artifact   *)
(* resolves the gate.                                                      *)
Produce(final) ==
    LET last == IF arts = <<>> THEN 1 ELSE arts[Len(arts)].group
    IN  /\ JobStep("running") /\ Len(arts) < MaxArtifacts
        /\ \E g \in {last, last + 1} : arts' = Append(arts, [final |-> final, group |-> g])
        /\ IF final THEN PublishGate(IF stopped THEN "stopped" ELSE "handled")
                    ELSE UNCHANGED <<gate, boundary>>
        /\ UNCHANGED <<job, stopped, requests, bridge, window, t1, rescued, delivery,
                       late, closed, media>>

(* event.stop_event()                                                      *)
StopEvent ==
    /\ JobStep("running") /\ ~stopped
    /\ stopped' = TRUE
    /\ UNCHANGED <<gate, boundary, arts, job, requests, bridge, window, t1, rescued,
                   delivery, late, closed, media>>

(* A handler yields a ProviderRequest: handed to the turn when the gate is *)
(* or becomes DELEGATED, else ignored.  A closed bridge raises.            *)
Ask ==
    /\ JobStep("running") /\ ~stopped /\ requests < MaxRequests
    /\ requests' = requests + 1
    /\ PublishGate("delegated")
    /\ IF gate' # "delegated" THEN UNCHANGED <<job, bridge>>
       ELSE IF bridge = "closed"
       THEN job' = [pc |-> "ended", state |-> "failed"] /\ UNCHANGED bridge
       ELSE job' = [job EXCEPT !.pc = "asking"] /\ bridge' = "queued"
    /\ UNCHANGED <<arts, stopped, window, t1, rescued, delivery, late, closed, media>>

(* The handlers are through.                                               *)
JobReturns ==
    /\ JobStep("running")
    /\ PublishGate(IF stopped THEN "stopped" ELSE IF Finals(arts) # {} THEN "handled" ELSE "passed")
    /\ job' = [pc |-> "ended", state |-> "completed"]
    /\ UNCHANGED <<arts, stopped, requests, bridge, window, t1, rescued, delivery,
                   late, closed, media>>

(* The job raises outside a handler, or shutdown cancels it.               *)
JobFails ==
    /\ job.pc = "running"
    /\ job' = [pc |-> "ended", state |-> IF closed THEN "cancelled" ELSE "failed"]
    /\ PublishGate("failed")
    /\ UNCHANGED <<arts, stopped, requests, bridge, window, t1, rescued, delivery,
                   late, closed, media>>

(* The end of _run_job: the completion handler's task; after a shutdown,   *)
(* which clears the ledger when the jobs are gone, none.                   *)
ScheduleCompletion ==
    /\ job.pc = "ended" /\ late.pc = "none"
    /\ late'   = [late EXCEPT !.pc = IF closed THEN "done" ELSE "waiting"]
    /\ media'  = (media /\ ~closed)
    /\ ledger' = IF closed THEN [a \in Artifacts |-> "none"] ELSE ledger
    /\ UNCHANGED <<gate, boundary, branch, bridge, window, t1, rescued, closed, shown, fate>>

Job ==
    \/ \E final \in BOOLEAN : Produce(final)
    \/ StopEvent \/ Ask \/ JobReturns \/ JobFails \/ ScheduleCompletion

-----------------------------------------------------------------------------
(* The turn.                                                               *)

(* The window ends.  wait_for_gate resolves the gate, if the watcher lives. *)
WindowEnds ==
    /\ window \in {"open", "unwatched"}
    /\ window' = IF window = "open" THEN "over" ELSE "over unwatched"
    /\ IF window = "open" THEN PublishGate("expired") ELSE UNCHANGED <<gate, boundary>>
    /\ UNCHANGED <<branch, bridge, t1, rescued, delivery, late, closed, media>>

(* TurnExecutionScope.close, after the turn: cancels the watcher.          *)
CloseScope ==
    /\ t1.pc = "settled" /\ window = "open"
    /\ window' = "unwatched"
    /\ UNCHANGED <<gate, boundary, branch, bridge, t1, rescued, delivery, late, closed, media>>

(* The bridge stays open and the job waits in it for ever.                 *)
SlipSettle(pc) ==
    /\ t1' = [t1 EXCEPT !.pc = "settled"]
    /\ UNCHANGED <<bridge, job>>

(* The finally-clause of the turn: close the bridge, which fails a request *)
(* in it, and let the late delivery go.                                    *)
Settle(pc) ==
    /\ t1'     = [t1 EXCEPT !.pc = "settled"]
    /\ bridge' = "closed"
    /\ job'    = IF job.pc = "asking" THEN [pc |-> "ended", state |-> "failed"] ELSE job

(* deliver_inline: a copy of what belongs to T1, and the claim to the      *)
(* turn's final output, which something else may hold.                     *)
Inline ==
    /\ \E claimed \in BOOLEAN :
          t1' = [pc |-> "inline", next |-> 1, claimed |-> claimed, upto |->
                    IF boundary = All THEN Len(arts) ELSE boundary]
    /\ UNCHANGED <<bridge, job>>

(* resolve_control has the gate.                                           *)
ResolveControl ==
    /\ t1.pc = "control" /\ gate # "pending"
    /\ \/ gate \in {"handled", "stopped"} /\ arts # <<>> /\ Inline
       \/ gate \in {"handled", "stopped"} /\ arts = <<>> /\ Settle("control")
       \/ /\ gate = "delegated"
          /\ t1' = [t1 EXCEPT !.pc = "driving"]
          /\ UNCHANGED <<bridge, job>>
       \/ /\ gate \in {"passed", "expired", "failed"}
          /\ t1' = [t1 EXCEPT !.pc = "routed"]
          /\ UNCHANGED <<bridge, job>>
    /\ UNCHANGED <<gate, boundary, arts, stopped, requests, window, rescued, delivery,
                   late, closed, media>>

(* The turn fails or is cancelled before its plugin work, or its personal  *)
(* answer is out.                                                          *)
LeaveControl ==
    /\ t1.pc \in {"control", "routed"}
    /\ Settle(t1.pc)
    /\ UNCHANGED <<gate, boundary, arts, stopped, requests, window, rescued, delivery,
                   late, closed, media>>

(* _drive_plugin_provider_requests                                         *)
Receive ==
    /\ t1.pc = "driving" /\ bridge = "queued"
    /\ bridge' = "serving"
    /\ UNCHANGED <<gate, boundary, branch, window, t1, rescued, delivery, late, closed, media>>

Served ==
    /\ t1.pc = "driving" /\ bridge = "serving"
    /\ bridge' = "empty"
    /\ job' = [job EXCEPT !.pc = "running"]
    /\ UNCHANGED <<gate, boundary, arts, stopped, requests, window, t1, rescued, delivery,
                   late, closed, media>>

(* The delegated Core fails, or the turn is cancelled while it serves.     *)
DrivingFails ==
    /\ t1.pc = "driving"
    /\ rescued' = TRUE
    /\ Settle("driving")
    /\ UNCHANGED <<gate, boundary, arts, stopped, requests, window, delivery,
                   late, closed, media>>

DrivingEnds ==
    /\ t1.pc = "driving" /\ job.pc = "ended"
    /\ IF arts = <<>> THEN Settle("driving") ELSE Inline
    /\ UNCHANGED <<gate, boundary, arts, stopped, requests, window, rescued, delivery,
                   late, closed, media>>

(* The next artifact: skip it, suppress it, or begin its delivery.         *)
InlineNext ==
    LET a == t1.next
        next == [t1 EXCEPT !.next = @ + 1]
    IN  /\ t1.pc = "inline" /\ a <= t1.upto
        /\ \/ /\ a \notin Reservable({a})
              /\ t1' = next /\ UNCHANGED delivery
           \/ /\ a \in Reservable({a}) /\ arts[a].final /\ ~t1.claimed
              /\ Finish({a}) /\ t1' = next /\ UNCHANGED shown
           \/ /\ a \in Reservable({a}) /\ (t1.claimed \/ ~arts[a].final)
              /\ ledger' = Marked({a}, "reserved")
              /\ shown'  = Append(shown, [art |-> a, by |-> "T1"])
              /\ t1'     = [t1 EXCEPT !.pc = "sending"]
              /\ UNCHANGED fate
        /\ UNCHANGED <<gate, boundary, branch, bridge, window, rescued, late, closed, media>>

(* capture_plugin_output returns: delivered, or suppressed by its policy.  *)
InlineSent ==
    /\ t1.pc = "sending"
    /\ Finish({t1.next})
    /\ t1' = [t1 EXCEPT !.pc = "inline", !.next = @ + 1]
    /\ UNCHANGED <<gate, boundary, branch, bridge, window, rescued, shown, late, closed, media>>

(* It raises, or the turn is cancelled: DELIVERY_FAILED, and no more.      *)
InlineFails ==
    /\ t1.pc \in {"inline", "sending"}
    /\ IF t1.pc = "sending" THEN Finish({t1.next}) ELSE UNCHANGED <<ledger, fate>>
    /\ Settle(t1.pc)
    /\ UNCHANGED <<gate, boundary, arts, stopped, requests, window, rescued, shown,
                   late, closed, media>>

InlineEnds ==
    /\ t1.pc = "inline" /\ t1.next > t1.upto
    /\ Settle("inline")
    /\ UNCHANGED <<gate, boundary, arts, stopped, requests, window, rescued, delivery,
                   late, closed, media>>

Turn ==
    \/ WindowEnds \/ CloseScope \/ ResolveControl \/ LeaveControl
    \/ Receive \/ Served \/ DrivingFails \/ DrivingEnds
    \/ InlineNext \/ InlineSent \/ InlineFails \/ InlineEnds

-----------------------------------------------------------------------------
(* The completion handler and DelayedPluginDeliveryCoordinator.deliver.    *)

LateStep == ~closed /\ UNCHANGED <<gate, boundary, branch, bridge, window, t1, rescued, closed>>

LateBegins ==
    /\ late.pc = "waiting" /\ t1.pc = "settled" /\ LateStep
    /\ late' = [late EXCEPT !.pc = IF Eligible THEN "groups" ELSE "discard"]
    /\ UNCHANGED <<delivery, media>>

(* The next group: finish what is left of it without a delivery, because   *)
(* its target takes no proactive message or its text was visible before,   *)
(* or reserve it for one.                                                  *)
LateGroup ==
    LET left == Reservable(Group(late.group))
    IN  /\ late.pc = "groups" /\ late.group <= MaxArtifacts + 1 /\ LateStep
        /\ \/ /\ Finish(left)
              /\ late' = [late EXCEPT !.group = @ + 1]
              /\ UNCHANGED shown
           \/ /\ left # {}
              /\ ledger' = Marked(left, "reserved")
              /\ \E s \in [1..Cardinality(left) -> left] :
                    /\ \A i, j \in DOMAIN s : i < j => s[i] < s[j]
                    /\ shown' = shown \o [i \in DOMAIN s |-> [art |-> s[i], by |-> "T2"]]
              /\ late' = [pc |-> "sending", group |-> late.group]
              /\ UNCHANGED fate
        /\ UNCHANGED media

(* The delivery of the group returns or raises.                            *)
LateSent ==
    /\ late.pc = "sending" /\ LateStep
    /\ Finish({a \in Group(late.group) : ledger[a] = "reserved"})
    /\ late' = [pc |-> "groups", group |-> late.group + 1]
    /\ UNCHANGED <<shown, media>>

LateEnds ==
    /\ late.pc = "groups" /\ late.group > MaxArtifacts + 1 /\ LateStep
    /\ late' = [late EXCEPT !.pc = "discard"]
    /\ UNCHANGED <<delivery, media>>

(* discard_delivery_records; the done-callback releases the media.         *)
Discard ==
    /\ late.pc = "discard"
    /\ ledger' = [a \in Artifacts |-> "none"]
    /\ late'   = [late EXCEPT !.pc = "done"]
    /\ media'  = FALSE
    /\ UNCHANGED <<gate, boundary, branch, bridge, window, t1, rescued, closed, shown, fate>>

(* PluginExecutionRuntime.shutdown, after the pipeline tasks are settled:  *)
(* cancels the job, then the completion handler, whose finally-clause runs. *)
Shutdown ==
    /\ ~closed /\ t1.pc = "settled"
    /\ closed' = TRUE
    /\ late'   = IF late.pc \in {"none", "done"} THEN late ELSE [late EXCEPT !.pc = "discard"]
    /\ UNCHANGED <<gate, boundary, branch, bridge, window, t1, rescued, delivery, media>>

Late == LateBegins \/ LateGroup \/ LateSent \/ LateEnds \/ Discard \/ Shutdown

-----------------------------------------------------------------------------
Init ==
    /\ gate = "pending" /\ boundary = All
    /\ arts = <<>> /\ job = [pc |-> "running", state |-> "running"]
    /\ stopped = FALSE /\ requests = 0
    /\ bridge = "empty" /\ window = "open"
    /\ t1 = [pc |-> "control", next |-> 1, upto |-> 0, claimed |-> FALSE]
    /\ rescued = FALSE
    /\ ledger = [a \in Artifacts |-> "none"]
    /\ late = [pc |-> "none", group |-> 1]
    /\ closed = FALSE /\ media = TRUE
    /\ shown = <<>> /\ fate = {}

Next == Job \/ Turn \/ Late

(* The handlers end, sends answer, the event loop runs what is ready, the  *)
(* window's timer fires.                                                   *)
Fairness ==
    /\ WF_vars(JobReturns) /\ WF_vars(closed /\ JobFails) /\ WF_vars(ScheduleCompletion)
    /\ WF_vars(WindowEnds) /\ WF_vars(ResolveControl) /\ WF_vars(t1.pc = "routed" /\ LeaveControl)
    /\ WF_vars(Receive) /\ WF_vars(Served) /\ WF_vars(DrivingEnds)
    /\ WF_vars(InlineNext) /\ WF_vars(InlineSent) /\ WF_vars(InlineEnds)
    /\ WF_vars(LateBegins) /\ WF_vars(LateGroup) /\ WF_vars(LateSent)
    /\ WF_vars(LateEnds) /\ WF_vars(Discard)

Spec     == Init /\ [][Next]_vars
FairSpec == Spec /\ Fairness

-----------------------------------------------------------------------------
(* Every variable has its type.                                            *)
TypeOK ==
    /\ gate \in {"pending", "passed", "handled", "stopped", "delegated", "failed", "expired"}
    /\ boundary \in 0..All
    /\ arts \in Seq([final : BOOLEAN, group : 1..All]) /\ Len(arts) <= MaxArtifacts
    /\ job \in [pc : {"running", "asking", "ended"},
                state : {"running", "completed", "failed", "cancelled"}]
    /\ stopped \in BOOLEAN /\ requests \in 0..MaxRequests
    /\ bridge \in {"empty", "queued", "serving", "closed"}
    /\ window \in {"open", "over", "unwatched", "over unwatched"}
    /\ t1 \in [pc : {"control", "driving", "routed", "inline", "sending", "settled"},
               next : 1..All, upto : 0..MaxArtifacts, claimed : BOOLEAN]
    /\ rescued \in BOOLEAN /\ closed \in BOOLEAN /\ media \in BOOLEAN
    /\ ledger \in [Artifacts -> {"none", "reserved", "finished"}]
    /\ late \in [pc : {"none", "waiting", "groups", "sending", "discard", "done"},
                 group : 1..(All + 1)]
    /\ shown \in Seq([art : Artifacts, by : {"T1", "T2"}])
    /\ fate \in SUBSET Artifacts

(* An artifact is sent once at most, inside the turn or after it, whatever *)
(* fails in between (parallel-plugin-runtime-plan.md:170).                 *)
ShownOnce ==
    \A i, j \in DOMAIN shown : shown[i].art = shown[j].art => i = j

(* The late turn speaks after the turn it belongs to, never between its    *)
(* outputs (t1_settled).                                                   *)
LateIsLater ==
    \A i, j \in DOMAIN shown : shown[i].by = "T2" /\ shown[j].by = "T1" => j < i

(* The turn acts on the resolution that the job sees, and the gate is      *)
(* resolved once: served requests belong to DELEGATED, a personal answer   *)
(* to a gate that lets it through.                                         *)
GateDecides ==
    /\ t1.pc = "routed" => gate \in {"passed", "expired", "failed"}
    /\ t1.pc \in {"inline", "sending"} => gate \in {"handled", "stopped", "delegated"}
    /\ bridge = "serving" \/ job.pc = "asking" => gate = "delegated"

(* Nothing final is silently lost: when the job and its late delivery are  *)
(* through, every final artifact has been delivered, suppressed or given   *)
(* up, but those a delegated turn began to deliver and then failed         *)
(* (parallel-plugin-runtime-plan.md:195-201, freeze_t1_artifact_boundary). *)
FinalsAccounted ==
    late.pc = "done" /\ ~closed /\ ~(gate = "delegated" /\ t1.next <= t1.upto)
    => Finals(arts) \subseteq fate

(* Media stay while a turn may still send them (plan:946).                 *)
MediaHeld ==
    ~media => /\ t1.pc \notin {"inline", "sending", "driving"}
              /\ late.pc \notin {"waiting", "groups", "sending"}

(* A job that handed a request to the turn gets an answer.                 *)
AskReturns == job.pc = "asking" ~> job.pc # "asking"

(* Every job comes to its end, its records and media with it.              *)
JobSettles == <>(late.pc = "done" /\ ~media)

(* parallel-plugin-runtime-plan.md:552: the gate becomes DELEGATED only    *)
(* while the window is open.                                               *)
DelegatedInWindow ==
    [][gate # "delegated" /\ gate' = "delegated" => window \notin {"over", "over unwatched"}]_vars

=============================================================================
