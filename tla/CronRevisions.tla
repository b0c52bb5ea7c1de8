---------------------------- MODULE CronRevisions ----------------------------
(***************************************************************************)
(* One cron job (cron/manager.py): its row in the database, its entries in *)
(* the scheduler, its executions.  A plan is edited, switched off and      *)
(* deleted while its triggers fire and its executions run; every edit      *)
(* makes a new revision, and what is left of an older one must not touch   *)
(* it.                                                                     *)
(*                                                                         *)
(* What happens under _job_lock is one step.  add_active_job, add_basic_job *)
(* and sync_from_db do not take it: they schedule the row they have read.  *)
(* Dates, errors and delivery details are left out; a job is persistent.   *)
(*                                                                         *)
(* Slips the runs must notice are written before the operator they distort, *)
(* under names that begin with "Slip"; no operator of the model uses them. *)
(***************************************************************************)
EXTENDS Naturals

CONSTANTS
    Execs,     \* executions, by execution id
    None,      \* no execution, no copy
    MaxRev,    \* bound of the model: edits
    MaxStops   \* bound of the model: shutdowns

ASSUME NoneAssumption == None \notin Execs \cup [rev : Nat, once : BOOLEAN]

VARIABLES
    row,      \* the job's row of cron_jobs
    entries,  \* the job's entries in the scheduler: revision, and whether for one date
    past,     \* the revisions whose one date has come
    tracked,  \* _scheduled_job_ids: the revision of the entry that is known
    held,     \* the row read by add_*_job or sync_from_db that it is about to schedule
    exec,     \* the executions
    running,  \* _running_versions
    missed,   \* the _record_unexecuted_job tasks, by revision
    phase,    \* of the manager: up, closing, closed, or stuck (its shutdown has raised)
    stops     \* shutdowns so far

vars == <<row, entries, past, tracked, held, exec, running, missed, phase, stops>>

Outcomes  == {"completed", "failed", "completed_without_delivery", "cancelled"}
AtWork    == {"admitted", "body", "settling"}
Closing   == phase # "up"

Moved(e, pc) == exec' = [exec EXCEPT ![e] = [@ EXCEPT !.pc = pc]]

-----------------------------------------------------------------------------
(* Scheduling.                                                             *)

(* _remove_scheduled: the entry that is known goes.                        *)
Others == {n \in entries : n.rev # tracked}

(* _schedule_job refuses a date in the past.                               *)
Schedulable(n) == n.once => n.rev \notin past

(* _schedule_persisted_job of the row as it was read: a date in the past,  *)
(* or a bad expression, switches the row off, whatever it is by then.      *)
ScheduleHeld(p) ==
    LET n == held[p]
    IN  /\ n # None
        /\ held' = [held EXCEPT ![p] = None]
        /\ \/ /\ Closing
              /\ UNCHANGED <<row, entries, tracked>>
           \/ /\ ~Closing /\ Schedulable(n)
              /\ entries' = entries \cup {n} /\ tracked' = n.rev
              /\ UNCHANGED row
           \/ /\ ~Closing /\ (n.once \/ p = "add")
              /\ row' = IF row.here THEN [row EXCEPT !.enabled = FALSE, !.status = "failed"] ELSE row
              /\ UNCHANGED <<entries, tracked>>
        /\ UNCHANGED <<past, exec, running, missed, phase, stops>>

(* add_basic_job, add_active_job: the row, and then its entry.             *)
Add(enabled, once) ==
    /\ ~Closing /\ ~row.here /\ row.status = "none"
    /\ row'  = [here |-> TRUE, enabled |-> enabled, once |-> once, rev |-> 0,
                status |-> "scheduled", exec |-> None]
    /\ held' = [held EXCEPT !["add"] = IF enabled THEN [rev |-> 0, once |-> once] ELSE None]
    /\ UNCHANGED <<entries, past, tracked, exec, running, missed, phase, stops>>

(* The new plan keeps the mark of the last execution.                      *)
SlipKeepsExecution(enabled, once, ok) ==
    [row EXCEPT !.enabled = enabled /\ ok, !.once = once, !.rev = row.rev + 1,
                !.status = IF enabled /\ ~ok THEN "failed" ELSE row.status]

(* update_job: the row, a revision on; ok says that it can be scheduled.   *)
Rescheduled(enabled, once, ok) ==
    [row EXCEPT !.enabled = enabled /\ ok, !.once = once, !.rev = row.rev + 1,
                !.status = IF enabled /\ ~ok THEN "failed" ELSE "scheduled", !.exec = None]

(* The known entry is removed when it is the new one already.              *)
SlipUpdate(enabled, once, ok) ==
    /\ ~Closing /\ row.here /\ row.rev < MaxRev
    /\ row' = Rescheduled(enabled, once, ok)
    /\ tracked' = None
    /\ UNCHANGED <<entries, past, held, exec, running, missed, phase, stops>>

Update(enabled, once, ok) ==
    /\ ~Closing /\ row.here /\ row.rev < MaxRev
    /\ row' = Rescheduled(enabled, once, ok)
    /\ IF enabled /\ ok
       THEN /\ entries' = Others \cup {[rev |-> row'.rev, once |-> once]}
            /\ tracked' = row'.rev
       ELSE /\ entries' = Others
            /\ tracked' = None
    /\ UNCHANGED <<past, held, exec, running, missed, phase, stops>>

(* delete_job                                                              *)
Delete ==
    /\ row.here
    /\ row' = [row EXCEPT !.here = FALSE]
    /\ entries' = Others /\ tracked' = None
    /\ UNCHANGED <<past, held, exec, running, missed, phase, stops>>

-----------------------------------------------------------------------------
(* Triggers.                                                               *)

(* An entry for one date is gone when it has fired.                        *)
Fired(n) ==
    IF n.once THEN entries' = entries \ {n} /\ past' = past \cup {n.rev}
    ELSE UNCHANGED <<entries, past>>

(* The scheduler runs an entry that has no instance running.               *)
Fire(e, n) ==
    /\ ~Closing /\ exec[e].pc = "none"
    /\ \A f \in Execs : exec[f].pc \notin {"none", "over"} => exec[f].manual \/ exec[f].rev # n.rev
    /\ exec' = [exec EXCEPT ![e] = [@ EXCEPT !.pc = "created", !.rev = n.rev]]
    /\ Fired(n)
    /\ UNCHANGED <<row, tracked, held, running, missed, phase, stops>>

(* EVENT_JOB_MISSED, EVENT_JOB_MAX_INSTANCES                               *)
Miss(n) ==
    /\ ~Closing
    /\ missed' = missed \cup {n.rev}
    /\ Fired(n)
    /\ UNCHANGED <<row, tracked, held, exec, running, phase, stops>>

(* _record_unexecuted_job; a run that began after the scheduled time makes *)
(* it void.                                                                *)
Record(r) ==
    /\ missed' = missed \ {r}
    /\ \/ /\ row.here /\ row.enabled /\ row.rev = r /\ r \notin running
          /\ row' = [row EXCEPT !.status = "missed", !.enabled = row.enabled /\ ~row.once]
       \/ /\ ~row.here \/ ~row.enabled \/ row.rev # r \/ r \in running \/ row.exec # None
          /\ UNCHANGED row
    /\ UNCHANGED <<entries, past, tracked, held, exec, running, phase, stops>>

-----------------------------------------------------------------------------
(* Executions.                                                             *)

(* run_job_now                                                             *)
RunNow(e) ==
    /\ ~Closing /\ exec[e].pc = "none"
    /\ exec' = [exec EXCEPT ![e] = [@ EXCEPT !.pc = "waiting", !.manual = TRUE]]
    /\ UNCHANGED <<row, entries, past, tracked, held, running, missed, phase, stops>>

(* The first step of a task the scheduler has made.                        *)
Begin(e) ==
    /\ exec[e].pc = "created"
    /\ Moved(e, IF Closing THEN "over" ELSE "waiting")
    /\ UNCHANGED <<row, entries, past, tracked, held, running, missed, phase, stops>>

(* A trigger of an older plan, or of one that is off, ends here.           *)
Refused(e) ==
    \/ ~row.here
    \/ ~exec[e].manual /\ (~row.enabled \/ row.rev # exec[e].rev)

(* _run_job, under the lock: turned away,                                  *)
TurnedAway(e) ==
    /\ exec[e].pc = "waiting"
    /\ Refused(e) \/ row.rev \in running
    /\ Moved(e, "over")
    /\ UNCHANGED <<row, entries, past, tracked, held, running, missed, phase, stops>>

(*   or admitted with the row it has read.                                 *)
Admit(e) ==
    /\ exec[e].pc = "waiting"
    /\ ~Refused(e) /\ row.rev \notin running
    /\ exec'    = [exec EXCEPT ![e] = [@ EXCEPT
                       !.pc = "admitted", !.rev = row.rev, !.once = row.once]]
    /\ running' = running \cup {row.rev}
    /\ UNCHANGED <<row, entries, past, tracked, held, missed, phase, stops>>

(* The update of the row finds it as it was read.                          *)
Current(e) == row.here /\ row.rev = exec[e].rev

(* _execute_job up to the work: the row is marked, or has been superseded. *)
Start(e) ==
    /\ exec[e].pc = "admitted"
    /\ IF Current(e)
       THEN /\ row' = [row EXCEPT !.status = "running", !.exec = e]
            /\ Moved(e, "body")
       ELSE /\ exec' = [exec EXCEPT ![e] = [@ EXCEPT !.pc = "settling", !.outcome = "superseded"]]
            /\ UNCHANGED row
    /\ UNCHANGED <<entries, past, tracked, held, running, missed, phase, stops>>

(* The handler, or the agent's turn, is through.                           *)
BodyEnds(e) ==
    /\ exec[e].pc = "body"
    /\ \E o \in Outcomes \ {"cancelled"} :
          exec' = [exec EXCEPT ![e] = [@ EXCEPT !.pc = "settling", !.outcome = o]]
    /\ UNCHANGED <<row, entries, past, tracked, held, running, missed, phase, stops>>

(* A one-shot plan that has failed stays on.                               *)
SlipSettled(e) == [row EXCEPT !.status = exec[e].outcome]

(* The settlement's update of a row that is still this execution's.        *)
Settled(e) ==
    LET ends == exec[e].once /\ ~exec[e].manual /\ exec[e].outcome # "completed"
    IN  [row EXCEPT !.status = exec[e].outcome, !.enabled = row.enabled /\ ~ends]

(* Only the last execution of the manager settles.                         *)
SlipMineAlone(e) == Current(e) /\ row.exec = e /\ running = {exec[e].rev}

Mine(e) == Current(e) /\ row.exec = e

(* _execute_job's finally-clause: a one-shot plan that is done is deleted. *)
Settle(e) ==
    LET gone == Mine(e) /\ exec[e].once /\ ~exec[e].manual /\ exec[e].outcome = "completed"
    IN  /\ exec[e].pc = "settling"
        /\ row' = IF gone THEN [Settled(e) EXCEPT !.here = FALSE]
                  ELSE IF Mine(e) THEN Settled(e) ELSE row
        /\ IF gone
           THEN entries' = Others /\ tracked' = None
           ELSE UNCHANGED <<entries, tracked>>
        /\ Moved(e, "over")
        /\ running' = running \ {exec[e].rev}
        /\ UNCHANGED <<past, held, missed, phase, stops>>

(* The finally-clause is cancelled: before its update, or after it.        *)
SettlementCut(e) ==
    /\ exec[e].pc = "settling" /\ exec[e].cut
    /\ row' \in {row, IF Mine(e) THEN Settled(e) ELSE row}
    /\ Moved(e, "over")
    /\ running' = running \ {exec[e].rev}
    /\ UNCHANGED <<entries, past, tracked, held, missed, phase, stops>>

-----------------------------------------------------------------------------
(* The manager.                                                            *)

(* Where a task is that gets a cancellation.                               *)
Cancelled(x) ==
    IF x.pc \in {"created", "waiting"} THEN [x EXCEPT !.pc = "over"]
    ELSE IF x.pc \in {"admitted", "body"}
    THEN [x EXCEPT !.pc = "settling", !.outcome = "cancelled"]
    ELSE IF x.pc = "settling" THEN [x EXCEPT !.cut = TRUE]
    ELSE x

(* shutdown: the scheduler forgets its entries, the tasks are cancelled,   *)
Shutdown ==
    /\ phase = "up" /\ stops < MaxStops
    /\ phase'   = "closing"
    /\ stops'   = stops + 1
    /\ entries' = {}
    /\ exec'    = [e \in Execs |-> Cancelled(exec[e])]
    /\ UNCHANGED <<past, row, tracked, held, running, missed>>

(*   and waited for; what is left after 15 seconds makes it raise.         *)
ShutdownEnds ==
    /\ phase = "closing"
    /\ phase' = IF missed = {} /\ \A e \in Execs : exec[e].pc \in {"none", "over"}
                THEN "closed" ELSE "stuck"
    /\ UNCHANGED <<row, entries, past, tracked, held, exec, running, missed, stops>>

(* start: nothing may still be draining; sync_from_db lists the rows.      *)
Restart ==
    /\ phase \in {"closed", "stuck"} /\ held["sync"] = None
    /\ \A e \in Execs : exec[e].pc \in {"none", "over"}
    /\ phase' = "up"
    /\ held'  = [held EXCEPT !["sync"] = IF row.here /\ row.enabled
                                         THEN [rev |-> row.rev, once |-> row.once] ELSE None]
    /\ UNCHANGED <<row, entries, past, tracked, exec, running, missed, stops>>

-----------------------------------------------------------------------------
Init ==
    /\ row = [here |-> FALSE, enabled |-> FALSE, once |-> FALSE, rev |-> 0,
              status |-> "none", exec |-> None]
    /\ entries = {} /\ past = {} /\ tracked = None /\ held = [p \in {"add", "sync"} |-> None]
    /\ exec = [e \in Execs |-> [pc |-> "none", rev |-> 0, manual |-> FALSE, once |-> FALSE,
                                outcome |-> "none", cut |-> FALSE]]
    /\ running = {} /\ missed = {} /\ phase = "up" /\ stops = 0

ExecStep(e) == Begin(e) \/ TurnedAway(e) \/ Admit(e) \/ Start(e) \/ BodyEnds(e) \/ Settle(e)

Next ==
    \/ \E p \in {"add", "sync"} : ScheduleHeld(p)
    \/ \E enabled, once \in BOOLEAN : Add(enabled, once)
    \/ \E enabled, once, ok \in BOOLEAN : Update(enabled, once, ok)
    \/ Delete
    \/ \E n \in entries : Miss(n) \/ \E e \in Execs : Fire(e, n)
    \/ \E r \in missed : Record(r)
    \/ \E e \in Execs : ExecStep(e) \/ RunNow(e) \/ SettlementCut(e)
    \/ Shutdown \/ ShutdownEnds \/ Restart

Spec == Init /\ [][Next]_vars

(* Handlers and agent turns end, and the event loop runs the tasks.        *)
RunSpec == Spec /\ \A e \in Execs : WF_vars(ExecStep(e))

-----------------------------------------------------------------------------
(* Every variable has its type.                                            *)
TypeOK ==
    /\ row \in [here : BOOLEAN, enabled : BOOLEAN, once : BOOLEAN, rev : Nat,
                status : Outcomes \cup {"none", "scheduled", "running", "missed"},
                exec : Execs \cup {None}]
    /\ entries \in SUBSET [rev : Nat, once : BOOLEAN]
    /\ past \in SUBSET Nat
    /\ tracked \in Nat \cup {None}
    /\ held \in [{"add", "sync"} -> [rev : Nat, once : BOOLEAN] \cup {None}]
    /\ exec \in [Execs -> [pc : AtWork \cup {"none", "created", "waiting", "over"}, rev : Nat,
                           manual : BOOLEAN, once : BOOLEAN,
                           outcome : Outcomes \cup {"none", "superseded"}, cut : BOOLEAN]]
    /\ running \in SUBSET Nat /\ missed \in SUBSET Nat
    /\ phase \in {"up", "closing", "closed", "stuck"} /\ stops \in Nat

(* A revision is never run twice at a time, by its trigger or by hand      *)
(* (current-state.md:120).                                                 *)
OneAtATime ==
    \A e, f \in Execs :
        exec[e].pc \in AtWork /\ exec[f].pc \in AtWork /\ exec[e].rev = exec[f].rev => e = f

(* What the row shows of its last execution is that of an execution of the *)
(* plan as it is now: an older one has not written into it.                *)
OutcomeIsItsOwn ==
    /\ row.exec # None => exec[row.exec].rev = row.rev
    /\ row.status \in {"completed", "completed_without_delivery", "cancelled"} =>
          row.exec # None /\ exec[row.exec].outcome = row.status

(* The trigger of a one-shot plan starts one execution: neither a restart, *)
(* nor an execution whose settlement was lost, makes it run again          *)
(* (current-state.md:112-113).                                             *)
OneShotOnce ==
    \A e, f \in Execs :
        exec[e].once /\ exec[f].once /\ ~exec[e].manual /\ ~exec[f].manual
        /\ exec[e].rev = exec[f].rev => e = f

(* A recurring plan that is on has its entry in the scheduler, however     *)
(* edits, additions and the synchronisation of a start overlap.            *)
EnabledIsScheduled ==
    phase = "up" /\ row.here /\ row.enabled /\ ~row.once /\ (\A p \in DOMAIN held : held[p] = None)
    => [rev |-> row.rev, once |-> FALSE] \in entries

(* A one-shot plan ends with its trigger's execution: it is deleted or     *)
(* switched off, and does not fire a second time after a restart.  What a  *)
(* shutdown stops before it has started may fire again, and so may what it *)
(* cuts in the settlement itself.                                          *)
OneShotEnds ==
    \A e \in Execs :
        exec[e].pc = "over" /\ ~exec[e].manual /\ exec[e].once /\ exec[e].outcome # "none"
        /\ row.here /\ row.rev = exec[e].rev
        /\ (stops = 0 \/ (row.exec = e /\ ~exec[e].cut))
        => ~row.enabled

(* A row that says "running" has its execution at work, until a shutdown.  *)
RunningIsAtWork ==
    stops = 0 /\ row.here /\ row.status = "running" => row.exec # None /\ exec[row.exec].pc \in AtWork

(* A row does not say "running" for ever, short of a shutdown.             *)
OutcomeArrives ==
    row.here /\ row.status = "running" ~> ~row.here \/ row.status # "running" \/ stops > 0

(* current-state.md:125: shutdown cancels the executions and waits until   *)
(* their settlement is in the database.                                    *)
ClosedIsSettled == phase = "closed" => ~(row.here /\ row.status = "running")

(* test_cron_manager.py:75-79: a plan that has been rescheduled is on, and *)
(* "scheduled"; what is left of the older one does not switch it off.      *)
RescheduledStays ==
    [][row.here /\ row.enabled /\ row.status = "scheduled" /\ row.rev > 0
       /\ row'.rev = row.rev /\ ~row'.enabled
       => row'.status = "missed" \/ \E p \in DOMAIN held : held[p] # None /\ held[p].rev = row.rev]_vars

=============================================================================
