# Verification of the AG99 turn runtime

TLA+ models, TLC runs and TLAPS proofs for the part of this repository that
decides which message becomes a turn, which execution runs for it, what its
plugins and its Core show, what is recorded, and who may stop it. All paths
below are relative to the repository; `core/` stands for `src/astrbot/core/`
when it begins a path in the tables, docs and tests are named in full.

Run a model:  `tlc -config MCTurnAdmission.cfg MCTurnAdmission.tla`
(`EventPipeline_disagrees.cfg` goes with the module `MCEventPipeline`, every other
cfg with the module it is named after)
Check proofs: `tlapm TurnAdmissionProofs.tla`

## 1. Inventory

The program is a chat-bot framework on one asyncio loop. A platform adapter puts
an event into a queue; the event bus starts a pipeline task for it; the pipeline's
process stage submits it to the *Personal runtime* of its session, which admits
one turn at a time; a *coordinated turn* asks a Personal persona for an immediate
reply, starts a plugin job beside it, and runs a *Core execution* in an executor
body (the native tool loop or an external one such as Codex); the outcome is
delivered, recorded and remembered. Beside the messages, observations (heartbeat,
activity) may make the runtime speak by itself, and cron jobs start turns of their
own. Concurrency is cooperative: code between two `await`s is atomic, and every
hard behaviour comes from what may happen at an `await`, or from a task being
cancelled there.

| component | state it keeps | operations | interacts with | correct when |
|---|---|---|---|---|
| **Core Head** `core/execution.py` | status, event journal, accepted commands; attached executor and its callbacks; published sequences; subscriber mailboxes | start, activate, bind, emit, complete, fail, cancel, provide/cancel input, release, subscribe, receive, close | bodies call it, the turn and the deadline cancel it, subscribers read it | one ordered journal with one end; an attached body can be stopped; a listening subscriber gets every fact and the end |
| **Execution ledger** `core/execution_ledger.py`, `core/db/sqlite.py` | the claim, the row | settle, append with three attempts | the finishing turn, its failure, cancellation and deadline handlers | one row, final, saying how the execution ended; the claim is never lost |
| **Turn admission** `core/interaction/personal_runtime.py` | gate, waiter count, follow-up orders, active turn, what blocks the runtime | admit, interrupt, capture, prepare, finalize, release | process stage, runtime observations, delayed deliveries, the native body | one turn at a time, no lost wake-up, no start on an unclean runtime, every message handled once and in order, every turn settles |
| **Observation intake** `observation_inbox.py`, `personal_runtime.py`, `personal_gate.py`, `personal_wake_scheduler.py` | bounded coalescing inbox, material revisions, evaluation task, wake-up | submit, drain, hold, defer, settle, wake | heartbeat, activity source, plugins; turn admission (busy) | bounded; no pending fact is stranded or evaluated twice; a newer fact survives the batch being decided |
| **Runtime manager and Personal state** `personal_runtime.py`, `personal_state.py`, `personal_state_repository.py` | runtimes by key, their bound turns, the stored record, dirty flag, save lock | create, bind, evict, record, save, load, close, shut down | the database, the heartbeat, turn admission | a bound turn keeps its runtime; what is clean is stored; calls and initiations are not repeated after a restart |
| **Plugin job** `plugin_execution_runtime.py`, `turn_coordinator.py`, `delayed_plugin_delivery.py` | gate, window, bridge, artifacts, delivery ledger, media lease | publish gate, ask, reserve, deliver inline or late, settle | the turn, a later turn | an artifact is shown once or accounted for; the job settles |
| **Plugin management** `star/star_manager.py`, `plugin_execution_runtime.py` | registries, folders, leases, draining modules, the stored list of switched-off plugins | discover, lease, drain, reload, update, uninstall, turn on and off | turns that run handlers | a leased module is not destroyed; no handler keeps the manager's lock |
| **Turn output** `turn_state.py`, `output_controller.py`, `middleware.py`, `turn_coordinator.py` | Personal status, final reservation, turn status, closing reason, history entry | plan, send, reserve, deliver, commit, cancel, expire | platform, conversation history, plugin gate, deadline | one final output; the history says what was shown and has every completed turn; the lease is released |
| **Event bus and pipeline** `event_bus.py`, `pipeline/` | queue, tasks, frames of generator stages, result on the event | dispatch, stop, run stages, defer a stop, reset | adapters, handlers, agent, platform | a result is shown once and in order; nothing runs after a stop; every event ends |
| **Rate limit** `pipeline/rate_limit_check/stage.py` | deque of stamps and lock per session | admit, stall, discard | events of a session | no window holds more than its cap; every event is decided |
| **Cron** `cron/manager.py` | rows with revisions, scheduler entries, executions, running versions | add, edit, delete, trigger, run by hand, admit, settle, misfire, sync, shut down | database, scheduler, proactive turns | a run settles only the revision it ran; a plan that is on is scheduled; a one-shot plan ends |
| **Codex sessions** `executors/session_registry.py`, `codex_session.py`, `codex_cli.py`, `runtime.py` | sessions by key, processes, turn lock, notifications | get or create, start a turn, interrupt, crash, discard, close | the app-server process, runs with deadlines | no process is left or unowned; every run ends |

The hard behaviours, each at the line where it bites, are the `hazards` of
`PROJECT.json`. The recurring ones:

* **ends race**: completion, failure, interruption, deadline (Core Head, ledger, output);
* **checked, then awaited**: the runtime is looked at before a wait and used after it (`admit`, the interruption, settlement, creation of runtimes and sessions, discovery of handlers);
* **cancelled at an await**: the waiter count, the gate, the claim, a follow-up's ticket, the final reservation, a save, a settlement must survive it;
* **decided about a copy**: a drained batch, a snapshot being saved, a row read before an await, a list of switched-off plugins;
* **two actors, one resource**: inline and late delivery over the same artifacts, a drain and the leases, the Personal and the main task over one turn;
* **half-done calls**: `bind_executor`, `activate_executor` and `cancel` change state before they raise;
* **crash and restart**: the stored record against what the dead process had promised.

## 2. Modules

`ExecutionContract` <- refined by - `CoreExecution`. The other modules stand side
by side and see of each other only what crosses the interface:

* `CoreLedger` sees of an execution its terminal event, `TurnAdmission` whether it runs;
* `ObservationIntake` sees of the turns how many are bound; `RuntimeState` sees of
  the evaluation task that it calls a policy and holds facts;
* `PluginDelivery` sees of the turn where it is with the job, `TurnOutput` sees of
  the job how its gate resolves; `PluginManagement` sees of both which modules they hold;
* `EventPipeline` carries the ordinary turns, `TurnOutput` the coordinated ones;
* `CodexSessions` is the body that a Core execution may run in.

Each `*Proofs` module extends its component, or the two that belong to one subject
(the head and its ledger; delivery and management of plugins; stored state and inbox
of a runtime; pipeline and rate limit): the names of such a pair differ, so the second
module's specification is `LedgerSpec`, `ManagementSpec`, `IntakeSpec`, `LimitSpec`.
Each `MC*` module extends one with a bound for TLC. No `MC*` module or `.cfg` replaces a definition.

Conventions. Every shared Python object is one record variable; one action is one
uninterrupted stretch of code. A call that raises before changing anything is not
a step; a call that raises after changing something is an action of its own
(`CancelMismatched`, `ActivateMismatched`). Operators whose name begins with
`Slip` are plausible bugs: they stand before the operator they distort, the model
never uses them, and each run is known to notice its own (`mutants`).

### CoreExecution: the Core Head

| model | code |
|---|---|
| `session` (`status`, `events`, kinds of accepted `commands`) | `CoreExecutionSession`; payloads dropped, command ids are fresh per call so only kinds matter |
| `lifecycle` (`submitted`, `executor`, `stopCallback`, `inputCallback`, `stopped`, `stopFailed`) | `CoreExecutionLifecycle`; a callback is named by the body that owns it |
| `head` (`attached`, `closed`, `published`) | `CoreExecutionHead` |
| `box[m]` | one `CoreExecutionEventMailbox` and the loop of its subscriber; `received`, `from` are history |
| `Admits`, `StatusAfter` | `_advance_status` with its `_require_*` helpers |
| `RecordEvent` | `lifecycle.record_event` -> `session.record_event` -> `head._publish` -> every mailbox: one call chain, one step |

An event is its kind plus, for artifacts, an id: that is what `replay_key` looks
at. The facade of the head (`start`, `bind_executor`, `cancel`, ...) only delegates,
so the action is the delegate. `complete` with an artifact is one action with two
events.

### ExecutionContract

What a caller may rely on: pending -> running -> ended, keyed facts only added and
only while running, one outcome. `CoreExecution` maps `created` to pending, the two
live statuses to running, and its journal to its set of keyed facts; progress
stutters.

### CoreLedger: settlement

A settler is a task inside `settle_ledger`; `appending` is an attempt at the
database, which may commit, meet the unique `execution_id`, fail with
`OperationalError`, or be cancelled *with its insertion committed or not*. The
record is prepared in the step that claims the slot; in the code it is prepared
just before, without an await in between.

### TurnAdmission: gate, follow-ups, interruption, lease

A turn's `pc` names the await it is at: `aborting` (waiting for the platform),
`captured` (ticket), `ordered` (its turn among follow-ups), `queued` (the gate's
condition), `trying`, `backout`, `active`, `closing` (scope), `closed` (gate lock),
`settled`. Four kinds of turns differ by guards only, as in the code: messages
interrupt and wait; stale group candidates may follow up and never wait;
runtime observations wait and never interrupt; delayed deliveries give way.

| model | code |
|---|---|
| `gate`, `woken` | `_TurnAdmissionGate`; `woken` is the set `notify_all` has made runnable |
| `follow` | `_FollowUpCoordinator` (orders from 1 instead of 0) |
| `turn[t].ticket` | `FollowUpTicket` in `tool_loop_agent_runner.py` |
| `runtime` | `active_turn_id`, the Core execution of that turn, `_cleanup_tasks`, `_abort_task`, `_platform_abort_unknown`, `_resource_cleanup_unknown`; `neighbour` is `has_blocked_output_target` through another runtime |

Abstractions: the gate's inner lock is never held across an await other than the
wait itself, so taking it is not a step; `CoreStarts` merges the creation of the
head and the activation of a body (no turn can be captured in between); a body
consumes tickets only while its execution is running; a message that reached
`try_capture` because its own interruption raised is not modelled, nor is an
interruption that arrives inside `release()` before the scope closes while the
head has no terminal event.

### ObservationIntake: inbox, evaluation task, wake-up

| model | code |
|---|---|
| `inbox` | `ObservationInbox._items`, oldest first; the index `_coalesced_ids` is the inverse of its identities and left out |
| an item's `mat`, `life` | the revision of its `ObservationMaterial` (0: none), and whether `expires_at` is none, ahead or past |
| `known` | `_coalesced_material_fingerprints`: identities whose last payload is remembered; a payload only matters as changed or not (512 identities are remembered; the model forgets none) |
| `revision`, `settled` | `material_revision`, `last_settled_material_revision` |
| `eval`, `again`, `wake` | `observation_evaluation_task` with the batch it decides, `_observation_reschedule_requested`, `next_observation_wake_at` |
| `bound` | `bound_turn_count`; the gate, the active turn and the follow-ups, the other reasons to be busy, belong to bound turns (TurnAdmission) |
| `expressed` | history: revisions whose action was dispatched |

The task's `pc` names its await: `debounce`, `policy`, `saving` (the deferral),
`dispatch`, `acting`, `acted` (the handler before, inside and after the turn it binds
to the same runtime). Drain, gate and restore have no await between them and are one
step. The gate's reasons that depend on state outside (switches, target, mute, quiet
hours, cooldowns, budgets) are nondeterministic; missing or old material and a busy
runtime are not. Fresh observation ids only: a resubmitted id is not modelled;
`close` and the claim that precedes an idle initiation are in RuntimeState.

### RuntimeState: runtimes over one stored record

| model | code |
|---|---|
| `db` | the record of the key in `personal_state_repository`: `last_user_activity_at`, `last_idle_initiation_activity_at`, `daily_policy_calls` |
| `session`, `rt[i]`, `created` | `_sessions[key]`, the `PersonalSessionRuntime` instances (an evicted one lives on while a task holds it), how many this process made |
| `rt[i].holder`, `waiting`, `snap`, `dirty` | `_state_save_lock`, who waits for it, the snapshot being saved, the dirty flag |
| `creation` | `_runtime_creation_lock` |
| `turn`, `heart`, `rt[i].eval`, `life` | where a turn, the heartbeat task, an evaluation task and the shutdown are |
| `told`, `called` | history: idle initiations submitted by epoch, policy calls made |

Faults: a save fails or is cancelled, a load fails, the runtime is evicted, the
process crashes and restarts with the stored record, the application shuts down.
Each of `MaxFailures`, `MaxLoadFailures`, `MaxCancels`, `MaxEvictions`,
`MaxRestarts`, `MaxShutdowns` bounds its kind; `MaxRuntimes` covers the first
runtime, the one after an eviction and the one made after a shutdown.
Abstractions: the waiters of the save lock are served in any order; `close`'s
one-second wait may end at any time; feedback and deferral fields of the state are
covered by the dirty bit; all calls fall on one usage day.

### PluginDelivery: one job, inline and late

`gate`, `boundary`, `arts` are `PluginExecutionResult.gate_resolution`,
`t1_artifact_count` and `output_artifacts`; `bridge` is the rendezvous of provider
requests; `t1` the turn, `late` the completion handler with its background turn
(T2); `ledger` the `_delivery_ledger`; `media` the media lease. `shown` and `fate`
are history. A T1 that is delegated and fails after it began to deliver gives up the
rest of its finals, which is why `FinalsAccounted` excepts them; a `GeneratorExit`
in the delegated loop leaves no failure type. T1 and T2 never reserve at the same
time (T2 waits for `t1_settled`); the ledger still has to keep what T1 settled out
of T2. A job cancelled before its first step is in `PluginManagement`.

### PluginManagement: leases, drains, reloads

`plugin` is `star_map`, `star_registry` and the handlers' registry, a version
standing for the identity of its handler objects; `leases`, `draining`, `drained`
are `_module_lease_counts`, `_draining_modules`, `_drain_events`; `mgr` is who holds
`_pm_lock` and where; `on` is `turn_on_plugin`, which works outside it; `off` is the
preference `inactivated_plugins`. A turn discovers handlers, checks them once
(`_retain_current_handlers`), waits, then leases, or runs them without a lease off
the coordinated path, as the code does. What the manager awaits under its lock is a
place each: `draining` (the leases, 15 seconds at most), `working` (`terminate()` and
the unload hooks), `fetching` (a download), `loads` (the import), `starts`
(`initialize()` and the load hooks). Plugins are loaded one after the other; each may
fail to import or, once it is bound, raise in `initialize()`, which takes it out again
without a drain. `failed` is `failed_plugin_dict`: only `reload_failed_plugin` and
`uninstall_failed_plugin` take an entry out, so a plugin that was loaded since may
still be listed, and these two clean it up without a drain. The first load may have
failed too. Left out: dependency installation, `install_plugin_from_file`, the
admission snapshot of capabilities.

### CronRevisions: one job

`row` is the row of `cron_jobs`; `entries` the entries in the scheduler, `tracked`
the one in `_scheduled_job_ids`; `held` a row that `add_*_job` or `sync_from_db` has
read and is about to schedule without `_job_lock`; `exec` the executions from
trigger to settlement, with `cut` for a settlement cancelled on its way; `running`
is `_running_versions`. `past` says that the one date of a revision has come, which
is all of time. Left out: what a job does, expressions and time zones, jobs that
are not persistent, database errors.

### EventPipeline: bus, scheduler, stages

`queue`, `taken`, `bus` are `EventBus`; `ev[e].stack` the nested `_process_stages`
frames: a generator stage is suspended at each yield while the later stages run on
top of it, and they run once more when it is through. A yield may carry a result or
none; `MaxYields` bounds the yields of an event in the guards, so that an event which
has used them up ends. The stages before the content
check are one coroutine `front`; `process` is the ordinary turn with its handlers
and agent; `reopen` and `Resumed` are `defer_stop_for_delivery`. Results are numbers
in order of production, notices are 0. Left out: handlers' own `event.send`,
provider requests of handlers, the duplicate check of `send_message`. A stream that
ended without `done` is handed on exhausted. `Take` may still pick an event after
`stop`: the cancelled dispatch task may have one in hand.

### TurnOutput: what a coordinated turn shows

`turn` is `InteractionTurnState`; `main` and `personal` are the two tasks, `send`
the message each has on its way (`preparing`, `wire`, `shown`, `completing`: the two
closed checks, the platform call, the completion hooks); `history` the entries in
the conversation. Faults, each at most once: a send, a completion, a commit fails,
the deadline passes, a new message interrupts. Left out: streaming, segments,
interjections, pass-through, materialization of media. `Release` waits one second
for the Personal task, which may pass at any time. `UnderDeadline` says where
`asyncio.timeout` counts: while the generator is advanced, unless the final output was
claimed before that step; there a Personal plan, a gate, a hook, a Core run or a
delegated job may stay for good, and the deadline ends the turn.

### RateLimit: one session

`line` is the session's `asyncio.Lock`, holder first; `passed` with `oldest` is the
deque of stamps and the history before it; `rule` is the policy in the configuration
of the event's own turn, so caps and strategies mix in one session. A cap of zero
or less passes everything and stamps nothing; a strategy that is neither `stall` nor
`discard` would loop and is not in `Strategies`. The window's length is one for all,
the clock is not set back.

### CodexSessions: one key

`registered`, `keyLock`, `creating`, `closed`, `closer`, `taken`, `dying` are the
registry; `aclose` takes the session out of the registry (`Close`), and the task that
closes it starts when the loop comes to it (`CloseTells`);
`proc`, `open`, `unusable`, `threaded`, `turnLock`, `active`, `inbox` the session
(named after the run that made it); `at`, `mine`, `want` the runs; `server`,
`interrupt`, `named`, `answer` what the app-server does with a run's turn. A run may
be interrupted at any await; a process may crash (`MayCrash`); `discard` comes
(`Discards`); the registry closes. `Overlap` lets two runs of a key be under way, as
two cron jobs of one session can, `Named` says that notifications carry turn ids.
The start and write locks, request preparation, deltas of an answer and resuming a
stored thread are left out; nothing says that a process ends by itself.

## 3. Runs

One run per component, each with its safety and its liveness under the same faults.

| run (module, cfg) | instance | what it shows |
|---|---|---|
| `core` (`MCCoreExecution`) | 2 bodies, 1 artifact, 1 subscriber with a mailbox of 1, 1 event without replay key, at most 3 events | the head implements `ExecutionContract`; identity, stop and input callback belong together; the subscriber loses progress only and gets the end |
| `ledger` (`CoreLedger`) | 3 settlers, 3 attempts | the claim is held by a task at work or by the row; a stored row is never replaced |
| `turn` (`MCTurnAdmission`) | 1 message, 2 follow-up candidates, 1 internal and 1 delayed turn, any 3 of them | one turn at a time; nobody sleeps before an open gate; follow-ups in order; every turn settles |
| `intake` (`ObservationIntake`) | 2 identities, facts without one, 2 revisions, inbox of 2, 2 turns | no fact is settled while it is retained, also by a batch it was not in; none is told twice; pending facts come before the gate again |
| `state` (`MCRuntimeState`) | 1 user turn, heartbeat and sensor, 2 facts, 2 initiations, 2 runtimes, any 3 of 6 kinds of faults | a bound turn keeps its runtime; what is clean is stored; calls are counted before they are made; an initiation goes out once |
| `delivery` (`PluginDelivery`) | 3 artifacts, 2 provider requests | an artifact is sent once, in the turn or after it; finals are accounted for; the job settles with its media |
| `plugins` (`PluginManagement`) | 2 plugins, 1 turn, 2 operations of the manager | lease counts; a leased module works on; the lock is given back from every place, or stays for good in an await of plugin code, a download or an import: no handler keeps it |
| `cron` (`MCCronRevisions`) | 2 executions, one edit or one shutdown with restart | the row shows its own plan's outcome; an enabled plan is scheduled; a one-shot plan ends; a row does not stay at "running" |
| `pipeline` (`MCEventPipeline`) | 2 events; one wakes a handler and the agent and yields up to twice, the other runs beside it without a yield | each result once and in order; no task after `stop`; every event ends |
| `output` (`TurnOutput`) | every gate, every fault once, 3 messages | one final output; at most one history entry, of things shown; every completed turn has its entry; the lease is released, whatever is awaited under the deadline |
| `rate` (`RateLimit`) | 3 events, caps 0 to 2, both strategies, window of 2 ticks | the cap holds in every window; a discard is due; every event is decided |
| `codex` (`MCCodexSessions`) | 2 overlapping runs, 2 configurations, crashes, discard, close | no process is left or unowned; every run ends |

These hold on the same instances too and are left out of the cfgs, as the
properties above cover their ground or a theorem states them: `PublishedIsJournal`,
`PressureBound`, `OneTerminalFact`, `FactsRecordedOnce`, `SubmittedFirst`,
`EndIsFinal`, `CancelStopsBody`, `SubscriberFinishes`, `QueuedIsRead`; `OneAppender`,
`StoredIsEvident`; `WaitersCounted`, `HandledOnce`, `FollowUpsDrain`, `StartsClean`,
`NormalFirst`, `ConsumedWhileWaiting`; `EveryFactAccounted`, `NothingStranded`;
`CallsWithinLimit`, `RecordGrows`, `ClaimBeforeFact`; `LateIsLater`, `GateDecides`,
`MediaHeld`, `AskReturns`; `OnlyManagersDrain`; `OneShotOnce`, `OneAtATime`,
`RunningIsAtWork`; `YieldedIsShown`, `StoppedStartsNothing`, `StopIsOver`;
`FinalIsSettled`, `SuppressedIsSilent`, `CancelledStays`;
`FirstCome`; `OneProcess`; and the `TypeOK` of each module. Under other settings:
`SettlementReturns` of `CoreLedger` with `LedgerFairSpec`,
`TurnsSettle` of `RuntimeState` with `FairSpec`, `DrainSucceeds` of
`PluginManagement` with `JobSpec`, `DeliveredIsDecided` of `TurnOutput` with
`Faults = {}`, `ReusedIsConfirmed` of `CodexSessions` with `Overlap = FALSE`.

**Bounds and why they suffice.** Two bodies give every pair of competing callers,
and the status machine has no counter; a mailbox of one with progress and facts
overflows with and without progress to evict. Three settlers include one that comes
while two race; the proof covers any number. Three of five kinds of turns at the gate
give a holder, a sleeper and a passer-by with every reason to block the runtime, and
two follow-ups of one message have an order to break. In the intake, a fact can be
in the batch under decision while another arrives, replaces or displaces it. In
`state`, three faults are one more than any of its promises needs to break
(an eviction, a failed save and a crash, for instance). Three artifacts give one
before, at and after the boundary that freezes a turn's part. With two operations a
reload meets the end of an earlier one. One edit separates two revisions, and one
shutdown an execution from its settlement; `cron` does not combine the two
(`FewChanges`), but all its properties were also checked with `MaxChanges = 2`, where
they combine (3.2 million states). In `pipeline` one event yields twice, so that
the second result meets the stages after the first; what two events share is the queue,
the dispatch and the stop, so the other one need not yield. In `codex` a discard and a
crash are not under way at once (`OneTrouble`). While the models were written each was
also checked without these joint bounds on narrower instances (fewer actors, or some
kinds of faults only).

A `CONSTRAINT` bounds what comes from outside: commands and facts of a body (`core`), who
arrives (`turn`), which faults happen (`state`), how often a plan is edited (`cron`), a
crash beside a discard (`codex`). The run says nothing of what lies beyond. It does not
make a liveness property hold by cutting its counterexample off half way: no step that
leads beyond the bound is one of the fair steps, so a behaviour that stays within it
never owes such a step. Where the steps to be bounded are fair (the yields in
`pipeline`, the operations in `plugins`, what is produced in `delivery`), the bound is a
constant in the guards, and what has reached it goes on.

`CHECK_DEADLOCK FALSE` stands where the system may stop: an execution that ended
and was released, all turns settled, a closed registry. The other runs check deadlock.

**Fairness.** The event loop runs ready tasks everywhere. Beyond that:
`CoreExecution`: a subscriber that can receive does; nothing makes a body finish.
`CoreLedger`: the database answers, `asyncio.sleep` ends; nobody has to settle.
`TurnAdmission`: timers fire (`deadline.enforce`), a Core run ends at the latest when
its turn's deadline cancels it; not that a platform confirms an abort, that cleanup
tasks end or a neighbour becomes clean. `ObservationIntake`: model calls and handlers
return (they carry timeouts), the wake timer fires, a turn settles; that the
conversation ever leaves the runtime free is a premise of the property, not assumed.
`PluginDelivery`: handlers return, the window's timer fires, sends end; a job of a
closed runtime is cancelled. `PluginManagement`: the manager's own steps, its drain
timer and the database; nothing is said of handlers, nor of a plugin's `terminate`,
`initialize` and hooks, a download or an import, which the manager awaits under its lock
without a bound and which may never end. `CronRevisions`: handlers and agent turns end.
`EventPipeline`: handlers, agent and platform end, a cancellation is delivered.
`TurnOutput`: the deadline strikes whatever is awaited under it; elsewhere sends, hooks
and the append end, and so does a Core run that goes on because a final output was
claimed; a Personal task that is cancelled ends. Of models, gates, tools and plugin jobs
under the deadline nothing is assumed.
`RateLimit`: time passes. `CodexSessions`: requests are bounded or end with the
process, the server ends a turn, runs have a deadline; not that a process ends.

## 4. Where the code and its documents disagree

Each line was met while modelling; TLC finds the counterexample with the cfg
named, which no run of section 3 uses. Some cfgs name several properties: TLC stops
at the first, so delete the others to see each.

| cfg, property | a text says | the code does |
|---|---|---|
| `CoreExecution_bound`, `ExceedsBoundByOne` | `core/execution.py:485-487`: "Terminal events are always retained, even if that temporarily exceeds the configured bound by one item" | at 503 every fact is appended once no progress is left to evict, any number beyond the bound |
| `CoreExecution_cancel`, `AcceptedCancelEnds` | `core/execution.py:945`: "Accept cancellation and record its terminal fact once." | the command is accepted (953) before the identity is checked (963, 785): a cancel under another body's identity is spent and raises; the deadline uses a fixed "native" (`process_stage/stage.py:731-734`) |
| `CoreLedger_already`, `AlreadyMeansStored` | `core/execution.py:1479`: "`None` means another caller already settled this execution." | 1483 returns None as soon as the claim is taken; the other's append may still fail |
| `TurnAdmission_ticket`, `NoTicketOutlivesCore` | `docs/Yakumo/dev/internal-executor-replacement-implementation-guide.md:329`: "拒绝、取消、关闭时解决所有等待 ticket" | the native body resolves tickets only where it ends by itself (`tool_loop_agent_runner.py:230`, 785, 960, 1595); cancelled, it leaves them to the messages' deadlines |
| `ObservationIntake_novelty`, `PendingIsNew` | `docs/Yakumo/modules/interaction.md:318-319`: only a rejection, a decision or a delivery settles a batch | a fact that expires or is displaced moves `last_settled_material_revision` (`personal_runtime.py:961-964`), and older pending facts are rejected as not new |
| `RuntimeState_disagrees`, `EvictsOnlyStored` | `docs/Yakumo/modules/runtime.md:163`: "尚未成功落盘的控制状态同样不属于 idle" | the flag is cleared before the save (`personal_runtime.py:1322`), and `is_idle` asks for the flag only: the runtime is evicted during its save |
| `RuntimeState_disagrees`, `EveryCallCounted` | `docs/Yakumo/modules/runtime.md:166-167`: "Policy 调用计数在 Provider 请求前持久化，写入失败时零 Provider 调用" | a cancelled save does not restore the flag (1325): who waits for the lock finds nothing to save and calls |
| `RuntimeState_disagrees`, `ClosedIsQuiet` | `docs/Yakumo/current-state.md:324`: "shutdown 会取消并等待 task" | `_get_or_create_runtime` checks for shutdown before it waits (2599): its runtime comes after it |
| `PluginDelivery_window`, `DelegatedInWindow` | `docs/Yakumo/dev/parallel-plugin-runtime-plan.md:552`: a request resolves DELEGATED while the window has not ended | the watcher of the window is cancelled with the turn's scope (`turn_coordinator.py:268`), and a later request still resolves the gate |
| `PluginManagement_disagrees`, `RunsCurrentHandlers` | `process_stage/stage.py:108`: "Reject discovery results that were unbound or replaced by reload." | it is called once, before the turn waits; a reload in between leaves the job with the old handler (807) |
| same, `NothingRunsWhileDestroyed` | `parallel-plugin-runtime-plan.md:522`: "防止插件 reload/unload 销毁仍在执行的 Handler" | the paths at `stage.py:976` run handlers without a lease |
| same, `NoPluginLost` | `parallel-plugin-runtime-plan.md:528-529`: a drain that times out aborts the operation | a reload of everything has unbound the earlier plugins by then (`star_manager.py:926`) |
| same, `LeaseAlwaysPins` | `parallel-plugin-runtime-plan.md:529`: "不得强制取消 Job、卸载仍被 lease 引用的模块" | `initialize()` raises after the plugin was bound, and it is cleaned up without a drain (`star_manager.py:1292`, 1350, 1381); `reload_failed_plugin` and `uninstall_failed_plugin` clean up a plugin that works again (874, 1713), as only they take it off the failed list |
| same, `TurnedOffIsRemembered` | `star_manager.py:1944`: the plugin is added to the stored list | `turn_on_plugin` writes back a list it read before an await, outside the lock (2033) |
| `CronRevisions_shutdown`, `ClosedIsSettled` | `docs/Yakumo/current-state.md:125`: "取消并等待自动/手动执行的收尾落库" | `shutdown` cancels the settlement itself (`cron/manager.py:135`): the row stays at "running" |
| `CronRevisions_sync`, `RescheduledStays` | `tests/unit/test_cron_manager.py:75-79`: a rescheduled plan is enabled and "scheduled" | an older copy that cannot be scheduled switches the row off by its id alone (`cron/manager.py:327`) |
| `EventPipeline_disagrees`, `StopEndsSteps` | `docs/zh/dev/star/guides/listen-message-event.md:508`: "当事件停止传播，后续所有步骤将不会被执行。" | after a generator stage the loop does not look at `is_stopped()` (`pipeline/scheduler.py:63`) |
| same, `BlockedIsBlocked` | `content_safety_check/stage.py:54`: the message "已被屏蔽" | the stage yields its notice before it stops the event (57), and the later stages run at that yield |
| same, `ResetSilences` | `active_event_registry.py:33`: "终止指定 UMO 的所有活跃事件。" | the deferred stop takes a reset for the handler's own stop and opens the event (`plugin_handler_executor.py:121`) |
| `TurnOutput_disagrees`, `CommittedIsShown` | `docs/Yakumo/modules/interaction.md:80`: "Personal 已经 committed 或 delivered 后，插件结果不能撤回它" | a HANDLED gate returns without awaiting the Personal task (`turn_coordinator.py:459`), whose send is cut |
| same, `AnswerIsClaimed` | `docs/Yakumo/README.md:28`: "即时表达、Core 最终结果和插件最终输出共享 turn 级仲裁" | an answer that comes while the Personal reply is being sent is delivered as an immediate one (`output_controller.py:419`) |
| same, `ClaimedIsFinished` | `docs/Yakumo/dev/runtime-function-unification-plan.md:638`: "最终输出被认领后只允许既有交付与清理完成" | a final claimed inside a step of the generator is still cancelled by the deadline (`stage.py:683`) |
| `RateLimit_reset`, `LimitResets` | `rate_limit_check/stage.py:19`, 85: a fixed window that resets after the time told | the window slides: one slot is free then (73) |
| `CodexSessions_crash`, `HandedIsAlive` | `docs/Yakumo/dev/codex-persistent-executor-implementation-plan.md:60`: "进程崩溃、协议错误或配置变化时废弃 thread 并重建" | the dead session is handed out again (`session_registry.py:58`), and the key refused afterwards |
| same, `StopNamesItsTurn` | the same plan, 59: `turn/interrupt` is mapped to `request_stop()` | the turn id is forgotten first (`codex_session.py:170`) |
| `CodexSessions_overlap`, `ReusedIsConfirmed` | `docs/Yakumo/dev/runtime-boundary-convergence-plan.md:407`: "未确认时其持久会话不可复用" | the turn lock is free before the interrupt is sent (`codex_session.py:141`) |
| `CodexSessions_late`, `AnswerIsOwn` | the plan, 201: "取消后迟到正文不会进入 Output" | a notification without `turnId` is taken whoever it belongs to (157) |
| `CodexSessions_closed`, `ClosedIsTold` | the plan, 161: "JSON 无效、EOF、超时、重复完成均转成明确的执行错误" | `aclose` cancels the reader, which tells a waiting turn nothing (184) |

Also seen, wrong by no text: a platform abort that fails or times out blocks its
runtime for good (fail-closed); the follow-up next in order is usually skipped as
busy, because `release()` hands the order on before it opens the gate; the notice
`response_is_safe` sets together with `stop_event` (`output_lifecycle.py:195-201`) is
never delivered; an interruption after a tool's final output overwrites COMPLETED
with CANCELLED; a Core final equal to an undelivered set reply counts as a duplicate;
an immediate reply may appear after the plugin's final; the stop of a queued Codex run
interrupts the turn of the run before it.

The run `state` leaves out of its promises what three of these break: `Undisturbed`
names the cases (a cancelled save, a failed load, a creation after shutdown, an
eviction while the heartbeat saves).

## 5. Proofs

All theorems hold for every value of the constants under the named assumptions of
each module (distinct null values, `MaxSize` and `MaxAttempts` positive, finite
sets of turns of disjoint kinds, finitely many events). `PROJECT.json` lists them;
every safety property that a run checks is stated by one. The bounds of the models
(`MaxFacts`, `MaxRuntimes`, `MaxMessages`, ...) are constants too: a theorem says
nothing of a particular bound.

* `CoreExecutionProofs`, the head. The journal is handled by one *frame* lemma
  (`SessionSteps`): every step leaves the session alone, adds a command before the
  end, or appends one or two admitted events. On it rests `JournalInv`, which
  strengthens the wanted properties by what makes them inductive: the status is
  the kind of the last event, no terminal event before the last, the first event
  is the submission unless the execution was aborted unsubmitted, keyed events
  differ. `LifecycleInv` says a bound identity has both its callbacks, the middle
  states of a binding that raised being exactly "stop callback without identity".
  `PublishedInv` relates the published set to the journal. The refinement is
  proved step by step (`ContractStep`): each frame case is a contract action or a
  stutter. `MailboxInv` is about what a mailbox holds of the journal: received and
  queued events are in order and lie behind the mailbox's start, and what is
  `Missed` of them was evicted, is progress, and is counted. `Queues` says what
  publishing does to a queue, also to a full one; `EndAlwaysArrives` is an action
  property read off the same case analysis.
* The same module, the ledger. `LedgerInv`: types, the claim is held by the one busy
  task or by the row, and every record prepared with evidence agrees with the
  terminal event, which never changes.
* `TurnAdmissionProofs`. `AdmissionInv`: types without the follow-up counters,
  `OneTurnAtATime`, *Owned* (the active turn is the one that holds the gate in
  `active` to `closed`, and no execution runs without it) and *TicketsOwned* (a
  live ticket belongs to a captured turn). `StartsClean` and
  `ConsumedWhileWaiting` are action properties read off it. `NoLostWakeup` is
  inductive with `woken \subseteq Turns` (`Awake`), step by step through the
  ways into and out of the queue. `FollowUpOrder` needs `FollowInv`: orders are given
  once each, in sequence; the next turn never passes one that is not over; whoever
  was activated was the next one then. `WaitInv` counts the normal turns of the queue
  and keeps candidates out of it; `NormalFirst` follows, a gate with a waiting normal
  turn being passed by normal turns only.
* `PersonalRuntimeProofs`, the stored state. `Tied` says who may be where: a turn past
  its binding is in the `bound` set of its instance, which is the key's
  (`TurnsTied`); the creation lock is held only while there is no runtime
  (`LockServes`); who holds or waits for a save lock is a task of that instance which
  is in a save (`SaversKnown`); no instance is numbered beyond those created
  (`Numbered`). `BoundIsCurrent` follows, with no proviso about faults. The promises
  about the record hold while `Undisturbed`, and rest on `Recorded`: an instance that
  is not the key's is quiet; the record, the memory of the key's instance and the
  snapshot being saved are ordered (`Grown`); each of them covers the calls made and
  the epochs told (`Covers`); a clear flag means that memory equals the snapshot or,
  with no save under way, the record; and the heartbeat that saves its claim is in the
  save with the claim in the memory (`Claimant`). Calls are counted in memory before the
  save whose completion permits them, and a failed save sets the flag again: each is
  a case of `Kept`. `RecordOnlyGrows` and `ClaimIsStoredFirst` are action properties of
  the same invariant.
* The same module, the inbox. `NothingStranded` is not inductive: while the batch is
  away the task may find new facts pending when it ends. `Requested` adds that these
  facts asked for another run, and `Shape` that a delivering task has its own turn
  bound, so that the count cannot fall below it.
* The same module, the facts. What the inbox and the batch hold is a partition matter:
  `AdmitConserves` and `RestoreConserves` say that admitting an item, and putting a batch
  back, divide the material there was into what stays and what is discarded, with
  nothing in both (`Parts`). That needs boxes which are `Sound`, with one item per
  identity and each revision once, and `Boxes`: inbox and batch share nothing, and only a
  batch under decision is kept. `MarksMove` then carries `Marked` through every
  step that settles exactly what it discards: `SettledIsGone`, `EveryFactAccounted` and
  `ToldOnce` are inductive together, `ToldOnce` because what is told is settled in the same
  step. The items that a filter keeps are picked by their indices (`Picked`), so that no
  recursive definition is in the way; `PickedIs` says what it returns.
* `PluginProofs`, the delivery. `DInv` explains every mark of the delivery ledger
  (`MarksExplained`: reserved only while somebody sends it, finished with a fate),
  every gate (`GateExplained`: what the job has produced, and what the turn may do),
  and says that what was shown keeps its mark until nobody sends any more
  (`ShownIsMarked`), that the late delivery comes after the turn and the job
  (`LateIsAfter`), and that what the turn or the late delivery has passed is decided
  (`PassedIsDecided`, `GroupsDecided`). `ShownOnce` is `ShownIsMarked` and a step by
  step argument that only an unmarked artifact is reserved; `FinalsAccounted` combines the
  two `Decided` parts at the end.
* The same module, the manager. The counts are right because only a turn without a lease
  takes one (`LeaseHolders`), and `Returned` gives back exactly its modules: a
  cardinality argument over the finite set of turns. `LeasesPin` needs that what the
  manager unbinds was drained (`WorksOnDrained`), that a drained module has no lease
  (`DrainedIsFree`), that what it loads does not work at that time (`LoadsTheDead`), and
  that what is bound has its folder (`BoundIsInstalled`). Its statement excepts the two
  cleanups that the code makes without a drain (`Undrained`); `LeaseAlwaysPins`, without
  the exceptions, fails (section 4).
* `TurnOutputProofs`. `FinalInv`: a final message that has not reached the platform, of
  whichever task, holds the reservation and is the first one (`ComingIsFirst`); a free
  reservation means that no final was shown (`FreeIsUnused`); where the main task waits
  while its message is on the way (`SendPlace`). `HistoryInv`: what the turn remembers,
  what is being committed, and what counts as sent, was shown (`RecordedIsShown`).
  `KeptInv`, for `CompletedTurnsAreKept`: a committed turn has its entry; a reply that
  was shown is known to its task when the route is taken (`ReplyKnown`, `EarlyIsQuiet`),
  so that a turn which completes in silence has shown nothing, its Personal task is
  over, and nothing is shown any more (`SilentIsOver`); `KeptStep` follows how places,
  status and reply move. Two frame lemmas say what a step may do to what is remembered
  (`RecordingMoves`) and to what is shown (`DeliveryMoves`).
* `CronRevisionsProofs`. `IInv == Typed /\ RunInv /\ PlanInv`. `RunInv` (one execution
  of a revision at work; outcomes) rests on `AtWorkIsListed` and on what the row says
  of the execution it names. `PlanInv` (one-shot plans are triggered once; enabled
  plans are scheduled) rests on revisions: nothing scheduled, held or executed is
  newer than the row, and what is as new is of its kind. `EndsInv` adds for
  `OneShotEnds` that a triggered execution of the plan as it is has its mark in the
  row (`HasTheRow`) unless a shutdown cut it (`CutByShutdown`).
* `PipelineProofs`, the pipeline. `PipelineInv` is a statement about each event by itself
  (`Sound`), so a step of one event's task leaves the others sound. `Framed`: under the
  top of a stack of suspended stages every frame is suspended at a yield, and only the
  content check and the process stage ever are; `Behind`: a result that was shown is
  about to be replaced, or nothing shows it again; `StopHeld`: a stop is in force, or
  put off while a handler is suspended right under the stages that deliver for it.
* The same module, the rate limit. `WindowHolds` is inductive with `LostIsOld`: what was
  dropped from the deque has left the window for good, so a full window of `passed` is
  a full deque. `DiscardIsDue` is an action property of the same invariant and of
  the order of the stamps (`Ordered`).
* `CodexSessionsProofs`. `Owned` ties the lock of the key, the list of creators, the
  registry and the processes together: while a session is made nothing is registered and
  no other process lives, while one is replaced none lives at all, and a closed registry
  knows every creator and the session it is about to close. `ReuseIsSafe` holds under
  the assumption, named in the theorem, that runs follow each other (`Overlap = FALSE`)
  and notifications name their turns; `CodexSessions_overlap.cfg` shows it is needed.

Only model-checked: everything temporal under fairness (out of the prover's reach) and,
among the properties that hold beside the runs, `MediaHeld`, `LateIsLater`,
`RunningIsAtWork`, `FirstCome`, `YieldedIsShown`, `FinalIsSettled`,
`SuppressedIsSilent`, `CancelledStays`, and the types of the follow-up counters. Every
invariant and every action property of the runs is stated by a theorem.

## 6. Not modelled

`PROJECT.json` lists every component with its status. Whole components left out:

* **Persona, expression and core planning; prompt assembly; subagents and proactive
  turns**: sequential assembly of text and model calls whose outcome depends on the
  text and not on an order of steps. `TurnOutput` has their possible results.
* **Providers and platforms; knowledge base, computer use, skills, voice, tools,
  backup**: protocol translation, I/O and file formats.
* **Conversations and personas; configuration**: CRUD and lookup with caches.
* **Memory; postprocessing**: tasks after the turn, which the turn does not wait for.
* **Application and agent lifecycle**: a fixed sequence of awaited starts and stops;
  what a stop may leave behind is modelled in the parts.
* **Updater, dashboard, CLI**: administration and user interface.

Within the modelled components, what is left out stands with each module in section
2. The hazards of `PROJECT.json` without a property say why.

## 7. Plan

The modules were built in the order in which section 2 lists them. What a
continuation would add, most useful first:

1. proofs of those safety properties beside the runs that section 5 leaves to TLC;
2. an abstract "shown at most once, in order" that `PluginDelivery`, `EventPipeline` and
   `TurnOutput` implement;
3. the consolidation watermark of the memory, and postprocessing;
4. streaming and interjections of the output controller;
5. the shutdown of the application as the composition of the stops of its parts.
