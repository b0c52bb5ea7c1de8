-------------------------- MODULE PluginManagement --------------------------
(***************************************************************************)
(* Plugins are reloaded, updated, removed and switched off while turns run *)
(* their handlers (star_manager.py, plugin_execution_runtime.py,           *)
(* turn_coordinator.py, stage.py, star_request.py).  A turn discovers      *)
(* handlers, waits for its admission, and runs them in a job that leases   *)
(* their modules, or, off the coordinated path, without a lease.  The      *)
(* manager works under one lock; before it touches a module it drains it:  *)
(* no new lease, and a bounded wait for the old ones.                      *)
(*                                                                         *)
(* A module's version stands for the identity of its handlers' objects;    *)
(* its handlers are one.  The list of switched-off plugins is stored in    *)
(* the preferences, which are read and written across awaits.              *)
(*                                                                         *)
(* Slips the runs must notice are written before the operator they distort, *)
(* under names that begin with "Slip"; no operator of the model uses them. *)
(***************************************************************************)
EXTENDS Naturals, FiniteSets

CONSTANTS
    Modules,  \* plugins, by module path
    Turns,    \* turns of platform messages
    None,     \* no module
    MaxOps    \* bound of the model: management operations

ASSUME NoneAssumption  == None \notin Modules
ASSUME TurnsAssumption == IsFiniteSet(Turns)

VARIABLES
    plugin,    \* star_map, star_registry, star_handlers_registry
    folder,    \* the plugins' folders
    failed,    \* failed_plugin_dict
    off,       \* the stored inactivated_plugins
    leases,    \* _module_lease_counts
    draining,  \* _draining_modules
    drained,   \* the modules in _drain_events whose event is set
    turn,      \* per turn: place, modules, their versions seen, modules left, the handler it is in
    mgr,       \* who holds _pm_lock: place, operation, module, modules still to drain, list read
    on,        \* turn_on_plugin outside the lock, per module: place, list read
    shut,      \* PluginExecutionRuntime._closed
    ops        \* operations so far

managementVars == <<plugin, folder, failed, off, leases, draining, drained, turn, mgr, on, shut, ops>>

registry == <<plugin, folder, failed>>
drains   == <<leases, draining, drained>>

Live(m)    == plugin[m].bound /\ plugin[m].active
Leased(m)  == {t \in Turns : turn[t].lease /\ m \in turn[t].mods}

-----------------------------------------------------------------------------
(* Leases.                                                                 *)

(* A lease is given on a module that is drained.                           *)
SlipAvailable(ms) == ~shut

(* acquire_module_lease: all the modules, or none.                         *)
Available(ms) == ~shut /\ ms \cap draining = {}

Lease(ms) == leases' = [m \in Modules |-> IF m \in ms THEN leases[m] + 1 ELSE leases[m]]

(* A lease on several modules is not returned.                             *)
SlipReturned(ms) ==
    [m \in Modules |-> IF ms = {m} /\ leases[m] > 0 THEN leases[m] - 1 ELSE leases[m]]

(* _release_module_lease: the counts,                                      *)
Returned(ms) ==
    [m \in Modules |-> IF m \in ms /\ leases[m] > 0 THEN leases[m] - 1 ELSE leases[m]]

(*   and who waits for the last of them.                                   *)
Woken(ms) == drained \cup {m \in ms \cap draining : Returned(ms)[m] = 0}

(* begin_module_draining, up to its wait.                                  *)
Drain(m, others) ==
    /\ draining' = others \cup {m}
    /\ drained'  = (drained \cap others) \cup (IF leases[m] = 0 THEN {m} ELSE {})
    /\ UNCHANGED leases

(* end_module_draining                                                     *)
EndDraining(m) ==
    /\ draining' = draining \ {m}
    /\ drained'  = drained \ {m}
    /\ UNCHANGED leases

-----------------------------------------------------------------------------
(* Turns.                                                                  *)

TurnFrame == UNCHANGED <<registry, off, draining, mgr, on, shut, ops>>

(* _discover_activated_handlers                                            *)
Discover(t) ==
    /\ turn[t].pc = "idle"
    /\ \E ms \in (SUBSET {m \in Modules : Live(m)}) \ {{}} :
          turn' = [turn EXCEPT ![t] = [@ EXCEPT
                      !.pc = "found", !.mods = ms, !.seen = [m \in Modules |-> plugin[m].ver]]]
    /\ TurnFrame /\ UNCHANGED <<leases, drained>>

(* _retain_current_handlers, before the turn asks for its admission.       *)
Check(t) ==
    LET kept == {m \in turn[t].mods : Live(m) /\ plugin[m].ver = turn[t].seen[m]}
    IN  /\ turn[t].pc = "found"
        /\ turn' = [turn EXCEPT ![t] = [@ EXCEPT
                        !.pc = IF kept = {} THEN "over" ELSE "checked", !.mods = kept]]
        /\ TurnFrame /\ UNCHANGED <<leases, drained>>

(* InteractionTurnCoordinator.start: launch the job, or go without it.     *)
Launch(t) ==
    LET ms == turn[t].mods
    IN  /\ turn[t].pc = "checked"
        /\ IF Available(ms)
           THEN /\ Lease(ms)
                /\ turn' = [turn EXCEPT ![t] = [@ EXCEPT
                                !.pc = "launched", !.left = ms, !.lease = TRUE]]
           ELSE /\ turn' = [turn EXCEPT ![t] = [@ EXCEPT !.pc = "over"]]
                /\ UNCHANGED leases
        /\ TurnFrame /\ UNCHANGED drained

(* The default handler path, and busy group candidates: no lease.          *)
RunDirectly(t) ==
    /\ turn[t].pc = "checked"
    /\ turn' = [turn EXCEPT ![t] = [@ EXCEPT !.pc = "direct", !.left = turn[t].mods]]
    /\ TurnFrame /\ UNCHANGED <<leases, drained>>

(* The first step of the job's task.                                       *)
JobBegins(t) ==
    /\ turn[t].pc = "launched"
    /\ turn' = [turn EXCEPT ![t] = [@ EXCEPT !.pc = "job"]]
    /\ TurnFrame /\ UNCHANGED <<leases, drained>>

(* StarRequestSubStage.process: the next handler; one whose module is not  *)
(* in star_map is passed over.                                             *)
Invoke(t) ==
    /\ turn[t].pc \in {"job", "direct"} /\ turn[t].cur = None
    /\ \E m \in turn[t].left :
          turn' = [turn EXCEPT ![t] = [@ EXCEPT
                      !.left = turn[t].left \ {m},
                      !.cur  = IF plugin[m].bound THEN m ELSE None]]
    /\ TurnFrame /\ UNCHANGED <<leases, drained>>

(* The handler ends; it may have stopped the event.                        *)
HandlerEnds(t) ==
    /\ turn[t].pc \in {"job", "direct"} /\ turn[t].cur # None
    /\ \E rest \in {turn[t].left, {}} :
          turn' = [turn EXCEPT ![t] = [@ EXCEPT !.cur = None, !.left = rest]]
    /\ TurnFrame /\ UNCHANGED <<leases, drained>>

(* _run_job's finally-clause.                                              *)
Leave(t) ==
    LET ms == IF turn[t].lease THEN turn[t].mods ELSE {}
    IN  /\ leases'  = Returned(ms)
        /\ drained' = Woken(ms)
        /\ turn'    = [turn EXCEPT ![t] = [@ EXCEPT
                           !.pc = "over", !.lease = FALSE, !.cur = None, !.left = {}]]

(* All handlers are through.                                               *)
HandlersDone(t) ==
    /\ turn[t].pc \in {"job", "direct"} /\ turn[t].cur = None /\ turn[t].left = {}
    /\ Leave(t)
    /\ TurnFrame

(* The job raises, or shutdown cancels it.                                 *)
JobStops(t) ==
    /\ turn[t].pc = "job"
    /\ Leave(t)
    /\ TurnFrame

(* PluginExecutionRuntime.shutdown: a task that has not begun is cancelled *)
(* before the clause that returns its lease.                               *)
CloseRuntime ==
    /\ ~shut
    /\ shut' = TRUE
    /\ turn'   = [t \in Turns |-> IF turn[t].pc = "launched"
                                  THEN [turn[t] EXCEPT !.pc = "over"] ELSE turn[t]]
    /\ UNCHANGED <<registry, off, drains, mgr, on, ops>>

HandlerStep(t) == JobBegins(t) \/ Invoke(t) \/ HandlerEnds(t) \/ HandlersDone(t)

TurnStep(t) == Discover(t) \/ Check(t) \/ Launch(t) \/ RunDirectly(t) \/ HandlerStep(t) \/ JobStops(t)

-----------------------------------------------------------------------------
(* The manager.                                                            *)

Idle == [pc |-> "idle", op |-> "none", mod |-> None, todo |-> {}, copy |-> {}]

Bound == {m \in Modules : plugin[m].bound}

(* The lock is free and the operation begins by draining the module.       *)
Take(op, m, todo) ==
    /\ mgr.pc = "idle"
    /\ mgr' = [Idle EXCEPT !.pc = "draining", !.op = op, !.mod = m, !.todo = todo]
    /\ Drain(m, draining)

(* _reload_locked of everything.                                           *)
TakeAll ==
    \/ \E m \in Bound : Take("all", m, Bound \ {m})
    \/ /\ Bound = {} /\ mgr.pc = "idle"
       /\ mgr' = [Idle EXCEPT !.pc = "loading", !.op = "all"]
       /\ UNCHANGED drains

(* reload, update_plugin, uninstall_plugin, turn_off_plugin                *)
Begin(op, m) ==
    /\ ops < MaxOps /\ m \in Bound
    /\ Take(op, m, {})
    /\ ops' = ops + 1
    /\ UNCHANGED <<registry, off, turn, on, shut>>

BeginAll ==
    /\ ops < MaxOps
    /\ TakeAll
    /\ ops' = ops + 1
    /\ UNCHANGED <<registry, off, turn, on, shut>>

(* The lock is free and the operation begins with a download or with the   *)
(* plugin's requirements.                                                  *)
Fetch(op, m) ==
    /\ ops < MaxOps /\ mgr.pc = "idle"
    /\ mgr' = [Idle EXCEPT !.pc = "fetching", !.op = op, !.mod = m]
    /\ ops' = ops + 1
    /\ UNCHANGED <<folder, failed, off, drains, turn, on, shut>>

(* install_plugin *)
Install(m) ==
    /\ m \notin folder
    /\ Fetch("install", m)
    /\ UNCHANGED plugin

(* A plugin taken out of the registries.                                   *)
Unbound(m) == [plugin EXCEPT ![m].bound = FALSE]

(* reload_failed_plugin cleans up first, and drains nothing: the entry may *)
(* be of a load before the one that bound the plugin.                      *)
ReloadFailed(m) ==
    /\ m \in failed
    /\ Fetch("reload_failed", m)
    /\ plugin' = Unbound(m)

(* uninstall_failed_plugin does not await. The folder may resist.          *)
UninstallFailed(m) ==
    /\ ops < MaxOps /\ mgr.pc = "idle" /\ m \in failed
    /\ plugin' = Unbound(m)
    /\ \/ folder' = folder \ {m} /\ failed' = failed \ {m}
       \/ UNCHANGED <<folder, failed>>
    /\ ops' = ops + 1
    /\ UNCHANGED <<off, drains, turn, mgr, on, shut>>

MgrFrame == UNCHANGED <<turn, on, shut, ops>>

(* The last lease is back, or there was none.                              *)
Drained ==
    /\ mgr.pc = "draining" /\ mgr.mod \in drained
    /\ mgr' = [mgr EXCEPT !.pc = "working"]
    /\ MgrFrame /\ UNCHANGED <<registry, off, drains>>

(* The wait has no end of its own.                                         *)
SlipWaitsOn ==
    /\ mgr.pc = "draining" /\ mgr.mod \in drained
    /\ mgr' = Idle
    /\ EndDraining(mgr.mod)
    /\ MgrFrame /\ UNCHANGED <<registry, off>>

(* PluginModuleDrainTimeoutError ends the operation.                       *)
DrainTimesOut ==
    /\ mgr.pc = "draining"
    /\ mgr' = Idle
    /\ EndDraining(mgr.mod)
    /\ MgrFrame /\ UNCHANGED <<registry, off>>

(* What is fetched is there.                                               *)
Fetched ==
    /\ mgr.pc = "fetching"
    /\ folder' = IF mgr.op = "install" THEN folder \cup {mgr.mod} ELSE folder
    /\ mgr'    = [mgr EXCEPT !.pc = "loading"]
    /\ MgrFrame /\ UNCHANGED <<plugin, failed, off, drains>>

(* It is not, or an installation without what it requires.                 *)
FetchFails ==
    /\ mgr.pc = "fetching"
    /\ \/ UNCHANGED <<folder, failed>>
       \/ /\ mgr.op = "install"
          /\ folder' = folder \cup {mgr.mod} /\ failed' = failed \cup {mgr.mod}
    /\ mgr' = Idle
    /\ MgrFrame /\ UNCHANGED <<plugin, off, drains>>

(* reload of one plugin: a plugin that is switched off stays in place.     *)
Reloaded ==
    /\ mgr.pc = "working" /\ mgr.op = "reload"
    /\ plugin' = IF plugin[mgr.mod].active THEN Unbound(mgr.mod) ELSE plugin
    /\ mgr'    = [mgr EXCEPT !.pc = "loading"]
    /\ EndDraining(mgr.mod)
    /\ MgrFrame /\ UNCHANGED <<folder, failed, off>>

(* update_plugin: the new folder, and a reload while it is still drained.  *)
Updated ==
    /\ mgr.pc = "working" /\ mgr.op = "update"
    /\ plugin' = IF plugin[mgr.mod].active THEN Unbound(mgr.mod) ELSE plugin
    /\ mgr'    = [mgr EXCEPT !.pc = "loading"]
    /\ MgrFrame /\ UNCHANGED <<folder, failed, off, drains>>

(* reload of everything: this one, and on to the next.                     *)
ReloadedAll ==
    /\ mgr.pc = "working" /\ mgr.op = "all"
    /\ plugin' = Unbound(mgr.mod)
    /\ \/ \E n \in mgr.todo :
             /\ mgr' = [mgr EXCEPT !.pc = "draining", !.mod = n, !.todo = @ \ {n}]
             /\ Drain(n, draining \ {mgr.mod})
       \/ /\ mgr.todo = {}
          /\ mgr' = [mgr EXCEPT !.pc = "loading"]
          /\ EndDraining(mgr.mod)
    /\ MgrFrame /\ UNCHANGED <<folder, failed, off>>

(* The folder may resist.                                                  *)
Uninstalled ==
    /\ mgr.pc = "working" /\ mgr.op = "uninstall"
    /\ plugin' = Unbound(mgr.mod)
    /\ folder' \in {folder, folder \ {mgr.mod}}
    /\ mgr'    = Idle
    /\ EndDraining(mgr.mod)
    /\ MgrFrame /\ UNCHANGED <<failed, off>>

(* turn_off_plugin: terminated, then the preferences.                      *)
TurnedOff ==
    /\ mgr.pc = "working" /\ mgr.op = "turn_off"
    /\ plugin' = [plugin EXCEPT ![mgr.mod].active = FALSE]
    /\ mgr'    = [mgr EXCEPT !.pc = "reading"]
    /\ EndDraining(mgr.mod)
    /\ MgrFrame /\ UNCHANGED <<folder, failed, off>>

(* The list of switched-off plugins, to add to it.                         *)
ReadOff ==
    /\ mgr.pc = "reading"
    /\ mgr' = [mgr EXCEPT !.copy = off, !.pc = "writing"]
    /\ MgrFrame /\ UNCHANGED <<registry, off, drains>>

WriteOff ==
    /\ mgr.pc = "writing"
    /\ off' = mgr.copy \cup {mgr.mod}
    /\ mgr' = Idle
    /\ MgrFrame /\ UNCHANGED <<registry, drains>>

(* The download of an update, or the plugin's terminate, fails.            *)
WorkFails ==
    /\ mgr.pc = "working" /\ mgr.op \in {"update", "turn_off"}
    /\ mgr' = Idle
    /\ EndDraining(mgr.mod)
    /\ MgrFrame /\ UNCHANGED <<registry, off>>

(* load: the list of switched-off plugins, and the folders it goes through. *)
LoadBegins ==
    /\ mgr.pc = "loading"
    /\ mgr' = [mgr EXCEPT !.copy = off, !.pc = "loads",
                          !.todo = IF mgr.op = "all" THEN folder ELSE folder \cap {mgr.mod}]
    /\ MgrFrame /\ UNCHANGED <<registry, off, drains>>

(* _cleanup_plugin_state and the entry on the failed list.                 *)
CleanedUp(m) == plugin' = Unbound(m) /\ failed' = failed \cup {m}

(* A plugin cannot be imported or does not construct.                      *)
ImportFails(m) ==
    /\ mgr.pc = "loads" /\ m \in mgr.todo
    /\ CleanedUp(m)
    /\ mgr' = [mgr EXCEPT !.todo = @ \ {m}]
    /\ MgrFrame /\ UNCHANGED <<folder, off, drains>>

(* It is bound, for turns to find, and its initialize awaited.             *)
Bind(m) ==
    /\ mgr.pc = "loads" /\ m \in mgr.todo
    /\ plugin' = [plugin EXCEPT ![m] =
                     [bound |-> TRUE, active |-> m \notin mgr.copy,
                      ver |-> IF plugin[m].bound THEN plugin[m].ver ELSE plugin[m].ver + 1]]
    /\ mgr' = [mgr EXCEPT !.pc = "starts", !.mod = m, !.todo = @ \ {m}]
    /\ MgrFrame /\ UNCHANGED <<folder, failed, off, drains>>

(* initialize and the handlers of the loaded event are through.            *)
Started ==
    /\ mgr.pc = "starts"
    /\ mgr' = [mgr EXCEPT !.pc = "loads"]
    /\ MgrFrame /\ UNCHANGED <<registry, off, drains>>

(* initialize raises: the plugin is cleaned up, drained or not.            *)
StartFails ==
    /\ mgr.pc = "starts"
    /\ CleanedUp(mgr.mod)
    /\ mgr' = [mgr EXCEPT !.pc = "loads"]
    /\ MgrFrame /\ UNCHANGED <<folder, off, drains>>

(* All are through. Only reload_failed_plugin takes an entry off the list. *)
LoadEnds ==
    /\ mgr.pc = "loads" /\ mgr.todo = {}
    /\ failed' = IF mgr.op = "reload_failed" /\ (mgr.mod \in folder => plugin[mgr.mod].bound)
                 THEN failed \ {mgr.mod} ELSE failed
    /\ mgr' = Idle
    /\ IF mgr.op = "update" THEN EndDraining(mgr.mod) ELSE UNCHANGED drains
    /\ MgrFrame /\ UNCHANGED <<plugin, folder, off>>

(* What the manager does by itself, its timer and its database; the other  *)
(* steps end an await of what plugins or the network do.                   *)
OwnStep == Drained \/ DrainTimesOut \/ ReadOff \/ WriteOff \/ LoadBegins \/ LoadEnds

Manage ==
    \/ OwnStep \/ WorkFails \/ Fetched \/ FetchFails
    \/ Reloaded \/ Updated \/ ReloadedAll \/ Uninstalled \/ TurnedOff
    \/ Started \/ StartFails
    \/ \E m \in Modules : ImportFails(m) \/ Bind(m)

-----------------------------------------------------------------------------
(* turn_on_plugin: the preferences without the lock, then a reload.        *)
TurnOn(m) ==
    /\ ops < MaxOps /\ m \in Bound /\ on[m].pc = "none"
    /\ on'  = [on EXCEPT ![m] = [pc |-> "read", copy |-> off]]
    /\ ops' = ops + 1
    /\ UNCHANGED <<registry, off, drains, turn, mgr, shut>>

TurnOnWrites(m) ==
    /\ on[m].pc = "read"
    /\ off' = on[m].copy \ {m}
    /\ on'  = [on EXCEPT ![m] = [pc |-> "reload", copy |-> {}]]
    /\ UNCHANGED <<registry, drains, turn, mgr, shut, ops>>

(* A plugin that is gone meanwhile is none the manager knows: it reloads   *)
(* everything.                                                             *)
TurnOnReloads(m) ==
    /\ on[m].pc = "reload"
    /\ IF m \in Bound THEN Take("reload", m, {}) ELSE TakeAll
    /\ on' = [on EXCEPT ![m].pc = "none"]
    /\ UNCHANGED <<registry, off, turn, shut, ops>>

-----------------------------------------------------------------------------
ManagementInit ==
    /\ failed \in SUBSET Modules  \* the first load may have failed
    /\ plugin = [m \in Modules |-> [bound |-> m \notin failed, active |-> TRUE, ver |-> 0]]
    /\ folder = Modules /\ off = {}
    /\ leases = [m \in Modules |-> 0] /\ draining = {} /\ drained = {}
    /\ turn = [t \in Turns |-> [pc |-> "idle", mods |-> {}, seen |-> [m \in Modules |-> 0],
                                left |-> {}, cur |-> None, lease |-> FALSE]]
    /\ mgr = Idle
    /\ on = [m \in Modules |-> [pc |-> "none", copy |-> {}]]
    /\ shut = FALSE /\ ops = 0

ManagementNext ==
    \/ \E t \in Turns : TurnStep(t)
    \/ \E m \in Modules, op \in {"reload", "update", "uninstall", "turn_off"} : Begin(op, m)
    \/ \E m \in Modules : Install(m) \/ ReloadFailed(m) \/ UninstallFailed(m)
    \/ \E m \in Modules : TurnOn(m) \/ TurnOnWrites(m) \/ TurnOnReloads(m)
    \/ BeginAll \/ Manage \/ CloseRuntime

ManagementSpec == ManagementInit /\ [][ManagementNext]_managementVars

(* The manager and its timer run; nothing is said of the handlers, nor of  *)
(* the plugins' terminate, initialize and hooks, which it awaits.          *)
ManagerSpec == ManagementSpec /\ WF_managementVars(OwnStep)

(* Handlers end and the manager sees a set event; its timer need not fire. *)
JobSpec == ManagementSpec /\ WF_managementVars(Drained) /\ \A t \in Turns : WF_managementVars(HandlerStep(t))

-----------------------------------------------------------------------------
(* Every variable has its type, and only what is drained has been drained. *)
ManagementTypeOK ==
    /\ plugin \in [Modules -> [bound : BOOLEAN, active : BOOLEAN, ver : Nat]]
    /\ folder \in SUBSET Modules /\ failed \in SUBSET Modules /\ off \in SUBSET Modules
    /\ leases \in [Modules -> Nat]
    /\ draining \in SUBSET Modules /\ drained \in SUBSET draining
    /\ turn \in [Turns -> [pc : {"idle", "found", "checked", "launched", "job", "direct", "over"},
                           mods : SUBSET Modules, seen : [Modules -> Nat],
                           left : SUBSET Modules, cur : Modules \cup {None}, lease : BOOLEAN]]
    /\ mgr \in [pc : {"idle", "draining", "working", "fetching", "loading", "loads", "starts",
                      "reading", "writing"},
                op : {"none", "reload", "update", "uninstall", "turn_off", "all", "install",
                      "reload_failed"},
                mod : Modules \cup {None}, todo : SUBSET Modules, copy : SUBSET Modules]
    /\ on \in [Modules -> [pc : {"none", "read", "reload"}, copy : SUBSET Modules]]
    /\ shut \in BOOLEAN /\ ops \in Nat

(* The counts are the leases that are out: what a drain waits for is there, *)
(* and comes to nothing.                                                   *)
LeasesCounted == \A m \in Modules : leases[m] = Cardinality(Leased(m))

(* Two things are cleaned up without a drain: a plugin whose initialize    *)
(* raises, and one that is on the failed list.                             *)
Undrained(m) ==
    \/ mgr.pc = "starts" /\ mgr.mod = m
    \/ mgr.pc = "idle" /\ m \in failed

(* A plugin is not destroyed under a job that leases it: while the lease   *)
(* is out, a plugin that works goes on working                             *)
(* (parallel-plugin-runtime-plan.md:522, 529).                             *)
LeasePins ==
    [][\A t \in Turns, m \in Modules :
          turn[t].lease /\ turn'[t].lease /\ m \in turn[t].mods /\ Live(m) /\ ~Undrained(m)
          => plugin'[m].bound /\ plugin'[m].active]_managementVars

(* A module is blocked for new jobs only while the manager works on it:    *)
(* an operation that times out or fails gives it free                      *)
(* (plugin_execution_runtime.py:294).                                      *)
OnlyManagersDrain ==
    draining \subseteq IF mgr.pc \in {"draining", "working"} \/ mgr.op = "update"
                       THEN {mgr.mod} ELSE {}

(* What the manager awaits of plugins and of the network, without a bound. *)
AwaitsOthers == mgr.pc \in {"working", "fetching", "loads", "starts"}

(* Nothing the handlers do, or fail to do, keeps the manager's lock: from  *)
(* every place it comes to give it back, or stays for good in an await of  *)
(* a plugin's terminate, initialize or hook, of a download or an import.   *)
MgrReturns == [](mgr.pc # "idle" => <>(mgr.pc = "idle" \/ []AwaitsOthers))

(* A drain does not oversleep the last lease: it ends without its timer    *)
(* when the handlers end.                                                  *)
DrainSucceeds == mgr.pc = "draining" ~> mgr.pc # "draining" \/ shut

(* parallel-plugin-runtime-plan.md:522, 529, without the exceptions of     *)
(* LeasePins.                                                              *)
LeaseAlwaysPins ==
    [][\A t \in Turns, m \in Modules :
          turn[t].lease /\ turn'[t].lease /\ m \in turn[t].mods /\ Live(m)
          => plugin'[m].bound /\ plugin'[m].active]_managementVars

(* stage.py:108, of _retain_current_handlers: "Reject discovery results    *)
(* that were unbound or replaced by reload".                               *)
RunsCurrentHandlers ==
    [][\A t \in Turns : LET m == turn'[t].cur IN
          turn[t].cur = None /\ m # None => Live(m) /\ plugin[m].ver = turn[t].seen[m]]_managementVars

(* parallel-plugin-runtime-plan.md:522: reload and unload do not destroy   *)
(* handlers that are still in execution.                                   *)
NothingRunsWhileDestroyed ==
    mgr.pc = "working" => \A t \in Turns : turn[t].cur # mgr.mod

(* parallel-plugin-runtime-plan.md:528-529: a drain that times out ends    *)
(* the whole operation; the plugins are there as before.                   *)
NoPluginLost == mgr.pc = "idle" => folder \subseteq Bound \cup failed

(* star_manager.py:1944: turn_off_plugin adds the plugin to the stored     *)
(* list, so that it stays off.                                             *)
TurnedOffIsRemembered ==
    mgr.pc = "idle" => \A m \in Bound :
        ~plugin[m].active /\ on[m].pc = "none" => m \in off

=============================================================================
