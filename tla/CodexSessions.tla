--------------------------- MODULE CodexSessions ---------------------------
(***************************************************************************)
(* The Codex sessions of one session key: the registry that owns them      *)
(* (executors/session_registry.py), the app-server process, the turns and  *)
(* the notifications of a session (executors/codex_session.py), and the    *)
(* runs that use one (executors/codex_cli.py, driven by                    *)
(* executors/runtime.py).                                                  *)
(*                                                                         *)
(* A run asks the registry for the session of its key.  It is given the    *)
(* one that is registered or makes one, which is named after the run that  *)
(* made it, and then asks the server for a turn and waits for the          *)
(* notification that ends it.  The registry's own lock is never held over  *)
(* an await, so what it guards is one step; the lock of the key is held    *)
(* while a session is closed or started.                                   *)
(***************************************************************************)
EXTENDS Naturals, Sequences, TLC

CONSTANTS
    Runs,     \* the executions that ask for the key
    NoRun,    \* no run
    Configs,  \* the executor configurations they may hold
    Overlap,  \* two runs of the key may be under way at once
    Named,    \* the server's notifications carry the id of their turn
    MayCrash, \* a process may end on its own
    Discards  \* discard is called once

ASSUME NoRunAssumption == NoRun \notin Runs
ASSUME JanitorAssumption == "janitor" \notin Runs \cup {NoRun}
ASSUME FlagsAssumption == {Overlap, Named, MayCrash, Discards} \subseteq BOOLEAN

VARIABLES
    closed,     \* _closed of the registry
    registered, \* the session in _sessions
    keyLock,    \* who holds the lock of the key, "janitor" being discard
    creating,   \* _creating_tasks
    dying,      \* the creators aclose saw
    taken,      \* the session aclose took out of _sessions
    closer,     \* where the registry's aclose is
    janitor,    \* where discard is
    doomed,     \* the session discard closes
    at,         \* where each run is
    mine,       \* the session it works on
    want,       \* its executor configuration
    server,     \* what the server does with its turn
    interrupt,  \* its request to interrupt the turn
    named,      \* the run whose turn that request names
    answer,     \* the run whose turn gave it its answer
    proc,       \* the process of each session
    open,       \* ~_closed of the session
    unusable,   \* _unusable
    threaded,   \* thread_id is set
    turnLock,   \* who holds _turn_lock
    active,     \* whose turn _active_turn_id is
    inbox       \* _notifications: ends of turns, or NoRun for a failed reader

registryVars == <<closed, registered, keyLock, creating, dying, taken, closer>>
discardVars == <<janitor, doomed>>
turnVars == <<server, interrupt, named, answer>>
processVars == <<proc, open, unusable>>
talkVars == <<threaded, turnLock, active, inbox>>
vars == <<registryVars, discardVars, at, mine, want, turnVars, processVars,
          talkVars>>

Making == {"retiring", "spawning", "greeting", "undoing", "dropping"}
Driven == {"threading", "queued", "asking", "turn"}
Places == {"idle", "waiting", "cleaning", "done"} \cup Making \cup Driven
MaybeRun == Runs \cup {NoRun}

TypeOK ==
    /\ closed \in BOOLEAN
    /\ registered \in MaybeRun
    /\ keyLock \in MaybeRun \cup {"janitor"}
    /\ creating \subseteq Runs /\ dying \subseteq Runs
    /\ taken \in MaybeRun
    /\ closer \in {"idle", "closing", "gathering", "waiting", "done", "failed"}
    /\ janitor \in {"idle", "waiting", "closing", "done"}
    /\ doomed \in MaybeRun
    /\ at \in [Runs -> Places]
    /\ mine \in [Runs -> MaybeRun]
    /\ want \in [Runs -> Configs]
    /\ server \in [Runs -> {"none", "asked", "running", "ended"}]
    /\ interrupt \in [Runs -> {"none", "sent", "confirmed", "unconfirmed"}]
    /\ named \in [Runs -> MaybeRun]
    /\ answer \in [Runs -> MaybeRun]
    /\ proc \in [Runs -> {"none", "up", "ending", "gone"}]
    /\ open \in [Runs -> BOOLEAN]
    /\ unusable \in [Runs -> BOOLEAN]
    /\ threaded \in [Runs -> BOOLEAN]
    /\ turnLock \in [Runs -> MaybeRun]
    /\ active \in [Runs -> MaybeRun]
    /\ inbox \in [Runs -> Seq(MaybeRun)]

Init ==
    /\ closed = FALSE
    /\ registered = NoRun
    /\ keyLock = NoRun
    /\ creating = {} /\ dying = {}
    /\ taken = NoRun /\ closer = "idle"
    /\ janitor = "idle" /\ doomed = NoRun
    /\ at = [r \in Runs |-> "idle"]
    /\ mine = [r \in Runs |-> NoRun]
    /\ want \in [Runs -> Configs]
    /\ server = [r \in Runs |-> "none"]
    /\ interrupt = [r \in Runs |-> "none"]
    /\ named = [r \in Runs |-> NoRun]
    /\ answer = [r \in Runs |-> NoRun]
    /\ proc = [s \in Runs |-> "none"]
    /\ open = [s \in Runs |-> TRUE]
    /\ unusable = [s \in Runs |-> FALSE]
    /\ threaded = [s \in Runs |-> FALSE]
    /\ turnLock = [s \in Runs |-> NoRun]
    /\ active = [s \in Runs |-> NoRun]
    /\ inbox = [s \in Runs |-> <<>>]

-----------------------------------------------------------------------------
(* CodexSessionManager.aclose: up to its first await it marks the session, *)
(* cancels the reader and tells the process to end; it then waits for the  *)
(* process.  Calling it again does the same.                               *)
BeginClose(s) ==
    /\ open' = [open EXCEPT ![s] = FALSE]
    /\ unusable' = [unusable EXCEPT ![s] = TRUE]
    /\ proc' = [proc EXCEPT ![s] = IF @ = "up" THEN "ending" ELSE @]

CloseEnds(s) == proc[s] \in {"none", "gone"}

(* The reader is cancelled by a close and ends when the process does.      *)
Heard(s) == proc[s] = "up" /\ open[s]

Go(r, place) == at' = [at EXCEPT ![r] = place]

(* A turn the server works on or will work on.                             *)
Live(r) == server[r] \in {"asked", "running"} /\ proc[mine[r]] = "up"

-----------------------------------------------------------------------------
(* get_or_create                                                           *)

Ask(r) ==
    /\ at[r] = "idle"
    /\ Overlap \/ \A q \in Runs : at[q] \in {"idle", "done"}
    /\ Go(r, IF closed THEN "done" ELSE "waiting")
    /\ UNCHANGED <<registryVars, discardVars, mine, want, turnVars,
                   processVars, talkVars>>

(* What the run finds once it has the lock of the key.                     *)
Refused == closed \/ (registered # NoRun /\ unusable[registered])

Matches(r) == registered # NoRun /\ want[registered] = want[r]

TurnAway(r) ==
    /\ Refused
    /\ Go(r, "done")
    /\ UNCHANGED <<mine, keyLock, creating, processVars>>

Reuse(r) ==
    /\ ~Refused /\ Matches(r)
    /\ mine' = [mine EXCEPT ![r] = registered]
    /\ Go(r, IF threaded[registered] THEN "queued" ELSE "threading")
    /\ UNCHANGED <<keyLock, creating, processVars>>

SlipRetire(r) ==
    /\ ~Refused /\ registered # NoRun /\ ~Matches(r)
    /\ mine' = [mine EXCEPT ![r] = r]
    /\ Go(r, "spawning")
    /\ keyLock' = r
    /\ creating' = creating \cup {r}
    /\ UNCHANGED processVars
Retire(r) ==
    /\ ~Refused /\ registered # NoRun /\ ~Matches(r)
    /\ mine' = [mine EXCEPT ![r] = registered]
    /\ Go(r, "retiring")
    /\ keyLock' = r
    /\ creating' = creating \cup {r}
    /\ BeginClose(registered)

Make(r) ==
    /\ ~Refused /\ registered = NoRun
    /\ mine' = [mine EXCEPT ![r] = r]
    /\ Go(r, "spawning")
    /\ keyLock' = r
    /\ creating' = creating \cup {r}
    /\ UNCHANGED processVars

Enter(r) ==
    /\ at[r] = "waiting"
    /\ keyLock = NoRun
    /\ TurnAway(r) \/ Reuse(r) \/ Retire(r) \/ Make(r)
    /\ UNCHANGED <<closed, registered, dying, taken, closer, discardVars, want,
                   turnVars, talkVars>>

(* A run is cancelled while it waits for the lock.                         *)
Withdraw(r) ==
    /\ at[r] = "waiting"
    /\ Go(r, "done")
    /\ UNCHANGED <<registryVars, discardVars, mine, want, turnVars,
                   processVars, talkVars>>

(* aclose cancels the creators it saw: such a run goes no further.         *)
Cancelled(r) == r \in dying /\ closer \in {"waiting", "done", "failed"}

(* The finally clause and the end of the key lock.                         *)
SlipLeave(r) ==
    /\ creating' = creating \ {r}
    /\ keyLock' = keyLock
Leave(r) ==
    /\ creating' = creating \ {r}
    /\ keyLock' = NoRun

Retired(r) ==
    /\ at[r] = "retiring" /\ ~Cancelled(r)
    /\ CloseEnds(mine[r])
    /\ registered' = IF registered = mine[r] THEN NoRun ELSE registered
    /\ mine' = [mine EXCEPT ![r] = r]
    /\ Go(r, "spawning")
    /\ UNCHANGED <<closed, keyLock, creating, dying, taken, closer, discardVars,
                   want, turnVars, processVars, talkVars>>

(* The process outlives its kill, or the run is cancelled: the stale       *)
(* session stays registered and unusable.                                  *)
RetireFails(r) ==
    /\ at[r] = "retiring"
    /\ unusable' = [unusable EXCEPT ![mine[r]] = TRUE]
    /\ Leave(r)
    /\ Go(r, "done")
    /\ UNCHANGED <<closed, registered, dying, taken, closer, discardVars, mine,
                   want, turnVars, proc, open, talkVars>>

(* CodexSessionManager.start: the process, then the handshake.             *)
Spawned(r) ==
    /\ at[r] = "spawning" /\ ~Cancelled(r)
    /\ proc' = [proc EXCEPT ![r] = "up"]
    /\ Go(r, "greeting")
    /\ UNCHANGED <<registryVars, discardVars, mine, want, turnVars, open,
                   unusable, talkVars>>

SpawnFails(r) ==
    /\ at[r] = "spawning"
    /\ BeginClose(r)
    /\ Leave(r)
    /\ Go(r, "done")
    /\ UNCHANGED <<closed, registered, dying, taken, closer, discardVars, mine,
                   want, turnVars, talkVars>>

(* The registry looks at _closed again before it registers the session.    *)
SlipLate == FALSE
Late == closed

Greeted(r) ==
    /\ at[r] = "greeting" /\ ~Cancelled(r)
    /\ Heard(r)
    /\ \/ /\ Late
          /\ BeginClose(r)
          /\ Go(r, "dropping")
          /\ UNCHANGED <<registered, keyLock, creating>>
       \/ /\ ~Late
          /\ registered' = r
          /\ Leave(r)
          /\ Go(r, "threading")
          /\ UNCHANGED processVars
    /\ UNCHANGED <<closed, dying, taken, closer, discardVars, mine, want,
                   turnVars, talkVars>>

(* The handshake fails or the run is cancelled in it.                      *)
GreetFails(r) ==
    /\ at[r] = "greeting"
    /\ BeginClose(r)
    /\ Go(r, "undoing")
    /\ UNCHANGED <<registryVars, discardVars, mine, want, turnVars, talkVars>>

(* The process has ended, outlives its kill, or the run is cancelled       *)
(* again: whatever the close raises is suppressed.                         *)
Undone(r) ==
    /\ at[r] = "undoing"
    /\ Leave(r)
    /\ Go(r, "done")
    /\ UNCHANGED <<closed, registered, dying, taken, closer, discardVars, mine,
                   want, turnVars, processVars, talkVars>>

Dropped(r) ==
    /\ at[r] = "dropping"
    /\ \/ /\ CloseEnds(r) /\ ~Cancelled(r)
          /\ Leave(r)
          /\ Go(r, "done")
          /\ UNCHANGED processVars
       \/ /\ BeginClose(r)
          /\ Go(r, "undoing")
          /\ UNCHANGED <<keyLock, creating>>
    /\ UNCHANGED <<closed, registered, dying, taken, closer, discardVars, mine,
                   want, turnVars, talkVars>>

-----------------------------------------------------------------------------
(* iter_turn, CodexExecutorRun.stream and drive_executor_run               *)

Threaded(r) ==
    /\ at[r] = "threading"
    /\ Heard(mine[r])
    /\ threaded' = [threaded EXCEPT ![mine[r]] = TRUE]
    /\ Go(r, "queued")
    /\ UNCHANGED <<registryVars, discardVars, mine, want, turnVars,
                   processVars, turnLock, active, inbox>>

(* The turn's lock is taken and turn/start is sent.                        *)
TakeTurn(r) ==
    /\ at[r] = "queued"
    /\ turnLock[mine[r]] = NoRun
    /\ turnLock' = [turnLock EXCEPT ![mine[r]] = r]
    /\ server' = [server EXCEPT ![r] = "asked"]
    /\ Go(r, "asking")
    /\ UNCHANGED <<registryVars, discardVars, mine, want, interrupt, named,
                   answer, processVars, threaded, active, inbox>>

Started(r) ==
    /\ at[r] = "asking"
    /\ Heard(mine[r])
    /\ server[r] # "asked"
    /\ active' = [active EXCEPT ![mine[r]] = r]
    /\ Go(r, "turn")
    /\ UNCHANGED <<registryVars, discardVars, mine, want, turnVars,
                   processVars, threaded, turnLock, inbox>>

(* A run that leaves its turn gives back what it holds of the session.     *)
LeaveTurn(r) ==
    LET s == mine[r] IN
    /\ turnLock' = [turnLock EXCEPT ![s] = IF @ = r THEN NoRun ELSE @]
    /\ active' = [active EXCEPT ![s] = IF turnLock[s] = r THEN NoRun ELSE @]

(* request_stop and the start of the cleanup.  The interrupt names the     *)
(* turn that is active when it is sent.                                    *)
Halt(r, whose) ==
    /\ LeaveTurn(r)
    /\ interrupt' = [interrupt EXCEPT ![r] = "sent"]
    /\ named' = [named EXCEPT ![r] = whose]
    /\ Go(r, "cleaning")

(* A request gets an error, no answer in time, or is failed by a close.    *)
RequestFails(r) ==
    /\ at[r] \in {"threading", "asking"}
    /\ Halt(r, IF turnLock[mine[r]] = r THEN NoRun ELSE active[mine[r]])
    /\ UNCHANGED <<registryVars, discardVars, mine, want, server, answer,
                   processVars, threaded, inbox>>

(* The deadline or a cancellation ends an await: iter_turn has forgotten   *)
(* its turn before request_stop runs.                                      *)
Interrupted(r) ==
    /\ at[r] \in Driven
    /\ Halt(r, IF turnLock[mine[r]] = r THEN NoRun ELSE active[mine[r]])
    /\ UNCHANGED <<registryVars, discardVars, mine, want, server, answer,
                   processVars, threaded, inbox>>

(* Core has ended when an update comes: the generator is left where it     *)
(* yielded, and the turn is still the active one.                          *)
Overtaken(r) ==
    /\ at[r] = "turn"
    /\ Heard(mine[r])
    /\ Halt(r, active[mine[r]])
    /\ UNCHANGED <<registryVars, discardVars, mine, want, server, answer,
                   processVars, threaded, inbox>>

(* A notification that names another turn is skipped.                      *)
Skipped(r, item) == Named /\ item \notin {r, NoRun}

Read(r) ==
    LET s == mine[r]
        item == Head(inbox[s]) IN
    /\ at[r] = "turn"
    /\ inbox[s] # <<>>
    /\ inbox' = [inbox EXCEPT ![s] = Tail(@)]
    /\ \/ /\ Skipped(r, item)
          /\ UNCHANGED <<at, interrupt, named, answer, turnLock, active>>
       \/ /\ ~Skipped(r, item)
          /\ item # NoRun
          /\ answer' = [answer EXCEPT ![r] = item]
          /\ LeaveTurn(r)
          /\ Go(r, "done")
          /\ UNCHANGED <<interrupt, named>>
       \/ /\ ~Skipped(r, item)
          /\ Halt(r, NoRun)
          /\ UNCHANGED answer
    /\ UNCHANGED <<registryVars, discardVars, mine, want, server, processVars,
                   threaded>>

(* The server has taken the requests before the interrupt, confirms it and *)
(* ends the turn it names; a session without a process needs none.         *)
Confirmed(r) ==
    LET s == mine[r]
        hit == named[r] # NoRun /\ server[named[r]] = "running" IN
    /\ at[r] = "cleaning"
    /\ (Heard(s) /\ server[r] # "asked") \/ (~open[s] /\ CloseEnds(s))
    /\ interrupt' = [interrupt EXCEPT ![r] = "confirmed"]
    /\ Go(r, "done")
    /\ IF hit /\ Heard(s)
       THEN /\ server' = [server EXCEPT ![named[r]] = "ended"]
            /\ inbox' = [inbox EXCEPT ![s] = Append(@, named[r])]
       ELSE UNCHANGED <<server, inbox>>
    /\ UNCHANGED <<registryVars, discardVars, mine, want, named, answer,
                   processVars, threaded, turnLock, active>>

(* The interrupt fails, is late, or the cleanup is cancelled.              *)
Invalid(r) == [unusable EXCEPT ![mine[r]] = TRUE]

Unconfirmed(r) ==
    /\ at[r] = "cleaning"
    /\ interrupt' = [interrupt EXCEPT ![r] = "unconfirmed"]
    /\ unusable' = Invalid(r)
    /\ Go(r, "done")
    /\ UNCHANGED <<registryVars, discardVars, mine, want, server, named, answer,
                   proc, open, talkVars>>

-----------------------------------------------------------------------------
(* The app-server                                                          *)

ServerStarts(r) ==
    /\ server[r] = "asked"
    /\ proc[mine[r]] = "up"
    /\ server' = [server EXCEPT ![r] = "running"]
    /\ UNCHANGED <<registryVars, discardVars, at, mine, want, interrupt, named,
                   answer, processVars, talkVars>>

ServerEnds(r) ==
    /\ server[r] = "running"
    /\ Heard(mine[r])
    /\ server' = [server EXCEPT ![r] = "ended"]
    /\ inbox' = [inbox EXCEPT ![mine[r]] = Append(@, r)]
    /\ UNCHANGED <<registryVars, discardVars, at, mine, want, interrupt, named,
                   answer, processVars, threaded, turnLock, active>>

ProcessExits(s) ==
    /\ proc[s] = "ending"
    /\ proc' = [proc EXCEPT ![s] = "gone"]
    /\ UNCHANGED <<registryVars, discardVars, at, mine, want, turnVars, open,
                   unusable, talkVars>>

(* The reader leaves its failure with the notifications.                   *)
Crash(s) ==
    /\ MayCrash
    /\ Heard(s)
    /\ proc' = [proc EXCEPT ![s] = "gone"]
    /\ inbox' = [inbox EXCEPT ![s] = Append(@, NoRun)]
    /\ UNCHANGED <<registryVars, discardVars, at, mine, want, turnVars, open,
                   unusable, threaded, turnLock, active>>

-----------------------------------------------------------------------------
(* discard                                                                 *)

Discard ==
    /\ Discards /\ janitor = "idle"
    /\ janitor' = "waiting"
    /\ UNCHANGED <<registryVars, doomed, at, mine, want, turnVars, processVars,
                   talkVars>>

DiscardEnters ==
    /\ janitor = "waiting"
    /\ keyLock = NoRun
    /\ IF registered = NoRun
       THEN /\ janitor' = "done"
            /\ UNCHANGED <<doomed, keyLock, processVars>>
       ELSE /\ janitor' = "closing"
            /\ doomed' = registered
            /\ keyLock' = "janitor"
            /\ BeginClose(registered)
    /\ UNCHANGED <<closed, registered, creating, dying, taken, closer, at, mine,
                   want, turnVars, talkVars>>

(* The registration goes only if the session could be closed.              *)
Discarded ==
    /\ janitor = "closing"
    /\ janitor' = "done"
    /\ keyLock' = NoRun
    /\ \/ /\ CloseEnds(doomed)
          /\ registered' = IF registered = doomed THEN NoRun ELSE registered
       \/ /\ ~CloseEnds(doomed)
          /\ UNCHANGED registered
    /\ UNCHANGED <<closed, creating, dying, taken, closer, doomed, at, mine,
                   want, turnVars, processVars, talkVars>>

-----------------------------------------------------------------------------
(* aclose of the registry                                                  *)

Seen == creating

Close ==
    /\ closer = "idle"
    /\ closed' = TRUE
    /\ closer' = IF registered = NoRun THEN "waiting" ELSE "closing"
    /\ dying' = Seen
    /\ taken' = registered
    /\ registered' = NoRun
    /\ UNCHANGED <<keyLock, creating, discardVars, at, mine, want, turnVars,
                   processVars, talkVars>>

(* The close of a session is a task of gather, which starts when the loop  *)
(* comes to it.                                                            *)
CloseTells ==
    /\ closer = "closing"
    /\ closer' = "gathering"
    /\ BeginClose(taken)
    /\ UNCHANGED <<closed, registered, keyLock, creating, dying, taken,
                   discardVars, at, mine, want, turnVars, talkVars>>

(* The sessions are closed, or could not be: gather returns the exceptions.*)
CloseGathers ==
    /\ closer = "gathering"
    /\ closer' = "waiting"
    /\ UNCHANGED <<closed, registered, keyLock, creating, dying, taken,
                   discardVars, at, mine, want, turnVars, processVars,
                   talkVars>>

(* Within the second that aclose waits, or after it.                       *)
CloseReturns ==
    /\ closer = "waiting"
    /\ closer' = IF dying \cap creating = {} THEN "done" ELSE "failed"
    /\ UNCHANGED <<closed, registered, keyLock, creating, dying, taken,
                   discardVars, at, mine, want, turnVars, processVars,
                   talkVars>>

-----------------------------------------------------------------------------
Creation(r) ==
    \/ Enter(r) \/ Retired(r) \/ RetireFails(r) \/ Spawned(r) \/ SpawnFails(r)
    \/ Greeted(r) \/ GreetFails(r) \/ Undone(r) \/ Dropped(r)

Turn(r) ==
    \/ Threaded(r) \/ TakeTurn(r) \/ Started(r) \/ RequestFails(r) \/ Read(r)
    \/ Confirmed(r) \/ Unconfirmed(r)

RunStep(r) ==
    Ask(r) \/ Withdraw(r) \/ Creation(r) \/ Turn(r) \/ Interrupted(r)
      \/ Overtaken(r)

ServerStep(r) ==
    ServerStarts(r) \/ ServerEnds(r) \/ ProcessExits(r) \/ Crash(r)

RegistryStep ==
    Discard \/ DiscardEnters \/ Discarded \/ Close \/ CloseTells
      \/ CloseGathers \/ CloseReturns

Next == (\E r \in Runs : RunStep(r) \/ ServerStep(r)) \/ RegistryStep

Spec == Init /\ [][Next]_vars

(* Every await of the registry and of a request is bounded or ends with    *)
(* the process; a turn the server works on it ends.                        *)
Fairness ==
    /\ \A r \in Runs : WF_vars(Creation(r)) /\ WF_vars(Turn(r))
    /\ \A r \in Runs : WF_vars(ServerStarts(r)) /\ WF_vars(ServerEnds(r))
    /\ WF_vars(DiscardEnters) /\ WF_vars(Discarded)

(* Runs have a deadline.                                                   *)
Deadlines == \A r \in Runs : WF_vars(Interrupted(r))

PatientSpec == Spec /\ Fairness
LiveSpec == Spec /\ Fairness /\ Deadlines

-----------------------------------------------------------------------------
(* The key has one process at a time: a session is replaced only after its *)
(* process has ended, whatever fails or is cancelled on the way.           *)
OneProcess == \A s, t \in Runs : proc[s] = "up" /\ proc[t] = "up" => s = t

(* When the registry's aclose has returned, no process is left that was    *)
(* never told to end, and nobody is on the way to start one, even if a     *)
(* creation was under way.                                                 *)
NoneLeft ==
    closer = "done" =>
      /\ \A s \in Runs : proc[s] # "up"
      /\ \A r \in Runs : at[r] \notin Making

(* A session whose process is alive is registered, is being greeted by the *)
(* run that makes it, or is about to be closed by the registry's aclose:   *)
(* none gets out of the registry's hands.                                  *)
UpIsOwned ==
    \A s \in Runs :
      proc[s] = "up" =>
        \/ registered = s
        \/ keyLock = s /\ at[s] = "greeting"
        \/ closer = "closing" /\ taken = s

(* A session is used for another turn only when the server has ended the   *)
(* turns before or has confirmed their interruption.                       *)
ReusedIsConfirmed ==
    \A r, q \in Runs :
      /\ r # q
      /\ at[r] = "asking"
      /\ mine[q] = mine[r]
      /\ Live(q)
      => interrupt[q] = "confirmed"

(* A run is answered by its own turn, not by what an earlier turn of the   *)
(* session left among the notifications.                                   *)
AnswerIsOwn == \A r \in Runs : answer[r] \in {r, NoRun}

(* A run is handed a session only with a live process behind it.           *)
HandedIsAlive ==
    [][\A r \in Runs :
         at[r] = "waiting" /\ at'[r] \in Driven => proc'[mine'[r]] = "up"]_vars

(* A run that is stopped while the server works on its turn sends an       *)
(* interrupt that names the turn.                                          *)
StopNamesItsTurn ==
    [][\A r \in Runs :
         at[r] = "turn" /\ at'[r] = "cleaning" /\ Live(r) => named'[r] = r]_vars

(* Every run that asked gets to its end, and the key's lock with it.       *)
RunsEnd == \A r \in Runs : at[r] = "waiting" ~> at[r] = "done"

(* A run whose session is replaced or discarded under its turn is told,    *)
(* and does not wait for its deadline.                                     *)
ClosedIsTold ==
    \A r \in Runs :
      at[r] = "turn" /\ ~open[mine[r]] /\ ~closed ~> at[r] # "turn"

Alike == Permutations(Runs)
=============================================================================
