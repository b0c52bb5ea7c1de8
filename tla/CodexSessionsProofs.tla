------------------------ MODULE CodexSessionsProofs ------------------------
(***************************************************************************)
(* Proofs about the Codex sessions of a key, for every set of runs and of  *)
(* configurations: the key has one process at a time, none is left when    *)
(* the registry has closed, and, where runs follow each other, a session   *)
(* is used again only after its turns are known to be over.                *)
(***************************************************************************)
EXTENDS CodexSessions, SequenceTheorems, TLAPS

-----------------------------------------------------------------------------
(* What holds of the key's lock: its holder is the run that makes or       *)
(* retires a session, or discard, and the creators are that run.           *)
LockHeld ==
    /\ \A r \in Runs : at[r] \in Making <=> keyLock = r
    /\ creating = {r \in Runs : at[r] \in Making}
    /\ janitor = "closing" <=> keyLock = "janitor"

(* A closed registry has no session, aclose knows every creator and has    *)
(* the session it is about to close.                                       *)
ClosedIsEmpty ==
    /\ closed <=> closer # "idle"
    /\ closer = "closing" => taken # NoRun
    /\ closed => registered = NoRun /\ creating \subseteq dying
    /\ closer = "done" => creating = {}

(* While a session is made nothing is registered; while one is retired     *)
(* nothing else is.  Neither begins while another process lives.           *)
MakersAlone ==
    /\ \A r \in Runs :
         at[r] \in {"spawning", "greeting"} => mine[r] = r /\ registered = NoRun
    /\ \A r \in Runs : at[r] = "retiring" => registered \in {mine[r], NoRun}
    /\ \A r, s \in Runs :
         at[r] \in {"retiring", "spawning", "greeting"} /\ proc[s] = "up"
           => r = s /\ at[r] = "greeting"

(* Whoever works, works on a session.                                      *)
WorksOnOne ==
    \A r \in Runs :
      at[r] \in Making \cup Driven \cup {"cleaning"} \/ server[r] # "none"
        => mine[r] \in Runs

Owned == LockHeld /\ ClosedIsEmpty /\ MakersAlone /\ UpIsOwned

(* The inductive invariant.                                                *)
IInv == TypeOK /\ WorksOnOne /\ Owned

LEMMA InitEstablishes == Init => IInv
<1> SUFFICES ASSUME Init PROVE IInv
  OBVIOUS
<1>1. TypeOK
  <2>1. [s \in Runs |-> <<>>] \in [Runs -> Seq(MaybeRun)]
    OBVIOUS
  <2> QED
    BY <2>1 DEF Init, TypeOK, MaybeRun, Places
<1>6. WorksOnOne
  BY DEF Init, WorksOnOne, Making, Driven
<1>2. LockHeld
  BY NoRunAssumption, JanitorAssumption DEF Init, LockHeld, Making
<1>3. ClosedIsEmpty
  BY DEF Init, ClosedIsEmpty
<1>4. MakersAlone
  BY DEF Init, MakersAlone
<1>5. UpIsOwned
  BY DEF Init, UpIsOwned
<1> QED
  BY <1>1, <1>2, <1>3, <1>4, <1>5, <1>6 DEF IInv, Owned

-----------------------------------------------------------------------------
(* Types                                                                   *)

(* What the close of a session does to the types.                          *)
LEMMA ClosesAreTyped ==
    ASSUME TypeOK, NEW s \in Runs, BeginClose(s)
    PROVE  /\ open' \in [Runs -> BOOLEAN]
           /\ unusable' \in [Runs -> BOOLEAN]
           /\ proc' \in [Runs -> {"none", "up", "ending", "gone"}]
           /\ proc'[s] # "up"
           /\ \A t \in Runs : proc'[t] = "up" => proc[t] = "up"
           /\ \A t \in Runs : unusable[t] => unusable'[t]
           /\ unusable'[s]
BY DEF BeginClose, TypeOK

LEMMA CreationKeepsTypes ==
    ASSUME TypeOK, NEW r \in Runs, Ask(r) \/ Withdraw(r) \/ Creation(r)
    PROVE  TypeOK'
<1> USE DEF registryVars, discardVars, turnVars, processVars, talkVars, Go,
            MaybeRun, Places, Making, Driven, TypeOK
<1>1. CASE Ask(r)
  BY <1>1 DEF Ask
<1>2. CASE Withdraw(r)
  BY <1>2 DEF Withdraw
<1>3. CASE Enter(r)
  <2>1. CASE TurnAway(r)
    BY <1>3, <2>1 DEF Enter, TurnAway
  <2>2. CASE Reuse(r)
    BY <1>3, <2>2 DEF Enter, Reuse, Matches
  <2>3. CASE Retire(r)
    <3>1. registered \in Runs
      BY <2>3 DEF Retire
    <3> QED
      BY <1>3, <2>3, <3>1, ClosesAreTyped DEF Enter, Retire
  <2>4. CASE Make(r)
    BY <1>3, <2>4 DEF Enter, Make
  <2> QED
    BY <1>3, <2>1, <2>2, <2>3, <2>4 DEF Enter
<1>4. CASE Retired(r)
  BY <1>4 DEF Retired
<1>5. CASE RetireFails(r)
  BY <1>5 DEF RetireFails, Leave
<1>6. CASE Spawned(r)
  BY <1>6 DEF Spawned
<1>7. CASE SpawnFails(r)
  BY <1>7, ClosesAreTyped DEF SpawnFails, Leave
<1>8. CASE Greeted(r)
  <2>1. CASE BeginClose(r) /\ Go(r, "dropping") /\ UNCHANGED <<registered, keyLock, creating>>
    BY <1>8, <2>1, ClosesAreTyped DEF Greeted
  <2>2. CASE registered' = r /\ Leave(r) /\ Go(r, "threading") /\ UNCHANGED processVars
    BY <1>8, <2>2 DEF Greeted, Leave
  <2> QED
    BY <1>8, <2>1, <2>2 DEF Greeted
<1>9. CASE GreetFails(r)
  BY <1>9, ClosesAreTyped DEF GreetFails
<1>10. CASE Undone(r)
  BY <1>10 DEF Undone, Leave
<1>11. CASE Dropped(r)
  <2>1. CASE Leave(r) /\ Go(r, "done") /\ UNCHANGED processVars
    BY <1>11, <2>1 DEF Dropped, Leave
  <2>2. CASE BeginClose(r) /\ Go(r, "undoing") /\ UNCHANGED <<keyLock, creating>>
    BY <1>11, <2>2, ClosesAreTyped DEF Dropped
  <2> QED
    BY <1>11, <2>1, <2>2 DEF Dropped
<1> QED
  BY <1>1, <1>2, <1>3, <1>4, <1>5, <1>6, <1>7, <1>8, <1>9, <1>10, <1>11
     DEF Creation

LEMMA TurnsKeepTypes ==
    ASSUME TypeOK, NEW r \in Runs,
           \/ Turn(r) \/ Interrupted(r) \/ Overtaken(r)
           \/ ServerStarts(r) \/ ServerEnds(r),
           mine[r] \in Runs
    PROVE  TypeOK'
<1> USE DEF registryVars, discardVars, turnVars, processVars, talkVars, Go,
            MaybeRun, Places, Making, Driven, TypeOK
<1>1. \A whose \in MaybeRun :
        Halt(r, whose) =>
          /\ at' \in [Runs -> Places]
          /\ interrupt' \in [Runs -> {"none", "sent", "confirmed", "unconfirmed"}]
          /\ named' \in [Runs -> MaybeRun]
          /\ turnLock' \in [Runs -> MaybeRun]
          /\ active' \in [Runs -> MaybeRun]
  BY DEF Halt, LeaveTurn
<1>2. /\ NoRun \in MaybeRun
      /\ active[mine[r]] \in MaybeRun
  OBVIOUS
<1>3. CASE Threaded(r)
  BY <1>3 DEF Threaded
<1>4. CASE TakeTurn(r)
  BY <1>4 DEF TakeTurn
<1>5. CASE Started(r)
  BY <1>5 DEF Started
<1>6. CASE RequestFails(r)
  BY <1>1, <1>2, <1>6 DEF RequestFails
<1>7. CASE Interrupted(r)
  BY <1>1, <1>2, <1>7 DEF Interrupted
<1>8. CASE Overtaken(r)
  BY <1>1, <1>2, <1>8 DEF Overtaken
<1>9. CASE Read(r)
  <2>1. inbox[mine[r]] \in Seq(MaybeRun) /\ inbox[mine[r]] # <<>>
    BY <1>9 DEF Read
  <2>2. Tail(inbox[mine[r]]) \in Seq(MaybeRun) /\ Head(inbox[mine[r]]) \in MaybeRun
    BY <2>1, HeadTailProperties
  <2>3. inbox' \in [Runs -> Seq(MaybeRun)]
    BY <1>9, <2>2 DEF Read
  <2>4. CASE Skipped(r, Head(inbox[mine[r]]))
    BY <1>9, <2>3, <2>4 DEF Read
  <2>5. CASE ~Skipped(r, Head(inbox[mine[r]])) /\ LeaveTurn(r)
    <3>4. /\ Go(r, "done") \/ Go(r, "cleaning")
          /\ answer' = answer \/ answer' = [answer EXCEPT ![r] = Head(inbox[mine[r]])]
      BY <1>9, <2>5 DEF Read, Halt
    <3>5. at' \in [Runs -> Places]
      BY <3>4
    <3>1. answer' \in [Runs -> MaybeRun]
      <4>1. CASE answer' = answer
        BY <4>1
      <4>2. CASE answer' = [answer EXCEPT ![r] = Head(inbox[mine[r]])]
        BY <2>2, <4>2
      <4> QED
        BY <3>4, <4>1, <4>2
    <3>2. /\ interrupt' \in [Runs -> {"none", "sent", "confirmed", "unconfirmed"}]
          /\ named' \in [Runs -> MaybeRun]
      BY <1>1, <1>9, <2>5 DEF Read
    <3>3. turnLock' \in [Runs -> MaybeRun] /\ active' \in [Runs -> MaybeRun]
      BY <2>5 DEF LeaveTurn
    <3> QED
      BY <1>9, <2>3, <3>1, <3>2, <3>3, <3>5 DEF Read
  <2> QED
    BY <1>9, <2>4, <2>5 DEF Read, Halt
<1>10. CASE Confirmed(r)
  <2>1. /\ inbox[mine[r]] \in Seq(MaybeRun)
        /\ named[r] \in MaybeRun
    OBVIOUS
  <2>2. Append(inbox[mine[r]], named[r]) \in Seq(MaybeRun)
    BY <2>1, AppendProperties
  <2>3. inbox' = [inbox EXCEPT ![mine[r]] = Append(@, named[r])] \/ inbox' = inbox
    BY <1>10, SMTT(20), ZenonT(30) DEF Confirmed
  <2>4. inbox' \in [Runs -> Seq(MaybeRun)]
    <3>1. CASE inbox' = inbox
      BY <3>1
    <3>2. CASE inbox' = [inbox EXCEPT ![mine[r]] = Append(@, named[r])]
      BY <2>2, <3>2
    <3> QED
      BY <2>3, <3>1, <3>2
  <2>7. /\ interrupt' = [interrupt EXCEPT ![r] = "confirmed"] /\ Go(r, "done")
        /\ UNCHANGED <<registryVars, discardVars, mine, want, named, answer,
                       processVars, threaded, turnLock, active>>
    BY <1>10 DEF Confirmed
  <2>6. server' = server \/ server' = [server EXCEPT ![named[r]] = "ended"]
    BY <1>10 DEF Confirmed
  <2>5. server' \in [Runs -> {"none", "asked", "running", "ended"}]
    BY <2>6
  <2> QED
    BY <2>4, <2>5, <2>7, SMTT(20), ZenonT(30)
<1>11. CASE Unconfirmed(r)
  BY <1>11 DEF Unconfirmed, Invalid
<1>12. CASE ServerStarts(r)
  BY <1>12 DEF ServerStarts
<1>13. CASE ServerEnds(r)
  <2>1. inbox' \in [Runs -> Seq(MaybeRun)]
    BY <1>13, AppendProperties DEF ServerEnds
  <2> QED
    BY <1>13, <2>1 DEF ServerEnds
<1> QED
  BY <1>3, <1>4, <1>5, <1>6, <1>7, <1>8, <1>9, <1>10, <1>11, <1>12, <1>13
     DEF Turn

LEMMA ProcessesKeepTypes ==
    ASSUME TypeOK, NEW s \in Runs, ProcessExits(s) \/ Crash(s)
    PROVE  TypeOK'
<1> USE DEF registryVars, discardVars, turnVars, processVars, talkVars, TypeOK
<1>1. CASE ProcessExits(s)
  BY <1>1 DEF ProcessExits
<1>2. CASE Crash(s)
  <2>1. inbox' \in [Runs -> Seq(MaybeRun)]
    BY <1>2, AppendProperties DEF Crash, MaybeRun
  <2> QED
    BY <1>2, <2>1 DEF Crash
<1> QED
  BY <1>1, <1>2

LEMMA RegistryKeepsTypes ==
    ASSUME TypeOK, RegistryStep
    PROVE  TypeOK'
<1> USE DEF registryVars, discardVars, turnVars, processVars, talkVars,
            MaybeRun, Places, Making, Driven, TypeOK
<1>1. CASE Discard
  BY <1>1 DEF Discard
<1>2. CASE DiscardEnters
  BY <1>2, ClosesAreTyped DEF DiscardEnters
<1>3. CASE Discarded
  BY <1>3 DEF Discarded
<1>4. CASE Close
  BY <1>4 DEF Close, Seen
<1>7. CASE CloseTells
  BY <1>7 DEF CloseTells, BeginClose
<1>5. CASE CloseGathers
  BY <1>5 DEF CloseGathers
<1>6. CASE CloseReturns
  BY <1>6 DEF CloseReturns
<1> QED
  BY <1>1, <1>2, <1>3, <1>4, <1>5, <1>6, <1>7 DEF RegistryStep

-----------------------------------------------------------------------------
(* Who owns the sessions                                                   *)

(* A step that leaves the registry alone, takes no run to or from the      *)
(* making of a session and starts no process keeps the ownership.          *)
LEMMA OwnershipKept ==
    ASSUME Owned, TypeOK, TypeOK',
           UNCHANGED <<registryVars, discardVars, mine>>,
           \A r \in Runs : at[r] \in Making \/ at'[r] \in Making => at'[r] = at[r],
           \A s \in Runs : proc'[s] = "up" => proc[s] = "up"
    PROVE  Owned'
<1> USE DEF registryVars, discardVars
<1>1. LockHeld'
  BY DEF Owned, LockHeld
<1>2. ClosedIsEmpty'
  BY DEF Owned, ClosedIsEmpty
<1>3. MakersAlone'
  BY DEF Owned, MakersAlone, Making
<1>4. UpIsOwned'
  BY DEF Owned, UpIsOwned, Making
<1> QED
  BY <1>1, <1>2, <1>3, <1>4 DEF Owned

LEMMA CreationKeepsOwnership ==
    ASSUME TypeOK, Owned, TypeOK', NEW r \in Runs,
           Ask(r) \/ Withdraw(r) \/ Creation(r)
    PROVE  Owned'
<1> USE DEF registryVars, discardVars, turnVars, processVars, talkVars, Go
<1>a. at \in [Runs -> Places] /\ mine \in [Runs -> MaybeRun]
  BY DEF TypeOK
<1>b. NoRun \notin Runs /\ "janitor" \notin Runs /\ "janitor" # NoRun
  BY NoRunAssumption, JanitorAssumption
<1>1. CASE Ask(r)
  BY <1>1, <1>a, OwnershipKept DEF Ask, Making
<1>2. CASE Withdraw(r)
  BY <1>2, <1>a, OwnershipKept DEF Withdraw, Making
<1>3. CASE Enter(r)
  <2>1. CASE TurnAway(r)
    BY <1>3, <1>a, <2>1, OwnershipKept DEF Enter, TurnAway, Making
  <2>2. CASE Reuse(r)
    <3>1. \A q \in Runs : at[q] \notin Making
      BY <1>3, <1>b DEF Owned, LockHeld, Enter
    <3>2. \A q \in Runs : at'[q] \notin Making
      BY <1>3, <1>a, <2>2, <3>1 DEF Reuse, Making
    <3>3. UNCHANGED <<keyLock, creating, registered, closed, dying, taken, closer, janitor, proc>>
      BY <1>3, <2>2 DEF Enter, Reuse
    <3> QED
      BY <3>1, <3>2, <3>3
         DEF Owned, LockHeld, ClosedIsEmpty, MakersAlone, UpIsOwned, Making
  <2>3. CASE Retire(r)
    <3>1. \A q \in Runs : at[q] \notin Making
      BY <1>3, <1>b DEF Owned, LockHeld, Enter
    <3>2. /\ registered \in Runs /\ ~closed
          /\ mine'[r] = registered /\ at' = [at EXCEPT ![r] = "retiring"]
          /\ keyLock' = r /\ creating' = creating \cup {r}
          /\ UNCHANGED <<closed, registered, dying, taken, closer, janitor>>
      BY <1>3, <1>a, <2>3 DEF Enter, Retire, Refused, TypeOK, MaybeRun
    <3>3. proc'[registered] # "up" /\ \A t \in Runs : proc'[t] = "up" => proc[t] = "up"
      BY <2>3, <3>2, ClosesAreTyped DEF Retire
    <3>4. LockHeld'
      BY <1>a, <1>b, <1>3, <3>1, <3>2 DEF Owned, LockHeld, Making, Enter
    <3>5. ClosedIsEmpty'
      BY <3>2 DEF Owned, ClosedIsEmpty
    <3>8. closer = "idle" /\ \A t \in Runs : proc'[t] # "up"
      BY <3>1, <3>2, <3>3 DEF Owned, ClosedIsEmpty, UpIsOwned, Making
    <3>6. MakersAlone'
      BY <1>a, <3>1, <3>2, <3>8 DEF MakersAlone, Making
    <3>7. UpIsOwned'
      BY <3>8 DEF UpIsOwned
    <3> QED
      BY <3>4, <3>5, <3>6, <3>7 DEF Owned
  <2>4. CASE Make(r)
    <3>1. \A q \in Runs : at[q] \notin Making
      BY <1>3, <1>b DEF Owned, LockHeld, Enter
    <3>2. /\ registered = NoRun /\ ~closed
          /\ mine'[r] = r /\ at' = [at EXCEPT ![r] = "spawning"]
          /\ keyLock' = r /\ creating' = creating \cup {r}
          /\ UNCHANGED <<closed, registered, dying, taken, closer, janitor, proc>>
      BY <1>3, <1>a, <2>4 DEF Enter, Make, Refused
    <3>4. LockHeld'
      BY <1>a, <1>b, <1>3, <3>1, <3>2 DEF Owned, LockHeld, Making, Enter
    <3>5. ClosedIsEmpty'
      BY <3>2 DEF Owned, ClosedIsEmpty
    <3>8. closer = "idle" /\ \A t \in Runs : proc[t] # "up"
      BY <1>b, <3>1, <3>2 DEF Owned, ClosedIsEmpty, UpIsOwned, Making
    <3>6. MakersAlone'
      BY <1>a, <3>1, <3>2, <3>8 DEF MakersAlone, Making
    <3>7. UpIsOwned'
      BY <3>2, <3>8 DEF UpIsOwned
    <3> QED
      BY <3>4, <3>5, <3>6, <3>7 DEF Owned
  <2> QED
    BY <1>3, <2>1, <2>2, <2>3, <2>4 DEF Enter
<1>4. CASE Retired(r)
  <2>6. /\ at[r] = "retiring" /\ at[r] \in Making
        /\ at' = [at EXCEPT ![r] = "spawning"] /\ mine' = [mine EXCEPT ![r] = r]
        /\ CloseEnds(mine[r])
        /\ registered' = IF registered = mine[r] THEN NoRun ELSE registered
        /\ UNCHANGED <<closed, keyLock, creating, dying, taken, closer, janitor, proc>>
    BY <1>4 DEF Retired, Making
  <2>7. registered \in {mine[r], NoRun} /\ keyLock = r
    BY <2>6 DEF Owned, LockHeld, MakersAlone
  <2>8. \A q \in Runs \ {r} : at[q] \notin Making /\ mine'[q] = mine[q]
    BY <1>a, <2>6, <2>7 DEF Owned, LockHeld
  <2>9. \A s \in Runs : proc[s] # "up"
    BY <2>6 DEF Owned, MakersAlone
  <2>1. /\ at[r] = "retiring" /\ keyLock = r
        /\ at' = [at EXCEPT ![r] = "spawning"] /\ mine'[r] = r
        /\ \A q \in Runs \ {r} : at[q] \notin Making /\ mine'[q] = mine[q]
        /\ registered' = NoRun
        /\ \A s \in Runs : proc[s] # "up"
        /\ UNCHANGED <<closed, keyLock, creating, dying, taken, closer, janitor, proc>>
    BY <1>a, <2>6, <2>7, <2>8, <2>9
  <2>2. LockHeld'
    BY <1>a, <2>1 DEF Owned, LockHeld, Making
  <2>3. ClosedIsEmpty'
    BY <2>1 DEF Owned, ClosedIsEmpty
  <2>4. MakersAlone'
    BY <1>a, <2>1 DEF MakersAlone, Making
  <2>5. UpIsOwned'
    BY <2>1 DEF UpIsOwned
  <2> QED
    BY <2>2, <2>3, <2>4, <2>5 DEF Owned
<1>5. ASSUME at[r] \in Making, Leave(r), Go(r, "done"),
             UNCHANGED <<closed, registered, dying, taken, closer, janitor, mine>>,
             \A s \in Runs : proc'[s] = "up" => proc[s] = "up",
             proc'[r] # "up" \/ at[r] # "greeting"
      PROVE  Owned'
  <2>1. /\ keyLock = r /\ \A q \in Runs \ {r} : at[q] \notin Making
        /\ at' = [at EXCEPT ![r] = "done"]
        /\ creating' = creating \ {r} /\ keyLock' = NoRun
    BY <1>5 DEF Owned, LockHeld, Leave
  <2>2. LockHeld'
    BY <1>5, <1>a, <1>b, <2>1 DEF Owned, LockHeld, Making
  <2>3. ClosedIsEmpty'
    BY <1>5, <2>1 DEF Owned, ClosedIsEmpty
  <2>4. MakersAlone'
    BY <1>5, <1>a, <2>1 DEF MakersAlone, Making
  <2>5. UpIsOwned'
    BY <1>5, <1>a, <2>1 DEF Owned, UpIsOwned, Making
  <2> QED
    BY <2>2, <2>3, <2>4, <2>5 DEF Owned
<1>6. CASE RetireFails(r)
  BY <1>5, <1>6 DEF RetireFails, Making
<1>7. CASE SpawnFails(r)
  BY <1>5, <1>7, ClosesAreTyped DEF SpawnFails, Making
<1>8. CASE Undone(r)
  BY <1>5, <1>8 DEF Undone, Making
<1>9. ASSUME at[r] \in Making, NEW place \in {"undoing", "dropping"}, Go(r, place),
             BeginClose(r),
             UNCHANGED <<closed, registered, keyLock, creating, dying, taken, closer,
                         janitor, mine>>
      PROVE  Owned'
  <2>1. keyLock = r /\ at' = [at EXCEPT ![r] = place]
    BY <1>9 DEF Owned, LockHeld
  <2>2. proc'[r] # "up" /\ \A t \in Runs : proc'[t] = "up" => proc[t] = "up"
    BY <1>9, ClosesAreTyped
  <2>3. LockHeld'
    BY <1>9, <1>a, <2>1 DEF Owned, LockHeld, Making
  <2>4. ClosedIsEmpty'
    BY <1>9 DEF Owned, ClosedIsEmpty
  <2>5. MakersAlone'
    BY <1>9, <1>a, <1>b, <2>1, <2>2 DEF Owned, MakersAlone, LockHeld, Making
  <2>6. UpIsOwned'
    BY <1>9, <1>a, <2>1, <2>2 DEF Owned, UpIsOwned
  <2> QED
    BY <2>3, <2>4, <2>5, <2>6 DEF Owned
<1>10. CASE GreetFails(r)
  BY <1>9, <1>10 DEF GreetFails, Making
<1>11. CASE Dropped(r)
  <2>1. at[r] = "dropping" /\ at[r] \in Making /\ at[r] # "greeting"
    BY <1>11 DEF Dropped, Making
  <2>2. CASE Leave(r) /\ Go(r, "done") /\ UNCHANGED processVars
    BY <1>5, <1>11, <2>1, <2>2 DEF Dropped
  <2>3. CASE BeginClose(r) /\ Go(r, "undoing") /\ UNCHANGED <<keyLock, creating>>
    BY <1>9, <1>11, <2>1, <2>3 DEF Dropped
  <2> QED
    BY <1>11, <2>2, <2>3 DEF Dropped
<1>12. CASE Spawned(r)
  <2>1. /\ at[r] = "spawning" /\ keyLock = r
        /\ at' = [at EXCEPT ![r] = "greeting"]
        /\ \A q \in Runs \ {r} : at[q] \notin Making
        /\ \A s \in Runs \ {r} : proc'[s] = proc[s]
        /\ UNCHANGED <<closed, registered, keyLock, creating, dying, taken, closer,
                       janitor, mine>>
    BY <1>12, <1>a, <1>b DEF Spawned, Owned, LockHeld, Making, TypeOK
  <2>2. LockHeld'
    BY <1>a, <2>1 DEF Owned, LockHeld, Making
  <2>3. ClosedIsEmpty'
    BY <2>1 DEF Owned, ClosedIsEmpty
  <2>4. MakersAlone'
    BY <1>a, <2>1 DEF Owned, MakersAlone, Making
  <2>5. UpIsOwned'
    BY <1>a, <2>1 DEF Owned, UpIsOwned
  <2> QED
    BY <2>2, <2>3, <2>4, <2>5 DEF Owned
<1>13. CASE Greeted(r)
  <2>1. at[r] \in Making
    BY <1>13 DEF Greeted, Making
  <2>2. CASE Late
    BY <1>9, <1>13, <2>1, <2>2 DEF Greeted
  <2>3. CASE ~Late
    <3>1. /\ at[r] = "greeting" /\ keyLock = r /\ registered = NoRun /\ ~closed
          /\ \A q \in Runs \ {r} : at[q] \notin Making
          /\ at' = [at EXCEPT ![r] = "threading"]
          /\ registered' = r /\ keyLock' = NoRun /\ creating' = creating \ {r}
          /\ UNCHANGED <<closed, dying, taken, closer, janitor, mine, proc>>
      BY <1>13, <2>1, <2>3 DEF Greeted, Leave, Late, Owned, LockHeld, MakersAlone
    <3>2. LockHeld'
      BY <1>a, <1>b, <3>1 DEF Owned, LockHeld, Making
    <3>3. ClosedIsEmpty'
      BY <3>1 DEF Owned, ClosedIsEmpty
    <3>4. MakersAlone'
      BY <1>a, <3>1 DEF MakersAlone, Making
    <3>5. UpIsOwned'
      BY <1>a, <1>b, <3>1 DEF Owned, UpIsOwned
    <3> QED
      BY <3>2, <3>3, <3>4, <3>5 DEF Owned
  <2> QED
    BY <2>2, <2>3
<1> QED
  BY <1>1, <1>2, <1>3, <1>4, <1>6, <1>7, <1>8, <1>10, <1>11, <1>12, <1>13
     DEF Creation

LEMMA TurnsKeepOwnership ==
    ASSUME TypeOK, Owned, TypeOK', NEW r \in Runs,
           Turn(r) \/ Interrupted(r) \/ Overtaken(r) \/ ServerStep(r)
    PROVE  Owned'
<1> USE DEF registryVars, discardVars, turnVars, processVars, talkVars, Go
<1>1. UNCHANGED <<registryVars, discardVars, mine>>
  BY DEF Turn, ServerStep, Threaded, TakeTurn, Started, RequestFails,
         Interrupted, Overtaken, Read, Confirmed, Unconfirmed, ServerStarts,
         ServerEnds, ProcessExits, Crash
<1>2. \A s \in Runs : proc'[s] = "up" => proc[s] = "up"
  BY DEF TypeOK, Turn, ServerStep, Threaded, TakeTurn, Started, RequestFails,
         Interrupted, Overtaken, Read, Confirmed, Unconfirmed, ServerStarts,
         ServerEnds, ProcessExits, Crash
<1>3. \/ at' = at
      \/ /\ at[r] \in Driven \cup {"cleaning"}
         /\ \E place \in Driven \cup {"cleaning", "done"} :
              at' = [at EXCEPT ![r] = place]
  BY DEF Turn, ServerStep, Threaded, TakeTurn, Started, RequestFails,
         Interrupted, Overtaken, Read, Confirmed, Unconfirmed, ServerStarts,
         ServerEnds, ProcessExits, Crash, Halt, Driven
<1>4. \A q \in Runs : at[q] \in Making \/ at'[q] \in Making => at'[q] = at[q]
  BY <1>3 DEF TypeOK, Making, Driven
<1> QED
  BY <1>1, <1>2, <1>4, OwnershipKept

LEMMA RegistryKeepsOwnership ==
    ASSUME TypeOK, Owned, TypeOK', RegistryStep
    PROVE  Owned'
<1> USE DEF registryVars, discardVars, turnVars, processVars, talkVars
<1>a. at \in [Runs -> Places] /\ mine \in [Runs -> MaybeRun]
  BY DEF TypeOK
<1>b. NoRun \notin Runs /\ "janitor" \notin Runs /\ "janitor" # NoRun
  BY NoRunAssumption, JanitorAssumption
<1>1. CASE Discard
  BY <1>1 DEF Discard, Owned, LockHeld, ClosedIsEmpty, MakersAlone, UpIsOwned
<1>2. CASE DiscardEnters
  <2>1. /\ \A q \in Runs : at[q] \notin Making
        /\ UNCHANGED <<closed, registered, creating, dying, taken, closer, at, mine>>
    BY <1>2, <1>b DEF DiscardEnters, Owned, LockHeld
  <2>2. CASE registered = NoRun
    BY <1>2, <2>1, <2>2, <1>b
       DEF DiscardEnters, Owned, LockHeld, ClosedIsEmpty, MakersAlone, UpIsOwned
  <2>3. CASE registered # NoRun
    <3>1. /\ registered \in Runs /\ janitor' = "closing" /\ keyLock' = "janitor"
          /\ BeginClose(registered)
      BY <1>2, <2>3 DEF DiscardEnters, TypeOK, MaybeRun
    <3>2. proc'[registered] # "up" /\ \A t \in Runs : proc'[t] = "up" => proc[t] = "up"
      BY <3>1, ClosesAreTyped
    <3>3. LockHeld'
      BY <1>b, <2>1, <3>1 DEF Owned, LockHeld
    <3>4. ClosedIsEmpty' /\ MakersAlone'
      BY <2>1, <3>2 DEF Owned, ClosedIsEmpty, MakersAlone, Making
    <3>5. UpIsOwned'
      BY <2>1, <3>1, <3>2 DEF Owned, UpIsOwned, Making
    <3> QED
      BY <3>3, <3>4, <3>5 DEF Owned
  <2> QED
    BY <2>2, <2>3
<1>3. CASE Discarded
  <2>1. /\ keyLock = "janitor" /\ \A q \in Runs : at[q] \notin Making
        /\ janitor' = "done" /\ keyLock' = NoRun
        /\ registered' = registered \/ (registered' = NoRun /\ CloseEnds(registered))
        /\ UNCHANGED <<closed, creating, dying, taken, closer, at, mine, proc>>
    BY <1>3, <1>b DEF Discarded, Owned, LockHeld
  <2>2. LockHeld'
    BY <1>b, <2>1 DEF Owned, LockHeld
  <2>3. ClosedIsEmpty' /\ MakersAlone'
    BY <2>1 DEF Owned, ClosedIsEmpty, MakersAlone, Making
  <2>4. UpIsOwned'
    BY <2>1, <1>b DEF Owned, UpIsOwned, CloseEnds, Making
  <2> QED
    BY <2>2, <2>3, <2>4 DEF Owned
<1>4. CASE Close
  <2>1. /\ ~closed /\ closed' /\ closer = "idle" /\ dying' = creating
        /\ closer' = IF registered = NoRun THEN "waiting" ELSE "closing"
        /\ registered' = NoRun /\ taken' = registered
        /\ UNCHANGED <<keyLock, creating, janitor, at, mine, proc>>
    BY <1>4 DEF Close, Seen, Owned, ClosedIsEmpty
  <2>2. LockHeld' /\ ClosedIsEmpty' /\ MakersAlone'
    BY <2>1 DEF Owned, LockHeld, ClosedIsEmpty, MakersAlone
  <2>3. UpIsOwned'
    BY <1>b, <2>1 DEF Owned, UpIsOwned
  <2> QED
    BY <2>2, <2>3 DEF Owned
<1>7. CASE CloseTells
  <2>1. /\ taken \in Runs /\ BeginClose(taken)
        /\ closer = "closing" /\ closer' = "gathering"
        /\ UNCHANGED <<closed, registered, keyLock, creating, dying, taken,
                       janitor, at, mine>>
    BY <1>7 DEF CloseTells, Owned, ClosedIsEmpty, TypeOK, MaybeRun
  <2>2. proc'[taken] # "up" /\ \A t \in Runs : proc'[t] = "up" => proc[t] = "up"
    BY <2>1, ClosesAreTyped
  <2>3. LockHeld' /\ ClosedIsEmpty'
    BY <2>1 DEF Owned, LockHeld, ClosedIsEmpty
  <2>4. MakersAlone'
    BY <2>1, <2>2 DEF Owned, MakersAlone
  <2>5. UpIsOwned'
    BY <2>1, <2>2 DEF Owned, UpIsOwned
  <2> QED
    BY <2>3, <2>4, <2>5 DEF Owned
<1>5. CASE CloseGathers
  BY <1>5 DEF CloseGathers, Owned, LockHeld, ClosedIsEmpty, MakersAlone, UpIsOwned
<1>6. CASE CloseReturns
  BY <1>6 DEF CloseReturns, Owned, LockHeld, ClosedIsEmpty, MakersAlone, UpIsOwned
<1> QED
  BY <1>1, <1>2, <1>3, <1>4, <1>5, <1>6, <1>7 DEF RegistryStep

-----------------------------------------------------------------------------
LEMMA StepsKeepWork ==
    ASSUME TypeOK, WorksOnOne, TypeOK', NEW r \in Runs, RunStep(r) \/ ServerStep(r)
    PROVE  WorksOnOne'
<1> USE DEF registryVars, discardVars, turnVars, processVars, talkVars, Go,
            WorksOnOne, Making, Driven, TypeOK, MaybeRun
<1>1. CASE Ask(r) \/ Withdraw(r)
  BY <1>1 DEF Ask, Withdraw
<1>2. CASE Enter(r)
  <2>1. server' = server
    BY <1>2 DEF Enter
  <2>2. CASE TurnAway(r)
    BY <1>2, <2>1, <2>2 DEF TurnAway
  <2>3. CASE Reuse(r)
    BY <1>2, <2>1, <2>3 DEF Reuse, Matches
  <2>4. CASE Retire(r)
    BY <1>2, <2>1, <2>4 DEF Retire
  <2>5. CASE Make(r)
    BY <1>2, <2>1, <2>5 DEF Make
  <2> QED
    BY <1>2, <2>2, <2>3, <2>4, <2>5 DEF Enter
<1>3. CASE Creation(r) /\ ~Enter(r)
  <2>1. /\ server' = server /\ at[r] \in Making
        /\ mine' = mine \/ mine' = [mine EXCEPT ![r] = r]
        /\ \E place \in Places : at' = [at EXCEPT ![r] = place]
    BY <1>3 DEF Creation, Retired, RetireFails, Spawned, SpawnFails, Greeted,
                GreetFails, Undone, Dropped, Places
  <2> QED
    BY <2>1
<1>4. CASE Threaded(r) \/ TakeTurn(r) \/ Started(r) \/ Unconfirmed(r)
  BY <1>4 DEF Threaded, TakeTurn, Started, Unconfirmed
<1>5. CASE RequestFails(r) \/ Interrupted(r) \/ Overtaken(r)
  BY <1>5 DEF RequestFails, Interrupted, Overtaken, Halt
<1>6. CASE Read(r)
  BY <1>6 DEF Read, Halt
<1>7. CASE Confirmed(r)
  <2>1. server' = server \/ \E q \in Runs : server[q] = "running" /\ server' = [server EXCEPT ![q] = "ended"]
    BY <1>7 DEF Confirmed
  <2> QED
    BY <1>7, <2>1 DEF Confirmed
<1>8. CASE ServerStep(r)
  BY <1>8 DEF ServerStep, ServerStarts, ServerEnds, ProcessExits, Crash
<1> QED
  BY <1>1, <1>2, <1>3, <1>4, <1>5, <1>6, <1>7, <1>8 DEF RunStep, Turn

LEMMA Inductive == IInv /\ [Next]_vars => IInv'
<1> SUFFICES ASSUME IInv, [Next]_vars PROVE IInv'
  OBVIOUS
<1>1. TypeOK /\ WorksOnOne /\ Owned
  BY DEF IInv
<1>2. ASSUME NEW r \in Runs, RunStep(r) \/ ServerStep(r)
      PROVE  IInv'
  <2>1. TypeOK'
    <3>1. CASE Ask(r) \/ Withdraw(r) \/ Creation(r)
      BY <1>1, <3>1, CreationKeepsTypes
    <3>2. CASE ProcessExits(r) \/ Crash(r)
      BY <1>1, <3>2, ProcessesKeepTypes
    <3>3. CASE Turn(r) \/ Interrupted(r) \/ Overtaken(r) \/ ServerStarts(r) \/ ServerEnds(r)
      <4>1. at[r] \in Driven \cup {"cleaning"} \/ server[r] # "none"
        BY <3>3 DEF Turn, Threaded, TakeTurn, Started, RequestFails, Read,
                    Confirmed, Unconfirmed, Interrupted, Overtaken,
                    ServerStarts, ServerEnds, Driven
      <4> QED
        BY <1>1, <3>3, <4>1, TurnsKeepTypes DEF WorksOnOne
    <3> QED
      BY <1>2, <3>1, <3>2, <3>3 DEF RunStep, ServerStep
  <2>2. WorksOnOne'
    BY <1>1, <1>2, <2>1, StepsKeepWork
  <2>3. Owned'
    <3>1. CASE Ask(r) \/ Withdraw(r) \/ Creation(r)
      BY <1>1, <2>1, <3>1, CreationKeepsOwnership
    <3>2. CASE ~(Ask(r) \/ Withdraw(r) \/ Creation(r))
      BY <1>1, <1>2, <2>1, <3>2, TurnsKeepOwnership DEF RunStep
    <3> QED
      BY <3>1, <3>2
  <2> QED
    BY <2>1, <2>2, <2>3 DEF IInv
<1>3. ASSUME RegistryStep
      PROVE  IInv'
  <2>1. TypeOK' /\ Owned'
    BY <1>1, <1>3, RegistryKeepsTypes, RegistryKeepsOwnership
  <2>2. UNCHANGED <<at, mine, server>>
    BY <1>3 DEF RegistryStep, Discard, DiscardEnters, Discarded, Close,
                CloseTells, CloseGathers, CloseReturns, turnVars
  <2> QED
    BY <1>1, <2>1, <2>2 DEF IInv, WorksOnOne
<1>4. CASE UNCHANGED vars
  BY <1>1, <1>4
     DEF IInv, TypeOK, WorksOnOne, Owned, LockHeld, ClosedIsEmpty, MakersAlone,
         UpIsOwned, vars, registryVars, discardVars, turnVars, processVars,
         talkVars
<1> QED
  BY <1>2, <1>3, <1>4 DEF Next

-----------------------------------------------------------------------------
(* The state of the key's sessions is well formed.                         *)
THEOREM TypeCorrect == Spec => []TypeOK
<1>1. IInv => TypeOK
  BY DEF IInv
<1> QED
  BY InitEstablishes, Inductive, <1>1, PTL DEF Spec

(* No live process gets out of the registry's hands: it is the registered  *)
(* session's, its maker still holds the lock of the key, or aclose is      *)
(* about to close it                                                       *)
(* (ExternalExecutorSessionRegistry.get_or_create, discard, aclose).       *)
THEOREM ProcessesAreOwned == Spec => []UpIsOwned
<1>1. IInv => UpIsOwned
  BY DEF IInv, Owned
<1> QED
  BY InitEstablishes, Inductive, <1>1, PTL DEF Spec

(* The key never has two processes at a time, whatever fails or is         *)
(* cancelled while a session is replaced (get_or_create, discard).         *)
THEOREM OneAtATime == Spec => []OneProcess
<1>1. IInv => OneProcess
  <2> SUFFICES ASSUME IInv, NEW s \in Runs, NEW t \in Runs,
                      proc[s] = "up", proc[t] = "up"
               PROVE  s = t
    BY DEF OneProcess
  <2> QED
    BY NoRunAssumption DEF IInv, Owned, ClosedIsEmpty, UpIsOwned, MakersAlone
<1> QED
  BY InitEstablishes, Inductive, <1>1, PTL DEF Spec

(* When aclose has returned, every process was told to end and nobody is   *)
(* about to start one, even if a session was being made                    *)
(* (ExternalExecutorSessionRegistry.aclose).                               *)
THEOREM ClosedLeavesNone == Spec => []NoneLeft
<1>1. IInv => NoneLeft
  <2> SUFFICES ASSUME IInv, closer = "done" PROVE NoneLeft
    BY DEF NoneLeft
  <2>1. \A r \in Runs : at[r] \notin Making
    BY DEF IInv, Owned, LockHeld, ClosedIsEmpty
  <2>2. registered = NoRun
    BY DEF IInv, Owned, ClosedIsEmpty
  <2>3. \A s \in Runs : proc[s] # "up"
    BY <2>1, <2>2, NoRunAssumption DEF IInv, Owned, UpIsOwned, Making
  <2> QED
    BY <2>1, <2>3 DEF NoneLeft
<1> QED
  BY InitEstablishes, Inductive, <1>1, PTL DEF Spec

-----------------------------------------------------------------------------
(* Runs that follow each other.  A run that is done leaves its turn ended, *)
(* its interruption confirmed, or its session unusable, so that the next   *)
(* run of the session finds nothing at work.                               *)

Busy(r) == at[r] \notin {"idle", "done"}

OneIsBusy == \A r, q \in Runs : Busy(r) /\ Busy(q) => r = q

(* A session is registered and worked on only after it was made.           *)
UnmadePlaces == {"idle", "waiting", "retiring", "spawning", "greeting"}
Unmade(s) == at[s] \in UnmadePlaces

UsedAreMade ==
    /\ registered \in Runs => ~Unmade(registered)
    /\ \A q \in Runs : mine[q] \in Runs /\ Unmade(mine[q]) => mine[q] = q

TurnsAreAsked ==
    \A r \in Runs :
      server[r] # "none" => at[r] \in {"asking", "turn", "cleaning", "done"}

NoticesAreTrue ==
    \A s \in Runs : \A i \in 1..Len(inbox[s]) :
      inbox[s][i] \in Runs => server[inbox[s][i]] = "ended"

DoneIsOver ==
    \A q \in Runs :
      at[q] = "done" /\ Live(q) => interrupt[q] = "confirmed" \/ unusable[mine[q]]

NobodyElse ==
    \A r, q \in Runs :
      r # q /\ at[r] \in Driven /\ mine[q] = mine[r] /\ Live(q)
        => interrupt[q] = "confirmed"

SInv ==
    /\ OneIsBusy /\ UsedAreMade /\ TurnsAreAsked
    /\ NoticesAreTrue /\ DoneIsOver /\ NobodyElse

LEMMA InitEstablishesSInv == Init => SInv
<1> SUFFICES ASSUME Init PROVE SInv
  OBVIOUS
<1>1. OneIsBusy /\ UsedAreMade
  BY NoRunAssumption DEF Init, OneIsBusy, Busy, UsedAreMade
<1>2. TurnsAreAsked /\ NoticesAreTrue
  BY DEF Init, TurnsAreAsked, NoticesAreTrue
<1>3. DoneIsOver /\ NobodyElse
  BY DEF Init, DoneIsOver, NobodyElse, Driven
<1> QED
  BY <1>1, <1>2, <1>3 DEF SInv

(* What a step of one run leaves alone.                                    *)
LEMMA StepsLeaveOthers ==
    ASSUME IInv, NEW r \in Runs, RunStep(r) \/ ServerStep(r)
    PROVE  /\ \A q \in Runs \ {r} :
                at'[q] = at[q] /\ mine'[q] = mine[q] /\ interrupt'[q] = interrupt[q]
           /\ \A q \in Runs :
                \/ server'[q] = server[q]
                \/ server[q] = "running" /\ server'[q] = "ended"
                \/ server[q] = "asked" /\ server'[q] = "running"
                \/ q = r /\ TakeTurn(r)
           /\ \A s \in Runs : unusable[s] => unusable'[s]
           /\ \A s \in Runs :
                proc'[s] = "up" => proc[s] = "up" \/ (s = r /\ at[r] = "spawning")
<1> USE DEF registryVars, discardVars, turnVars, processVars, talkVars, Go
<1>a. TypeOK
  BY DEF IInv
<1>1. CASE Ask(r) \/ Withdraw(r)
  BY <1>a, <1>1 DEF Ask, Withdraw, TypeOK
<1>2. CASE Enter(r)
  <2>1. UNCHANGED <<server, interrupt>>
    BY <1>2 DEF Enter
  <2>2. CASE TurnAway(r) \/ Reuse(r) \/ Make(r)
    BY <1>a, <1>2, <2>1, <2>2 DEF TurnAway, Reuse, Make, TypeOK
  <2>3. CASE Retire(r)
    <3>1. registered \in Runs
      BY <1>a, <2>3 DEF Retire, TypeOK, MaybeRun
    <3>2. /\ \A t \in Runs : proc'[t] = "up" => proc[t] = "up"
          /\ \A t \in Runs : unusable[t] => unusable'[t]
      BY <1>a, <2>3, <3>1, ClosesAreTyped DEF Retire
    <3> QED
      BY <1>a, <2>1, <2>3, <3>2 DEF Retire, TypeOK
  <2> QED
    BY <1>2, <2>2, <2>3 DEF Enter
<1>3. CASE Retired(r)
  BY <1>a, <1>3 DEF Retired, TypeOK
<1>13. CASE RetireFails(r)
  BY <1>a, <1>13 DEF RetireFails, TypeOK
<1>11. CASE Spawned(r)
  BY <1>a, <1>11 DEF Spawned, TypeOK
<1>12. CASE Undone(r)
  BY <1>a, <1>12 DEF Undone, TypeOK
<1>4. CASE SpawnFails(r) \/ Greeted(r) \/ GreetFails(r) \/ Dropped(r)
  <2>1. /\ UNCHANGED <<server, interrupt, mine>>
        /\ \E place \in Places : at' = [at EXCEPT ![r] = place]
        /\ BeginClose(r) \/ UNCHANGED processVars
    BY <1>4 DEF SpawnFails, Greeted, GreetFails, Dropped, Places, Making, Driven
  <2>2. /\ \A t \in Runs : proc'[t] = "up" => proc[t] = "up"
        /\ \A t \in Runs : unusable[t] => unusable'[t]
    BY <1>a, <2>1, ClosesAreTyped
  <2> QED
    BY <1>a, <2>1, <2>2 DEF TypeOK
<1>5. CASE Threaded(r) \/ TakeTurn(r) \/ Started(r)
  BY <1>a, <1>5 DEF Threaded, TakeTurn, Started, TypeOK
<1>6. CASE RequestFails(r) \/ Interrupted(r) \/ Overtaken(r)
  BY <1>a, <1>6 DEF RequestFails, Interrupted, Overtaken, Halt, TypeOK
<1>7. CASE Read(r)
  BY <1>a, <1>7 DEF Read, Halt, TypeOK
<1>8. CASE Confirmed(r)
  <2>1. \/ server' = server
        \/ \E q \in Runs : server[q] = "running" /\ server' = [server EXCEPT ![q] = "ended"]
    BY <1>a, <1>8 DEF Confirmed, TypeOK, MaybeRun
  <2>2. \A q \in Runs : server'[q] = server[q] \/ (server[q] = "running" /\ server'[q] = "ended")
    BY <1>a, <2>1 DEF TypeOK
  <2> QED
    BY <1>a, <1>8, <2>2 DEF Confirmed, TypeOK
<1>9. CASE Unconfirmed(r)
  BY <1>a, <1>9 DEF Unconfirmed, Invalid, TypeOK
<1>10. CASE ServerStep(r)
  BY <1>a, <1>10 DEF ServerStep, ServerStarts, ServerEnds, ProcessExits, Crash, TypeOK
<1> QED
  BY <1>1, <1>2, <1>3, <1>4, <1>5, <1>6, <1>7, <1>8, <1>9, <1>10,
     <1>11, <1>12, <1>13
     DEF RunStep, Creation, Turn

(* Where a step takes its run.                                             *)
LEMMA StepsMoveOn ==
    ASSUME IInv, NEW r \in Runs, RunStep(r) \/ ServerStep(r)
    PROVE  /\ Busy(r)' => Busy(r) \/ Ask(r)
           /\ Unmade(r)' => Unmade(r)
           /\ at[r] \in {"asking", "turn", "cleaning", "done"} =>
                /\ at'[r] \in {"asking", "turn", "cleaning", "done"}
                /\ mine'[r] = mine[r]
           /\ at'[r] \in Driven =>
                \/ at[r] \in Driven /\ mine'[r] = mine[r]
                \/ Enter(r) /\ Reuse(r)
                \/ at[r] = "greeting" /\ mine'[r] = mine[r]
           /\ interrupt'[r] # interrupt[r] => Busy(r)
           /\ at'[r] = "done" =>
                \/ at[r] \notin {"asking", "turn", "cleaning"} /\ interrupt'[r] = interrupt[r]
                \/ Read(r) /\ answer'[r] \in Runs
                     /\ answer'[r] = Head(inbox[mine[r]])
                     /\ ~Skipped(r, Head(inbox[mine[r]]))
                \/ interrupt'[r] = "confirmed"
                \/ unusable'[mine'[r]] /\ mine'[r] = mine[r]
<1> USE DEF registryVars, discardVars, turnVars, processVars, talkVars, Go,
            Busy, Unmade, UnmadePlaces, Driven
<1>a. TypeOK /\ WorksOnOne
  BY DEF IInv
<1>1. CASE Ask(r) \/ Withdraw(r)
  BY <1>a, <1>1 DEF Ask, Withdraw, TypeOK
<1>2. CASE Enter(r)
  <2>1. UNCHANGED <<server, interrupt>> /\ at[r] = "waiting"
    BY <1>2 DEF Enter
  <2>2. CASE TurnAway(r) \/ Retire(r) \/ Make(r)
    BY <1>a, <1>2, <2>1, <2>2 DEF TurnAway, Retire, Make, TypeOK
  <2>3. CASE Reuse(r)
    BY <1>a, <1>2, <2>1, <2>3 DEF Reuse, TypeOK
  <2> QED
    BY <1>2, <2>2, <2>3 DEF Enter
<1>3. CASE Retired(r) \/ RetireFails(r) \/ Spawned(r) \/ Undone(r)
  BY <1>a, <1>3 DEF Retired, RetireFails, Spawned, Undone, TypeOK
<1>4. CASE SpawnFails(r) \/ Greeted(r) \/ GreetFails(r) \/ Dropped(r)
  BY <1>a, <1>4 DEF SpawnFails, Greeted, GreetFails, Dropped, TypeOK
<1>5. CASE Threaded(r) \/ TakeTurn(r) \/ Started(r)
  BY <1>a, <1>5 DEF Threaded, TakeTurn, Started, TypeOK
<1>6. CASE RequestFails(r) \/ Interrupted(r) \/ Overtaken(r)
  BY <1>a, <1>6 DEF RequestFails, Interrupted, Overtaken, Halt, TypeOK
<1>7. CASE Read(r)
  <2>1. /\ at[r] = "turn" /\ mine' = mine
        /\ inbox[mine[r]] \in Seq(MaybeRun) /\ inbox[mine[r]] # <<>>
    BY <1>a, <1>7 DEF Read, TypeOK, WorksOnOne
  <2>2. Head(inbox[mine[r]]) \in MaybeRun
    BY <2>1, HeadTailProperties
  <2>3. \/ UNCHANGED <<at, interrupt>>
        \/ at' = [at EXCEPT ![r] = "cleaning"]
        \/ /\ at' = [at EXCEPT ![r] = "done"]
           /\ answer' = [answer EXCEPT ![r] = Head(inbox[mine[r]])]
           /\ Head(inbox[mine[r]]) # NoRun
           /\ ~Skipped(r, Head(inbox[mine[r]]))
    BY <1>7 DEF Read, Halt
  <2> QED
    BY <1>a, <1>7, <2>1, <2>2, <2>3 DEF TypeOK, MaybeRun
<1>8. CASE Confirmed(r)
  BY <1>a, <1>8 DEF Confirmed, TypeOK
<1>9. CASE Unconfirmed(r)
  BY <1>a, <1>9 DEF Unconfirmed, Invalid, TypeOK, WorksOnOne
<1>10. CASE ServerStep(r)
  BY <1>a, <1>10 DEF ServerStep, ServerStarts, ServerEnds, ProcessExits, Crash, TypeOK
<1> QED
  BY <1>1, <1>2, <1>3, <1>4, <1>5, <1>6, <1>7, <1>8, <1>9, <1>10
     DEF RunStep, Creation, Turn

LEMMA NoticesStayTrue ==
    ASSUME IInv, SInv, TypeOK', NEW r \in Runs, RunStep(r) \/ ServerStep(r)
    PROVE  NoticesAreTrue'
<1> USE DEF registryVars, discardVars, turnVars, processVars, talkVars
<1>a. TypeOK /\ TurnsAreAsked /\ NoticesAreTrue
  BY DEF IInv, SInv
<1>1. \A q \in Runs : server[q] = "ended" => server'[q] = "ended"
  <2>1. TakeTurn(r) => server[r] = "none"
    BY <1>a DEF TakeTurn, TurnsAreAsked, TypeOK
  <2> QED
    BY <2>1, StepsLeaveOthers
<1>2. ASSUME inbox' = inbox
      PROVE  NoticesAreTrue'
  BY <1>a, <1>1, <1>2 DEF NoticesAreTrue
<1>3. ASSUME NEW s \in Runs, NEW item \in MaybeRun,
             inbox' = [inbox EXCEPT ![s] = Append(@, item)],
             item \in Runs => server'[item] = "ended"
      PROVE  NoticesAreTrue'
  <2> SUFFICES ASSUME NEW t \in Runs, NEW i \in 1..Len(inbox'[t]), inbox'[t][i] \in Runs
               PROVE  server'[inbox'[t][i]] = "ended"
    BY DEF NoticesAreTrue
  <2>1. inbox[t] \in Seq(MaybeRun) /\ inbox[s] \in Seq(MaybeRun)
    BY <1>a DEF TypeOK
  <2>2. CASE t # s \/ i # Len(inbox[s]) + 1
    <3>1. i \in 1..Len(inbox[t]) /\ inbox'[t][i] = inbox[t][i]
      BY <1>3, <1>a, <2>1, <2>2 DEF TypeOK
    <3> QED
      BY <1>a, <1>1, <3>1 DEF NoticesAreTrue
  <2>3. CASE t = s /\ i = Len(inbox[s]) + 1
    <3>1. inbox'[t][i] = item
      BY <1>3, <1>a, <2>1, <2>3 DEF TypeOK
    <3> QED
      BY <1>3, <3>1
  <2> QED
    BY <2>2, <2>3
<1>4. CASE Read(r)
  <2>1. /\ mine[r] \in Runs /\ inbox[mine[r]] # <<>>
        /\ inbox' = [inbox EXCEPT ![mine[r]] = Tail(@)]
    BY <1>4 DEF Read, IInv, WorksOnOne, Driven
  <2> SUFFICES ASSUME NEW t \in Runs, NEW i \in 1..Len(inbox'[t]), inbox'[t][i] \in Runs
               PROVE  server'[inbox'[t][i]] = "ended"
    BY DEF NoticesAreTrue
  <2>2. inbox[t] \in Seq(MaybeRun)
    BY <1>a DEF TypeOK
  <2>3. CASE t = mine[r]
    <3>1. inbox'[t] = Tail(inbox[t]) /\ inbox[t] # <<>>
      BY <1>a, <2>1, <2>3 DEF TypeOK
    <3>2. i + 1 \in 1..Len(inbox[t]) /\ inbox'[t][i] = inbox[t][i + 1]
      BY <2>2, <3>1
    <3> QED
      BY <1>a, <1>1, <3>2 DEF NoticesAreTrue
  <2>4. CASE t # mine[r]
    BY <1>a, <1>1, <2>1, <2>4 DEF NoticesAreTrue, TypeOK
  <2> QED
    BY <2>3, <2>4
<1>5. CASE Confirmed(r)
  <2>1. CASE inbox' = inbox
    BY <1>2, <2>1
  <2>2. CASE inbox' # inbox
    <3>4. named[r] # NoRun /\ named[r] \in MaybeRun
      BY <1>a, <1>5, <2>2 DEF Confirmed, TypeOK
    <3>1. /\ named[r] \in Runs /\ mine[r] \in Runs
          /\ server' = [server EXCEPT ![named[r]] = "ended"]
          /\ inbox' = [inbox EXCEPT ![mine[r]] = Append(@, named[r])]
      BY <1>5, <2>2, <3>4 DEF Confirmed, MaybeRun, IInv, WorksOnOne
    <3>2. server'[named[r]] = "ended"
      BY <1>a, <3>1 DEF TypeOK
    <3> QED
      BY <1>3, <3>1, <3>2 DEF MaybeRun
  <2> QED
    BY <2>1, <2>2
<1>6. CASE ServerEnds(r)
  <2>1. /\ mine[r] \in Runs
        /\ server'[r] = "ended"
        /\ inbox' = [inbox EXCEPT ![mine[r]] = Append(@, r)]
    BY <1>a, <1>6 DEF ServerEnds, TypeOK, IInv, WorksOnOne
  <2> QED
    BY <1>3, <2>1 DEF MaybeRun
<1>7. CASE Crash(r)
  <2>1. inbox' = [inbox EXCEPT ![r] = Append(@, NoRun)]
    BY <1>7 DEF Crash
  <2> QED
    BY <1>3, <2>1, NoRunAssumption DEF MaybeRun
<1>8. CASE ~(Read(r) \/ Confirmed(r) \/ ServerEnds(r) \/ Crash(r))
  <2>1. inbox' = inbox
    BY <1>8 DEF RunStep, Creation, Turn, ServerStep, Ask, Withdraw, Enter,
                Retired, RetireFails, Spawned, SpawnFails, Greeted, GreetFails,
                Undone, Dropped, Threaded, TakeTurn, Started, RequestFails,
                Interrupted, Overtaken, Unconfirmed, ServerStarts, ProcessExits
  <2> QED
    BY <1>2, <2>1
<1> QED
  BY <1>4, <1>5, <1>6, <1>7, <1>8

LEMMA StepsKeepSInv ==
    ASSUME ~Overlap, Named, IInv, SInv, TypeOK', NEW r \in Runs,
           RunStep(r) \/ ServerStep(r)
    PROVE  SInv'
<1> USE DEF registryVars, discardVars, turnVars, processVars, talkVars
<1>a. TypeOK /\ WorksOnOne /\ Owned
  BY DEF IInv
<1>b. OneIsBusy /\ UsedAreMade /\ TurnsAreAsked /\ DoneIsOver /\ NobodyElse
  BY DEF SInv
<1>c. \A q \in Runs \ {r} :
        at'[q] = at[q] /\ mine'[q] = mine[q] /\ interrupt'[q] = interrupt[q]
  BY StepsLeaveOthers
<1>d. \A s \in Runs : at'[s] \in UnmadePlaces => Unmade(s)
  BY <1>c, StepsMoveOn DEF Unmade
<1>1. OneIsBusy'
  <2>1. Ask(r) => \A q \in Runs : ~Busy(q)
    BY DEF Ask, Busy
  <2>2. \A q \in Runs : Busy(q)' => Busy(q) \/ (q = r /\ Ask(r))
    BY <1>c, StepsMoveOn DEF Busy
  <2> QED
    BY <1>b, <2>1, <2>2 DEF OneIsBusy
<1>2. UsedAreMade'
  <2>1. registered' \in Runs => at'[registered'] \notin UnmadePlaces
    <3>1. \/ registered' \in {registered, NoRun}
          \/ registered' = r /\ at' = [at EXCEPT ![r] = "threading"]
      BY DEF RunStep, Creation, Turn, ServerStep, Ask, Withdraw, Enter,
             Retired, RetireFails, Spawned, SpawnFails, Greeted, GreetFails,
             Undone, Dropped, Threaded, TakeTurn, Started, RequestFails, Read,
             Interrupted, Overtaken, Confirmed, Unconfirmed, ServerStarts,
             ServerEnds, ProcessExits, Crash, Go
    <3>2. CASE registered' \in {registered, NoRun}
      BY <1>b, <1>d, <3>2, NoRunAssumption DEF UsedAreMade
    <3>3. CASE registered' = r /\ at' = [at EXCEPT ![r] = "threading"]
      BY <1>a, <3>3 DEF TypeOK, UnmadePlaces
    <3> QED
      BY <3>1, <3>2, <3>3
  <2>2. ASSUME NEW q \in Runs, mine'[q] \in Runs,
               at'[mine'[q]] \in UnmadePlaces
        PROVE  mine'[q] = q
    <3>1. CASE mine'[q] = mine[q]
      BY <1>b, <1>d, <2>2, <3>1 DEF UsedAreMade
    <3>2. CASE mine'[q] # mine[q]
      <4>1. q = r /\ mine'[r] \in {r, registered}
        BY <1>a, <1>c, <3>2
           DEF TypeOK, RunStep, Creation, Turn, ServerStep, Ask, Withdraw, Enter,
               TurnAway, Reuse, Retire, Make, Retired, RetireFails, Spawned,
               SpawnFails, Greeted, GreetFails, Undone, Dropped, Threaded,
               TakeTurn, Started, RequestFails, Read, Interrupted, Overtaken,
               Confirmed, Unconfirmed, ServerStarts, ServerEnds, ProcessExits,
               Crash
      <4> QED
        BY <1>b, <1>d, <2>2, <4>1 DEF UsedAreMade
    <3> QED
      BY <3>1, <3>2
  <2> QED
    BY <2>1, <2>2 DEF UsedAreMade, Unmade
<1>3. TurnsAreAsked'
  <2>1. TakeTurn(r) => at'[r] = "asking"
    BY <1>a DEF TakeTurn, Go, TypeOK
  <2> QED
    BY <1>b, <1>c, <2>1, StepsLeaveOthers, StepsMoveOn DEF TurnsAreAsked
<1>4. NoticesAreTrue'
  BY NoticesStayTrue
<1>5. ASSUME NEW q \in Runs, Live(q)'
      PROVE  (Live(q) /\ mine'[q] = mine[q]) \/ (q = r /\ TakeTurn(r))
  <2>1. CASE ~(q = r /\ TakeTurn(r))
    <3>1. server[q] \in {"asked", "running"}
      BY <1>5, <2>1, StepsLeaveOthers DEF Live
    <3>2. at[q] \in {"asking", "turn", "cleaning", "done"}
      BY <1>b, <3>1 DEF TurnsAreAsked
    <3>3. mine'[q] = mine[q] /\ mine[q] \in Runs
      BY <1>a, <1>c, <3>1, <3>2, StepsMoveOn DEF WorksOnOne
    <3>4. ~(mine[q] = r /\ at[r] = "spawning")
      BY <1>b, <3>2, <3>3 DEF UsedAreMade, Unmade, UnmadePlaces
    <3>5. proc[mine[q]] = "up"
      BY <1>5, <3>3, <3>4, StepsLeaveOthers DEF Live
    <3> QED
      BY <3>1, <3>3, <3>5 DEF Live
  <2> QED
    BY <2>1
<1>6. DoneIsOver'
  <2> SUFFICES ASSUME NEW q \in Runs, at'[q] = "done", Live(q)'
               PROVE  interrupt'[q] = "confirmed" \/ unusable'[mine'[q]]
    BY DEF DoneIsOver
  <2>1. Live(q) /\ mine'[q] = mine[q] /\ mine[q] \in Runs
    <3>1. ~(q = r /\ TakeTurn(r))
      BY <1>a DEF TakeTurn, Go, TypeOK
    <3> QED
      BY <1>5, <1>a, <3>1 DEF Live, WorksOnOne
  <2>2. unusable[mine[q]] => unusable'[mine'[q]]
    BY <2>1, StepsLeaveOthers
  <2>3. at[q] \in {"asking", "turn", "cleaning", "done"}
    BY <1>b, <2>1 DEF TurnsAreAsked, Live
  <2>4. CASE q # r
    BY <1>b, <1>c, <2>1, <2>2, <2>4 DEF DoneIsOver
  <2>5. CASE q = r
    <3>1. CASE at[r] \notin {"asking", "turn", "cleaning"} /\ interrupt'[r] = interrupt[r]
      BY <1>b, <2>1, <2>2, <2>3, <2>5, <3>1 DEF DoneIsOver
    <3>2. CASE Read(r) /\ ~Skipped(r, Head(inbox[mine[r]]))
                 /\ answer'[r] \in Runs /\ answer'[r] = Head(inbox[mine[r]])
      <4>1. Head(inbox[mine[r]]) = r
        BY <3>2, NoRunAssumption DEF Skipped
      <4>2. inbox[mine[r]] # <<>> /\ inbox[mine[r]] \in Seq(MaybeRun)
        BY <1>a, <2>1, <2>5, <3>2 DEF Read, TypeOK
      <4>3. 1 \in 1..Len(inbox[mine[r]]) /\ inbox[mine[r]][1] = r
        BY <4>1, <4>2
      <4>4. server[r] = "ended"
        BY <2>1, <2>5, <4>3 DEF SInv, NoticesAreTrue
      <4> QED
        BY <2>1, <2>5, <4>4 DEF Live
    <3> QED
      BY <2>5, <3>1, <3>2, StepsMoveOn
  <2> QED
    BY <2>4, <2>5
<1>7. NobodyElse'
  <2> SUFFICES ASSUME NEW x \in Runs, NEW y \in Runs, x # y, at'[x] \in Driven,
                      mine'[y] = mine'[x], Live(y)'
               PROVE  interrupt'[y] = "confirmed"
    BY DEF NobodyElse
  <2>1. Busy(x)
    <3>1. Ask(r) => at'[r] \notin Driven
      BY <1>a DEF Ask, Go, TypeOK, Driven
    <3> QED
      BY <1>c, <3>1, StepsMoveOn DEF Busy, Driven
  <2>2. ~Busy(y)
    BY <1>b, <2>1 DEF OneIsBusy
  <2>3. Live(y) /\ mine'[y] = mine[y] /\ mine[y] \in Runs
    <3>1. ~(y = r /\ TakeTurn(r))
      BY <2>2 DEF TakeTurn, Busy
    <3> QED
      BY <1>5, <1>a, <3>1 DEF Live, WorksOnOne
  <2>4. at[y] = "done"
    BY <1>b, <2>2, <2>3 DEF TurnsAreAsked, Live, Busy
  <2>5. interrupt'[y] = interrupt[y]
    BY <1>c, <2>2, StepsMoveOn
  <2>6. CASE at[x] \in Driven /\ mine'[x] = mine[x]
    BY <1>b, <2>3, <2>5, <2>6 DEF NobodyElse
  <2>7. CASE x = r /\ Enter(r) /\ Reuse(r)
    <3>1. mine'[r] = registered /\ ~unusable[registered]
      BY <1>a, <2>7 DEF Reuse, Refused, Matches, TypeOK
    <3> QED
      BY <1>b, <2>3, <2>4, <2>5, <2>7, <3>1 DEF DoneIsOver
  <2>8. CASE x = r /\ at[r] = "greeting" /\ mine'[r] = mine[r]
    <3>1. mine[r] = r
      BY <1>a, <2>8 DEF Owned, MakersAlone
    <3> QED
      BY <1>b, <2>3, <2>8, <3>1 DEF UsedAreMade, Unmade, UnmadePlaces
  <2> QED
    BY <1>c, <2>6, <2>7, <2>8, StepsMoveOn
<1> QED
  BY <1>1, <1>2, <1>3, <1>4, <1>6, <1>7 DEF SInv

LEMMA SInvInductive ==
    ASSUME ~Overlap, Named
    PROVE  IInv /\ SInv /\ [Next]_vars => SInv'
<1> SUFFICES ASSUME IInv, SInv, [Next]_vars PROVE SInv'
  OBVIOUS
<1>1. TypeOK'
  BY Inductive DEF IInv
<1>2. ASSUME NEW r \in Runs, RunStep(r) \/ ServerStep(r)
      PROVE  SInv'
  BY <1>1, <1>2, StepsKeepSInv
<1>3. ASSUME RegistryStep
      PROVE  SInv'
  <2>a. TypeOK
    BY DEF IInv
  <2>1. /\ UNCHANGED <<at, mine, server, interrupt, inbox>>
        /\ registered' \in {registered, NoRun}
    BY <1>3 DEF RegistryStep, Discard, DiscardEnters, Discarded, Close,
                CloseTells, CloseGathers, CloseReturns, turnVars, talkVars,
                registryVars
  <2>2. /\ \A s \in Runs : unusable[s] => unusable'[s]
        /\ \A s \in Runs : proc'[s] = "up" => proc[s] = "up"
    <3>1. \/ BeginClose(registered) /\ registered # NoRun
          \/ BeginClose(taken) /\ taken # NoRun
          \/ UNCHANGED processVars
      BY <1>3 DEF RegistryStep, Discard, DiscardEnters, Discarded, Close,
                  CloseTells, CloseGathers, CloseReturns, IInv, Owned,
                  ClosedIsEmpty
    <3> QED
      BY <2>a, <3>1, ClosesAreTyped DEF processVars, TypeOK, MaybeRun
  <2>3. OneIsBusy' /\ TurnsAreAsked' /\ NoticesAreTrue'
    BY <2>1 DEF SInv, OneIsBusy, Busy, TurnsAreAsked, NoticesAreTrue
  <2>4. UsedAreMade'
    BY <2>1, NoRunAssumption DEF SInv, UsedAreMade, Unmade
  <2>5. \A q \in Runs : Live(q)' => Live(q) /\ mine[q] \in Runs
    BY <2>1, <2>2 DEF Live, IInv, WorksOnOne
  <2>6. DoneIsOver' /\ NobodyElse'
    BY <2>1, <2>2, <2>5 DEF SInv, DoneIsOver, NobodyElse
  <2> QED
    BY <2>3, <2>4, <2>6 DEF SInv
<1>4. CASE UNCHANGED vars
  BY <1>4
     DEF SInv, OneIsBusy, Busy, UsedAreMade, Unmade, UnmadePlaces, TurnsAreAsked,
         NoticesAreTrue, DoneIsOver, NobodyElse, Live, vars, registryVars,
         turnVars, processVars, talkVars
<1> QED
  BY <1>2, <1>3, <1>4 DEF Next

(* Where the runs of a key follow each other and the server's              *)
(* notifications name their turn, a session is asked for a turn only when  *)
(* the server works on none, or has confirmed that it was interrupted      *)
(* (drive_executor_run, CodexExecutorRun.aclose, get_or_create).           *)
THEOREM ReuseIsSafe ==
    ASSUME ~Overlap, Named
    PROVE  Spec => []ReusedIsConfirmed
<1>1. SInv => ReusedIsConfirmed
  BY DEF SInv, NobodyElse, ReusedIsConfirmed, Driven
<1>2. IInv /\ SInv /\ [Next]_vars => SInv'
  BY SInvInductive
<1> QED
  BY InitEstablishes, InitEstablishesSInv, Inductive, <1>1, <1>2, PTL DEF Spec
=============================================================================
