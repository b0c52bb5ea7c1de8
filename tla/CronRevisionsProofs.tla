------------------------- MODULE CronRevisionsProofs -------------------------
(***************************************************************************)
(* Proofs about a cron job, for every number of executions, edits and      *)
(* shutdowns: no revision runs twice at a time, the row shows only its own *)
(* outcomes, a one-shot plan is triggered once, and a recurring plan that  *)
(* is on is scheduled.                                                     *)
(***************************************************************************)
EXTENDS CronRevisions, TLAPS

RowType ==
    [here : BOOLEAN, enabled : BOOLEAN, once : BOOLEAN, rev : Nat,
     status : Outcomes \cup {"none", "scheduled", "running", "missed"}, exec : Execs \cup {None}]

EntryType == [rev : Nat, once : BOOLEAN]

ExecType ==
    [pc : AtWork \cup {"none", "created", "waiting", "over"}, rev : Nat,
     manual : BOOLEAN, once : BOOLEAN,
     outcome : Outcomes \cup {"none", "superseded"}, cut : BOOLEAN]

(* TypeOK with its records named.                                          *)
Typed ==
    /\ row \in RowType
    /\ entries \in SUBSET EntryType
    /\ past \in SUBSET Nat
    /\ tracked \in Nat \cup {None}
    /\ held \in [{"add", "sync"} -> EntryType \cup {None}]
    /\ exec \in [Execs -> ExecType]
    /\ running \in SUBSET Nat /\ missed \in SUBSET Nat
    /\ phase \in {"up", "closing", "closed", "stuck"} /\ stops \in Nat

(* A triggered execution, from its task on.                                *)
Triggered(e) == exec[e].pc # "none" /\ ~exec[e].manual

(* Who is at work is on the list of running versions.                      *)
AtWorkIsListed == \A e \in Execs : exec[e].pc \in AtWork => exec[e].rev \in running

(* The execution the row names is past its start, and the outcome the row  *)
(* shows is settled.                                                       *)
NamedHasStarted ==
    /\ row.exec # None => exec[row.exec].pc \in {"body", "settling", "over"}
    /\ row.exec # None /\ exec[row.exec].pc # "body" => exec[row.exec].outcome \in Outcomes
    /\ row.status \in {"completed", "completed_without_delivery", "cancelled"} =>
          row.exec # None /\ exec[row.exec].pc = "over"

(* The row has the newest revision; what is scheduled or about to be, of   *)
(* that revision, is of its kind.                                          *)
NothingIsNewer ==
    /\ \A n \in entries : n.rev <= row.rev
    /\ \A p \in {"add", "sync"} : held[p] # None => held[p].rev <= row.rev
    /\ \A r \in past : r <= row.rev
    /\ \A e \in Execs : Triggered(e) => exec[e].rev <= row.rev

KindsAgree ==
    /\ \A n \in entries : n.rev = row.rev => n.once = row.once
    /\ \A p \in {"add", "sync"} : held[p] # None /\ held[p].rev = row.rev => held[p].once = row.once

(* A one-shot entry's date has not come; it has when an execution has been *)
(* triggered, and then there is one such execution.                        *)
DatesComeOnce ==
    /\ \A n \in entries : n.once => n.rev \notin past
    /\ \A e \in Execs : row.once /\ Triggered(e) /\ exec[e].rev = row.rev => row.rev \in past
    /\ \A e, f \in Execs : row.once /\ Triggered(e) /\ Triggered(f)
                           /\ exec[e].rev = row.rev /\ exec[f].rev = row.rev => e = f
    /\ \A e \in Execs : exec[e].once => exec[e].pc # "none"

(* A recurring plan that is on is in the scheduler or about to be.         *)
EnabledIsKnown ==
    phase = "up" /\ row.here /\ row.enabled /\ ~row.once =>
       \/ [rev |-> row.rev, once |-> FALSE] \in entries
       \/ \E p \in {"add", "sync"} : held[p] # None /\ held[p].rev = row.rev

(* Before the job is added there is nothing of it.                         *)
NoneBefore ==
    row.status = "none" =>
        /\ ~row.here /\ row.rev = 0 /\ row.exec = None
        /\ entries = {} /\ past = {} /\ \A p \in {"add", "sync"} : held[p] = None
        /\ \A e \in Execs : ~Triggered(e)

(* What holds of executions and outcomes, and of triggers.                 *)
RunInv  == OneAtATime /\ OutcomeIsItsOwn /\ AtWorkIsListed /\ NamedHasStarted
PlanInv == OneShotOnce /\ NothingIsNewer /\ KindsAgree /\ DatesComeOnce /\ EnabledIsKnown /\ NoneBefore

(* The inductive invariant.                                                *)
IInv == Typed /\ RunInv /\ PlanInv

-----------------------------------------------------------------------------
LEMMA TypedIsTypeOK == TypeOK <=> Typed
BY DEF TypeOK, Typed, RowType, EntryType, ExecType

(* A step that changes one execution: what it becomes, and the others.     *)
LEMMA ExecTypes ==
    ASSUME Typed, NEW e \in Execs
    PROVE  /\ exec[e] \in ExecType
           /\ \A r \in ExecType : exec' = [exec EXCEPT ![e] = r] =>
                 exec' \in [Execs -> ExecType] /\ exec'[e] = r /\ \A f \in Execs \ {e} : exec'[f] = exec[f]
BY DEF Typed

(* Moving an execution on changes its place alone.                         *)
LEMMA MovedTypes ==
    ASSUME Typed, NEW e \in Execs, NEW pc \in AtWork \cup {"none", "created", "waiting", "over"},
           Moved(e, pc)
    PROVE  /\ exec' \in [Execs -> ExecType] /\ \A f \in Execs \ {e} : exec'[f] = exec[f]
           /\ exec'[e].pc = pc /\ exec'[e].rev = exec[e].rev /\ exec'[e].manual = exec[e].manual
           /\ exec'[e].once = exec[e].once /\ exec'[e].outcome = exec[e].outcome
<1>1. exec[e] \in ExecType
  BY DEF Typed
<1>2. LET r == [exec[e] EXCEPT !.pc = pc]
      IN  /\ r \in ExecType /\ r.pc = pc /\ r.rev = exec[e].rev /\ r.manual = exec[e].manual
          /\ r.once = exec[e].once /\ r.outcome = exec[e].outcome
  BY <1>1 DEF ExecType
<1>3. QED
  BY <1>2, ExecTypes DEF Moved

(* The plan's part of the invariant is kept by a step that schedules and   *)
(* triggers nothing: it may end, switch off or delete, and admit an        *)
(* execution of the plan as it is.                                         *)
LEMMA PlanStays ==
    ASSUME Typed, PlanInv, UNCHANGED <<past, held>>,
           row'.rev = row.rev, row'.once = row.once, row'.here => row.here,
           row'.enabled => row.enabled,
           row'.status = "none" => row.status = "none" /\ row'.exec = row.exec,
           entries' \subseteq entries,
           phase' = "up" /\ row'.here => phase = "up" /\ entries' = entries,
           \A e \in Execs :
              /\ Triggered(e)' => Triggered(e) /\ exec'[e].rev = exec[e].rev
              /\ exec'[e].once => exec'[e].pc # "none"
              /\ exec'[e].once /\ ~exec'[e].manual =>
                    \/ exec[e].once /\ ~exec[e].manual
                    \/ row.once /\ exec[e].rev = row.rev
    PROVE  PlanInv'
<1>1. NothingIsNewer' /\ KindsAgree' /\ EnabledIsKnown' /\ NoneBefore'
  BY DEF Typed, PlanInv, NothingIsNewer, KindsAgree, EnabledIsKnown, NoneBefore
<1>2. DatesComeOnce'
  BY DEF Typed, PlanInv, DatesComeOnce
<1>3. ASSUME NEW e \in Execs, NEW f \in Execs, exec'[e].once, exec'[f].once,
             ~exec'[e].manual, ~exec'[f].manual, exec'[e].rev = exec'[f].rev
      PROVE  e = f
  <2>1. Triggered(e)' /\ Triggered(f)'
    BY <1>3 DEF Triggered
  <2>2. Triggered(e) /\ Triggered(f) /\ exec[e].rev = exec[f].rev
    BY <1>3, <2>1
  <2>3. CASE exec[e].once /\ exec[f].once
    BY <2>2, <2>3 DEF PlanInv, OneShotOnce, Triggered
  <2>4. CASE row.once /\ exec[e].rev = row.rev
    BY <2>2, <2>4 DEF PlanInv, DatesComeOnce
  <2>5. QED
    BY <1>3, <2>2, <2>3, <2>4
<1>4. OneShotOnce'
  BY <1>3 DEF OneShotOnce
<1>5. QED
  BY <1>1, <1>2, <1>4 DEF PlanInv

(* What the row shows stays right while its execution goes on, if the row  *)
(* stays as it is.                                                         *)
LEMMA OutcomeStays ==
    ASSUME OutcomeIsItsOwn, NamedHasStarted, UNCHANGED row,
           row.exec # None =>
              /\ exec'[row.exec].rev = exec[row.exec].rev
              /\ \/ /\ exec'[row.exec].pc = exec[row.exec].pc
                    /\ exec'[row.exec].outcome = exec[row.exec].outcome
                 \/ /\ exec[row.exec].pc = "body" /\ exec'[row.exec].pc = "settling"
                    /\ exec'[row.exec].outcome \in Outcomes
                 \/ /\ exec[row.exec].pc = "settling" /\ exec'[row.exec].pc = "over"
                    /\ exec'[row.exec].outcome = exec[row.exec].outcome
    PROVE  OutcomeIsItsOwn' /\ NamedHasStarted'
<1>1. CASE row.exec = None
  BY <1>1 DEF OutcomeIsItsOwn, NamedHasStarted
<1>2. CASE row.exec # None
  <2>1. row'.exec # None /\ row'.exec = row.exec /\ row'.status = row.status /\ row'.rev = row.rev
    BY <1>2
  <2>2. exec[row.exec].pc = "over" => exec'[row.exec].pc = "over"
                                      /\ exec'[row.exec].outcome = exec[row.exec].outcome
    BY <1>2
  <2>3. QED
    BY <1>2, <2>1, <2>2 DEF OutcomeIsItsOwn, NamedHasStarted
<1>3. QED
  BY <1>1, <1>2

-----------------------------------------------------------------------------
(* Executions.                                                             *)

(* An execution that has not reached its work, or leaves before it, changes *)
(* nothing that the row or another execution goes by.                      *)
LEMMA MovesKeep ==
    ASSUME IInv, NEW e \in Execs, Begin(e) \/ TurnedAway(e)
    PROVE  IInv'
<1>1. /\ exec[e].pc \in {"created", "waiting"}
      /\ UNCHANGED <<row, entries, past, tracked, held, running, missed, phase, stops>>
  BY DEF Begin, TurnedAway
<1>2. PICK pc \in {"waiting", "over"} : Moved(e, pc)
  BY DEF Begin, TurnedAway
<1>3. /\ exec' \in [Execs -> ExecType] /\ \A f \in Execs \ {e} : exec'[f] = exec[f]
      /\ exec'[e].pc = pc /\ exec'[e].rev = exec[e].rev /\ exec'[e].manual = exec[e].manual
      /\ exec'[e].once = exec[e].once /\ exec'[e].outcome = exec[e].outcome
  BY <1>2, MovedTypes DEF IInv
<1>4. Typed'
  BY <1>1, <1>3 DEF IInv, Typed
<1>5. RunInv'
  <2>1. OneAtATime' /\ AtWorkIsListed'
    BY <1>1, <1>3 DEF IInv, RunInv, OneAtATime, AtWorkIsListed, AtWork
  <2>2. row.exec # None => row.exec \in Execs \ {e}
    BY <1>1 DEF IInv, Typed, RowType, RunInv, NamedHasStarted
  <2>3. OutcomeIsItsOwn' /\ NamedHasStarted'
    BY <1>1, <1>3, <2>2, OutcomeStays DEF IInv, RunInv
  <2>4. QED
    BY <2>1, <2>3 DEF RunInv
<1>6. \A f \in Execs : /\ Triggered(f)' => Triggered(f) /\ exec'[f].rev = exec[f].rev
                       /\ exec'[f].once => exec'[f].pc # "none"
                       /\ exec'[f].once /\ ~exec'[f].manual => exec[f].once /\ ~exec[f].manual
  BY <1>1, <1>3 DEF IInv, PlanInv, DatesComeOnce, Triggered
<1>7. PlanInv'
  BY <1>1, <1>6, PlanStays DEF IInv
<1>8. QED
  BY <1>4, <1>5, <1>7 DEF IInv

(* A run by hand is no trigger.                                            *)
LEMMA RunNowKeeps ==
    ASSUME IInv, NEW e \in Execs, RunNow(e)
    PROVE  IInv'
<1>1. /\ exec[e].pc = "none"
      /\ UNCHANGED <<row, entries, past, tracked, held, running, missed, phase, stops>>
  BY DEF RunNow
<1>2. exec[e] \in ExecType
  BY DEF IInv, Typed
<1>3. LET r == [exec[e] EXCEPT !.pc = "waiting", !.manual = TRUE]
      IN  /\ r \in ExecType /\ r.pc = "waiting" /\ r.rev = exec[e].rev /\ r.manual
          /\ r.once = exec[e].once /\ r.outcome = exec[e].outcome
  BY <1>2 DEF ExecType
<1>4. /\ exec' \in [Execs -> ExecType] /\ \A f \in Execs \ {e} : exec'[f] = exec[f]
      /\ exec'[e].pc = "waiting" /\ exec'[e].rev = exec[e].rev /\ exec'[e].manual
      /\ exec'[e].once = exec[e].once /\ exec'[e].outcome = exec[e].outcome
  BY <1>3, ExecTypes DEF IInv, RunNow
<1>5. Typed'
  BY <1>1, <1>4 DEF IInv, Typed
<1>6. RunInv'
  <2>1. OneAtATime' /\ AtWorkIsListed'
    BY <1>1, <1>4 DEF IInv, RunInv, OneAtATime, AtWorkIsListed, AtWork
  <2>2. row.exec # None => row.exec \in Execs \ {e}
    BY <1>1 DEF IInv, Typed, RowType, RunInv, NamedHasStarted
  <2>3. OutcomeIsItsOwn' /\ NamedHasStarted'
    BY <1>1, <1>4, <2>2, OutcomeStays DEF IInv, RunInv
  <2>4. QED
    BY <2>1, <2>3 DEF RunInv
<1>7. \A f \in Execs : /\ Triggered(f)' => Triggered(f) /\ exec'[f].rev = exec[f].rev
                       /\ exec'[f].once => exec'[f].pc # "none"
                       /\ exec'[f].once /\ ~exec'[f].manual => exec[f].once /\ ~exec[f].manual
  BY <1>1, <1>4 DEF IInv, PlanInv, DatesComeOnce, Triggered
<1>8. PlanInv'
  BY <1>1, <1>7, PlanStays DEF IInv
<1>9. QED
  BY <1>5, <1>6, <1>8 DEF IInv

(* Nobody of the revision is at work when one is admitted.                 *)
LEMMA AdmitKeeps ==
    ASSUME IInv, NEW e \in Execs, Admit(e)
    PROVE  IInv'
<1>1. /\ exec[e].pc = "waiting" /\ row.rev \notin running /\ running' = running \cup {row.rev}
      /\ ~exec[e].manual => row.rev = exec[e].rev
      /\ UNCHANGED <<row, entries, past, tracked, held, missed, phase, stops>>
  BY DEF Admit, Refused
<1>2. exec[e] \in ExecType /\ row.rev \in Nat /\ row.once \in BOOLEAN
  BY DEF IInv, Typed, RowType
<1>3. LET r == [exec[e] EXCEPT !.pc = "admitted", !.rev = row.rev, !.once = row.once]
      IN  /\ r \in ExecType /\ r.pc = "admitted" /\ r.rev = row.rev
          /\ r.manual = exec[e].manual /\ r.once = row.once /\ r.outcome = exec[e].outcome
  BY <1>2 DEF ExecType, AtWork
<1>4. /\ exec' \in [Execs -> ExecType] /\ \A f \in Execs \ {e} : exec'[f] = exec[f]
      /\ exec'[e].pc = "admitted" /\ exec'[e].rev = row.rev /\ exec'[e].manual = exec[e].manual
      /\ exec'[e].once = row.once /\ exec'[e].outcome = exec[e].outcome
  BY <1>3, ExecTypes DEF IInv, Admit
<1>5. Typed'
  BY <1>1, <1>2, <1>4 DEF IInv, Typed
<1>6. RunInv'
  <2>1. OneAtATime' /\ AtWorkIsListed'
    BY <1>1, <1>4 DEF IInv, RunInv, OneAtATime, AtWorkIsListed, AtWork
  <2>2. row.exec # None => row.exec \in Execs \ {e}
    BY <1>1 DEF IInv, Typed, RowType, RunInv, NamedHasStarted
  <2>3. OutcomeIsItsOwn' /\ NamedHasStarted'
    BY <1>1, <1>4, <2>2, OutcomeStays DEF IInv, RunInv
  <2>4. QED
    BY <2>1, <2>3 DEF RunInv
<1>7. \A f \in Execs : /\ Triggered(f)' => Triggered(f) /\ exec'[f].rev = exec[f].rev
                       /\ exec'[f].once => exec'[f].pc # "none"
                       /\ exec'[f].once /\ ~exec'[f].manual =>
                             \/ exec[f].once /\ ~exec[f].manual
                             \/ row.once /\ exec[f].rev = row.rev
  BY <1>1, <1>4 DEF IInv, PlanInv, DatesComeOnce, Triggered
<1>8. PlanInv'
  BY <1>1, <1>7, PlanStays DEF IInv
<1>9. QED
  BY <1>5, <1>6, <1>8 DEF IInv

(* The row names the execution that starts, if it is of its revision.      *)
LEMMA StartKeeps ==
    ASSUME IInv, NEW e \in Execs, Start(e)
    PROVE  IInv'
<1>1. /\ exec[e].pc = "admitted"
      /\ UNCHANGED <<entries, past, tracked, held, running, missed, phase, stops>>
  BY DEF Start
<1>2. exec[e] \in ExecType /\ row \in RowType
  BY DEF IInv, Typed
<1>3. PICK o \in {exec[e].outcome, "superseded"}, pc \in {"body", "settling"} :
         /\ exec' \in [Execs -> ExecType] /\ \A f \in Execs \ {e} : exec'[f] = exec[f]
         /\ exec'[e].pc = pc /\ exec'[e].rev = exec[e].rev /\ exec'[e].manual = exec[e].manual
         /\ exec'[e].once = exec[e].once /\ exec'[e].outcome = o
  <2>1. CASE Moved(e, "body")
    BY <2>1, MovedTypes DEF IInv, AtWork
  <2>2. CASE exec' = [exec EXCEPT ![e] = [exec[e] EXCEPT !.pc = "settling", !.outcome = "superseded"]]
    <3>1. LET r == [exec[e] EXCEPT !.pc = "settling", !.outcome = "superseded"]
          IN  /\ r \in ExecType /\ r.pc = "settling" /\ r.rev = exec[e].rev
              /\ r.manual = exec[e].manual /\ r.once = exec[e].once /\ r.outcome = "superseded"
      BY <1>2 DEF ExecType, AtWork
    <3>2. QED
      BY <2>2, <3>1, ExecTypes DEF IInv
  <2>3. QED
    BY <2>1, <2>2 DEF Start
<1>4. \/ UNCHANGED row
      \/ /\ row' \in RowType /\ row'.exec = e /\ row'.status = "running" /\ row.rev = exec[e].rev
         /\ row'.rev = row.rev /\ row'.once = row.once /\ row'.here = row.here
         /\ row'.enabled = row.enabled /\ pc = "body"
  <2>1. CASE UNCHANGED row
    BY <2>1
  <2>2. CASE Current(e) /\ row' = [row EXCEPT !.status = "running", !.exec = e] /\ Moved(e, "body")
    BY <1>2, <1>3, <2>2, MovedTypes DEF IInv, AtWork, Current, RowType
  <2>3. QED
    BY <2>1, <2>2 DEF Start
<1>5. Typed'
  BY <1>1, <1>2, <1>3, <1>4 DEF IInv, Typed
<1>6. row.exec # e
  BY <1>1, NoneAssumption DEF IInv, RunInv, NamedHasStarted
<1>7. RunInv'
  <2>1. OneAtATime' /\ AtWorkIsListed'
    BY <1>1, <1>3 DEF IInv, Typed, RunInv, OneAtATime, AtWorkIsListed, AtWork
  <2>2. OutcomeIsItsOwn' /\ NamedHasStarted'
    <3>1. CASE UNCHANGED row
      <4>1. row.exec # None => row.exec \in Execs \ {e}
        BY <1>2, <1>6 DEF RowType
      <4>2. QED
        BY <1>3, <3>1, <4>1, OutcomeStays DEF IInv, RunInv
    <3>2. CASE row'.exec = e /\ row'.status = "running" /\ row.rev = exec[e].rev
               /\ row'.rev = row.rev /\ pc = "body"
      BY <1>3, <3>2 DEF OutcomeIsItsOwn, NamedHasStarted
    <3>3. QED
      BY <1>4, <3>1, <3>2
  <2>3. QED
    BY <2>1, <2>2 DEF RunInv
<1>8. \A f \in Execs : /\ Triggered(f)' => Triggered(f) /\ exec'[f].rev = exec[f].rev
                       /\ exec'[f].once => exec'[f].pc # "none"
                       /\ exec'[f].once /\ ~exec'[f].manual => exec[f].once /\ ~exec[f].manual
  BY <1>1, <1>3 DEF IInv, PlanInv, DatesComeOnce, Triggered
<1>9. PlanInv'
  BY <1>1, <1>4, <1>8, PlanStays DEF IInv
<1>10. QED
  BY <1>5, <1>7, <1>9 DEF IInv

(* Work that ends leaves the row as it is until the settlement.            *)
LEMMA BodyEndsKeeps ==
    ASSUME IInv, NEW e \in Execs, BodyEnds(e)
    PROVE  IInv'
<1>1. /\ exec[e].pc = "body"
      /\ UNCHANGED <<row, entries, past, tracked, held, running, missed, phase, stops>>
  BY DEF BodyEnds
<1>2. exec[e] \in ExecType /\ row \in RowType
  BY DEF IInv, Typed
<1>3. PICK o \in Outcomes :
         exec' = [exec EXCEPT ![e] = [exec[e] EXCEPT !.pc = "settling", !.outcome = o]]
  BY DEF BodyEnds
<1>4. LET r == [exec[e] EXCEPT !.pc = "settling", !.outcome = o]
      IN  /\ r \in ExecType /\ r.pc = "settling" /\ r.rev = exec[e].rev
          /\ r.manual = exec[e].manual /\ r.once = exec[e].once /\ r.outcome = o
  BY <1>2, <1>3 DEF ExecType, AtWork
<1>5. /\ exec' \in [Execs -> ExecType] /\ \A f \in Execs \ {e} : exec'[f] = exec[f]
      /\ exec'[e].pc = "settling" /\ exec'[e].rev = exec[e].rev /\ exec'[e].outcome = o
      /\ exec'[e].manual = exec[e].manual /\ exec'[e].once = exec[e].once
  BY <1>3, <1>4, ExecTypes DEF IInv
<1>6. Typed'
  BY <1>1, <1>5 DEF IInv, Typed
<1>7. RunInv'
  <2>1. OneAtATime' /\ AtWorkIsListed'
    BY <1>1, <1>5 DEF IInv, RunInv, OneAtATime, AtWorkIsListed, AtWork
  <2>2. row.exec # None => row.exec \in Execs
    BY <1>2 DEF RowType
  <2>3. OutcomeIsItsOwn' /\ NamedHasStarted'
    BY <1>1, <1>3, <1>4, <1>5, <2>2, OutcomeStays DEF IInv, RunInv
  <2>4. QED
    BY <2>1, <2>3 DEF RunInv
<1>8. \A f \in Execs : /\ Triggered(f)' => Triggered(f) /\ exec'[f].rev = exec[f].rev
                       /\ exec'[f].once => exec'[f].pc # "none"
                       /\ exec'[f].once /\ ~exec'[f].manual => exec[f].once /\ ~exec[f].manual
  BY <1>1, <1>5 DEF IInv, PlanInv, DatesComeOnce, Triggered
<1>9. PlanInv'
  BY <1>1, <1>8, PlanStays DEF IInv
<1>10. QED
  BY <1>6, <1>7, <1>9 DEF IInv

(* An execution writes into a row that names it, and is then over.         *)
LEMMA SettleKeeps ==
    ASSUME IInv, NEW e \in Execs, Settle(e) \/ SettlementCut(e)
    PROVE  IInv'
<1>1. /\ exec[e].pc = "settling" /\ running' = running \ {exec[e].rev} /\ Moved(e, "over")
      /\ UNCHANGED <<past, held, missed, phase, stops>>
  BY DEF Settle, SettlementCut
<1>2. exec[e] \in ExecType /\ row \in RowType
  BY DEF IInv, Typed
<1>3. /\ exec' \in [Execs -> ExecType] /\ \A f \in Execs \ {e} : exec'[f] = exec[f]
      /\ exec'[e].pc = "over" /\ exec'[e].rev = exec[e].rev /\ exec'[e].manual = exec[e].manual
      /\ exec'[e].once = exec[e].once /\ exec'[e].outcome = exec[e].outcome
  BY <1>1, MovedTypes DEF IInv
<1>4. /\ entries' \subseteq entries /\ tracked' \in Nat \cup {None}
      /\ row'.here => entries' = entries
      /\ \/ UNCHANGED row
         \/ /\ row' \in RowType /\ row.exec = e /\ row'.exec = e /\ row'.status = exec[e].outcome
            /\ row'.rev = row.rev /\ row'.once = row.once /\ (row'.here => row.here)
            /\ (row'.enabled => row.enabled)
  <2>1. Mine(e) => exec[e].outcome \in Outcomes
    <3>1. Mine(e) => row.exec = e /\ row.rev = exec[e].rev
      BY DEF Mine, Current
    <3>2. QED
      BY <1>1, <3>1, NoneAssumption DEF IInv, RunInv, NamedHasStarted
  <2>2. Mine(e) => row.exec = e /\ row.here
    BY DEF Mine, Current
  <2>3. ASSUME Mine(e)
        PROVE  /\ Settled(e) \in RowType /\ Settled(e).exec = row.exec
               /\ Settled(e).status = exec[e].outcome /\ Settled(e).rev = row.rev
               /\ Settled(e).once = row.once /\ Settled(e).here = row.here
               /\ Settled(e).enabled => row.enabled
    BY <1>2, <2>1, <2>3 DEF Settled, RowType
  <2>4. ASSUME Mine(e)
        PROVE  LET r == [Settled(e) EXCEPT !.here = FALSE]
               IN  /\ r \in RowType /\ r.exec = row.exec /\ r.status = exec[e].outcome
                   /\ r.rev = row.rev /\ r.once = row.once /\ ~r.here
                   /\ (r.enabled => row.enabled)
    BY <2>3, <2>4 DEF RowType
  <2>5. entries \in SUBSET EntryType /\ tracked \in Nat \cup {None}
    BY DEF IInv, Typed
  <2>6. CASE UNCHANGED <<row, entries, tracked>>
    BY <2>5, <2>6
  <2>7. CASE row' = Settled(e) /\ Mine(e) /\ UNCHANGED <<entries, tracked>>
    BY <2>2, <2>3, <2>5, <2>7
  <2>8. CASE row' = [Settled(e) EXCEPT !.here = FALSE] /\ Mine(e) /\ entries' = Others /\ tracked' = None
    BY <2>2, <2>4, <2>5, <2>8 DEF Others
  <2>9. CASE Settle(e)
    <3>1. CASE Mine(e) /\ exec[e].once /\ ~exec[e].manual /\ exec[e].outcome = "completed"
      BY <2>8, <2>9, <3>1 DEF Settle
    <3>2. CASE ~(Mine(e) /\ exec[e].once /\ ~exec[e].manual /\ exec[e].outcome = "completed")
      BY <2>6, <2>7, <2>9, <3>2 DEF Settle
    <3>3. QED
      BY <3>1, <3>2
  <2>10. CASE SettlementCut(e)
    BY <2>6, <2>7, <2>10 DEF SettlementCut
  <2>11. QED
    BY <2>9, <2>10
<1>5. Typed'
  BY <1>1, <1>3, <1>4 DEF IInv, Typed, EntryType
<1>6. RunInv'
  <2>1. OneAtATime' /\ AtWorkIsListed'
    BY <1>1, <1>3 DEF IInv, RunInv, OneAtATime, AtWorkIsListed, AtWork
  <2>2. CASE UNCHANGED row
    <3>1. row.exec # None => row.exec \in Execs
      BY <1>2 DEF RowType
    <3>2. OutcomeIsItsOwn' /\ NamedHasStarted'
      BY <1>1, <1>3, <2>2, <3>1, OutcomeStays DEF IInv, RunInv
    <3>3. QED
      BY <2>1, <3>2 DEF RunInv
  <2>3. CASE row.exec = e /\ row'.exec = e /\ row'.status = exec[e].outcome /\ row'.rev = row.rev
    <3>1. exec[e].outcome \in Outcomes /\ exec[e].rev = row.rev /\ e # None
      BY <1>1, <2>3, NoneAssumption DEF IInv, RunInv, OutcomeIsItsOwn, NamedHasStarted
    <3>2. OutcomeIsItsOwn' /\ NamedHasStarted'
      BY <1>3, <2>3, <3>1 DEF OutcomeIsItsOwn, NamedHasStarted
    <3>3. QED
      BY <2>1, <3>2 DEF RunInv
  <2>4. QED
    BY <1>4, <2>2, <2>3
<1>7. \A f \in Execs : /\ Triggered(f)' => Triggered(f) /\ exec'[f].rev = exec[f].rev
                       /\ exec'[f].once => exec'[f].pc # "none"
                       /\ exec'[f].once /\ ~exec'[f].manual => exec[f].once /\ ~exec[f].manual
  BY <1>1, <1>3 DEF IInv, PlanInv, DatesComeOnce, Triggered
<1>8. row'.status = "none" => row.status = "none" /\ row'.exec = row.exec
  <2>1. row.exec = e => exec[e].outcome \in Outcomes
    BY <1>1, NoneAssumption DEF IInv, RunInv, NamedHasStarted
  <2>2. QED
    BY <1>4, <2>1 DEF Outcomes
<1>9. PlanInv'
  <2>1. /\ row'.rev = row.rev /\ row'.once = row.once /\ (row'.here => row.here)
        /\ (row'.enabled => row.enabled)
        /\ phase' = "up" /\ row'.here => phase = "up" /\ entries' = entries
        /\ entries' \subseteq entries /\ past' = past /\ held' = held
    BY <1>1, <1>4
  <2>2. QED
    BY <1>7, <1>8, <2>1, PlanStays DEF IInv
<1>10. QED
  BY <1>5, <1>6, <1>9 DEF IInv

(* A trigger gives an execution the revision of its entry, which has not   *)
(* been triggered if it is for one date.                                   *)
LEMMA FireKeeps ==
    ASSUME IInv, NEW n \in entries, NEW e \in Execs, Fire(e, n)
    PROVE  IInv'
<1>1. /\ exec[e].pc = "none" /\ Fired(n)
      /\ exec' = [exec EXCEPT ![e] = [exec[e] EXCEPT !.pc = "created", !.rev = n.rev]]
      /\ UNCHANGED <<row, tracked, held, running, missed, phase, stops>>
  BY DEF Fire
<1>2. exec[e] \in ExecType /\ row \in RowType /\ n \in EntryType /\ n.rev \in Nat
  BY DEF IInv, Typed, EntryType
<1>3. LET r == [exec[e] EXCEPT !.pc = "created", !.rev = n.rev]
      IN  /\ r \in ExecType /\ r.pc = "created" /\ r.rev = n.rev
          /\ r.manual = exec[e].manual /\ r.once = exec[e].once /\ r.outcome = exec[e].outcome
  BY <1>2 DEF ExecType
<1>4. /\ exec' \in [Execs -> ExecType] /\ \A f \in Execs \ {e} : exec'[f] = exec[f]
      /\ exec'[e].pc = "created" /\ exec'[e].rev = n.rev /\ exec'[e].manual = exec[e].manual
      /\ exec'[e].once = exec[e].once
  BY <1>1, <1>3, ExecTypes DEF IInv
<1>5. /\ entries' \subseteq entries /\ past \subseteq past' /\ past' \subseteq past \cup {n.rev}
      /\ n.once => entries' = entries \ {n} /\ n.rev \in past'
      /\ ~n.once => entries' = entries /\ past' = past
  BY <1>1 DEF Fired
<1>6. Typed'
  BY <1>1, <1>2, <1>4, <1>5 DEF IInv, Typed
<1>7. RunInv'
  <2>1. OneAtATime' /\ AtWorkIsListed'
    BY <1>1, <1>4 DEF IInv, RunInv, OneAtATime, AtWorkIsListed, AtWork
  <2>2. row.exec # None => row.exec \in Execs \ {e}
    BY <1>1, <1>2 DEF IInv, RowType, RunInv, NamedHasStarted
  <2>3. OutcomeIsItsOwn' /\ NamedHasStarted'
    BY <1>1, <1>4, <2>2, OutcomeStays DEF IInv, RunInv
  <2>4. QED
    BY <2>1, <2>3 DEF RunInv
<1>8. ~exec'[e].once
  BY <1>1, <1>4 DEF IInv, PlanInv, DatesComeOnce
<1>9. \A f \in Execs : Triggered(f)' => f = e \/ (Triggered(f) /\ exec'[f].rev = exec[f].rev)
  BY <1>4 DEF Triggered
<1>10. NothingIsNewer' /\ KindsAgree'
  BY <1>1, <1>4, <1>5, <1>9 DEF IInv, PlanInv, NothingIsNewer, KindsAgree
<1>11. OneShotOnce'
  BY <1>4, <1>8 DEF IInv, PlanInv, OneShotOnce
<1>12. row.once /\ n.rev = row.rev => n.once /\ n.rev \notin past /\ row.rev \in past'
  BY <1>5 DEF IInv, PlanInv, KindsAgree, DatesComeOnce
<1>13. DatesComeOnce'
  <2>1. ASSUME NEW m \in entries', m.once PROVE m.rev \notin past'
    <3>1. CASE n.once
      <4>1. m \in EntryType /\ m \in entries /\ m # n
        BY <1>5, <3>1 DEF IInv, Typed
      <4>2. m.rev # n.rev
        BY <1>2, <2>1, <3>1, <4>1 DEF EntryType
      <4>3. QED
        BY <1>5, <2>1, <4>1, <4>2 DEF IInv, PlanInv, DatesComeOnce
    <3>2. CASE ~n.once
      BY <1>5, <2>1, <3>2 DEF IInv, PlanInv, DatesComeOnce
    <3>3. QED
      BY <3>1, <3>2
  <2>2. \A f \in Execs : row.once /\ Triggered(f)' /\ exec'[f].rev = row.rev => row.rev \in past'
    BY <1>4, <1>5, <1>9, <1>12 DEF IInv, PlanInv, DatesComeOnce
  <2>3. \A f \in Execs : row.once /\ Triggered(f)' /\ exec'[f].rev = row.rev /\ f # e
                         => Triggered(f) /\ exec[f].rev = row.rev /\ row.rev \in past
    BY <1>9 DEF IInv, PlanInv, DatesComeOnce
  <2>4. ASSUME NEW f \in Execs, NEW g \in Execs, row.once, Triggered(f)', Triggered(g)',
               exec'[f].rev = row.rev, exec'[g].rev = row.rev
        PROVE  f = g
    <3>1. CASE f = e \/ g = e
      BY <1>4, <1>12, <2>3, <2>4, <3>1
    <3>2. CASE f # e /\ g # e
      BY <2>3, <2>4, <3>2 DEF IInv, PlanInv, DatesComeOnce
    <3>3. QED
      BY <3>1, <3>2
  <2>5. \A f \in Execs : exec'[f].once => exec'[f].pc # "none"
    BY <1>4 DEF IInv, PlanInv, DatesComeOnce
  <2>6. QED
    BY <1>1, <2>1, <2>2, <2>4, <2>5 DEF DatesComeOnce
<1>14. EnabledIsKnown'
  <2>1. \A r \in Nat : [rev |-> r, once |-> FALSE] \in entries => [rev |-> r, once |-> FALSE] \in entries'
    BY <1>5
  <2>2. row.rev \in Nat
    BY <1>2 DEF RowType
  <2>3. QED
    BY <1>1, <2>1, <2>2 DEF IInv, PlanInv, EnabledIsKnown
<1>15. NoneBefore'
  BY <1>1 DEF IInv, PlanInv, NoneBefore
<1>16. PlanInv'
  BY <1>10, <1>11, <1>13, <1>14, <1>15 DEF PlanInv
<1>17. QED
  BY <1>6, <1>7, <1>16 DEF IInv

-----------------------------------------------------------------------------
(* The row, the scheduler and the manager.                                 *)

(* A step of nobody's execution keeps the outcome in the row, or marks it  *)
(* failed or missed.                                                       *)
LEMMA RunStays ==
    ASSUME Typed, RunInv, UNCHANGED <<exec, running>>, row'.rev = row.rev, row'.exec = row.exec,
           row'.status \in {row.status, "failed", "missed"}
    PROVE  RunInv'
BY DEF Typed, RowType, RunInv, OneAtATime, OutcomeIsItsOwn, AtWorkIsListed, NamedHasStarted

(* A new plan, which no execution has written into.                        *)
LEMMA RunRestarts ==
    ASSUME RunInv, UNCHANGED <<exec, running>>, row'.exec = None,
           row'.status \in {"scheduled", "failed"}
    PROVE  RunInv'
BY DEF RunInv, OneAtATime, OutcomeIsItsOwn, AtWorkIsListed, NamedHasStarted

(* What is left of the past when an entry is missed.                       *)
LEMMA MissKeeps ==
    ASSUME IInv, NEW n \in entries, Miss(n)
    PROVE  IInv'
<1>1. Fired(n) /\ missed' = missed \cup {n.rev}
      /\ UNCHANGED <<row, tracked, held, exec, running, phase, stops>>
  BY DEF Miss
<1>2. row \in RowType /\ n \in EntryType /\ n.rev \in Nat
  BY DEF IInv, Typed, EntryType
<1>3. /\ entries' \subseteq entries /\ past \subseteq past' /\ past' \subseteq past \cup {n.rev}
      /\ n.once => entries' = entries \ {n}
      /\ ~n.once => entries' = entries /\ past' = past
  BY <1>1 DEF Fired
<1>4. Typed'
  BY <1>1, <1>2, <1>3 DEF IInv, Typed
<1>5. RunInv'
  BY <1>1, RunStays DEF IInv
<1>6. NothingIsNewer' /\ KindsAgree' /\ OneShotOnce' /\ NoneBefore'
  BY <1>1, <1>3 DEF IInv, PlanInv, NothingIsNewer, KindsAgree, OneShotOnce, NoneBefore, Triggered
<1>7. DatesComeOnce'
  <2>1. ASSUME NEW m \in entries', m.once PROVE m.rev \notin past'
    <3>1. CASE n.once
      <4>1. m \in EntryType /\ m \in entries /\ m # n
        BY <1>3, <3>1 DEF IInv, Typed
      <4>2. m.rev # n.rev
        BY <1>2, <2>1, <3>1, <4>1 DEF EntryType
      <4>3. QED
        BY <1>3, <2>1, <4>1, <4>2 DEF IInv, PlanInv, DatesComeOnce
    <3>2. CASE ~n.once
      BY <1>3, <2>1, <3>2 DEF IInv, PlanInv, DatesComeOnce
    <3>3. QED
      BY <3>1, <3>2
  <2>2. QED
    BY <1>1, <1>3, <2>1 DEF IInv, PlanInv, DatesComeOnce, Triggered
<1>8. EnabledIsKnown'
  <2>1. \A r \in Nat : [rev |-> r, once |-> FALSE] \in entries => [rev |-> r, once |-> FALSE] \in entries'
    BY <1>3
  <2>2. row.rev \in Nat
    BY <1>2 DEF RowType
  <2>3. QED
    BY <1>1, <2>1, <2>2 DEF IInv, PlanInv, EnabledIsKnown
<1>9. QED
  BY <1>4, <1>5, <1>6, <1>7, <1>8 DEF IInv, PlanInv

(* The row as it was read: it is of the plan's kind if it is of its        *)
(* revision, and a date that has come is not scheduled.                    *)
LEMMA ScheduleHeldKeeps ==
    ASSUME IInv, NEW p \in {"add", "sync"}, ScheduleHeld(p)
    PROVE  IInv'
<1>1. /\ held[p] # None /\ held' = [held EXCEPT ![p] = None]
      /\ UNCHANGED <<past, exec, running, missed, phase, stops>>
  BY DEF ScheduleHeld
<1>2. row \in RowType /\ held[p] \in EntryType /\ held[p].rev \in Nat
  BY <1>1 DEF IInv, Typed, EntryType
<1>3. /\ held' \in [{"add", "sync"} -> EntryType \cup {None}] /\ held'[p] = None
      /\ \A q \in {"add", "sync"} \ {p} : held'[q] = held[q]
  BY <1>1 DEF IInv, Typed
<1>4. \/ Closing /\ UNCHANGED <<row, entries, tracked>>
      \/ ~Closing /\ Schedulable(held[p]) /\ entries' = entries \cup {held[p]}
         /\ tracked' = held[p].rev /\ UNCHANGED row
      \/ /\ row' = IF row.here THEN [row EXCEPT !.enabled = FALSE, !.status = "failed"] ELSE row
         /\ UNCHANGED <<entries, tracked>>
  BY DEF ScheduleHeld
<1>5. LET off == [row EXCEPT !.enabled = FALSE, !.status = "failed"]
      IN  /\ off \in RowType /\ off.rev = row.rev /\ off.once = row.once /\ off.exec = row.exec
          /\ off.here = row.here /\ ~off.enabled /\ off.status = "failed"
  BY <1>2 DEF RowType, Outcomes
<1>6. /\ row' \in RowType /\ row'.rev = row.rev /\ row'.once = row.once /\ row'.exec = row.exec
      /\ row'.here = row.here /\ row'.status \in {row.status, "failed"}
      /\ UNCHANGED row \/ (row.here /\ ~row'.enabled)
      /\ \/ UNCHANGED <<entries, tracked>> /\ (Closing \/ ~row.here \/ ~row'.enabled)
         \/ Schedulable(held[p]) /\ entries' = entries \cup {held[p]} /\ tracked' = held[p].rev
  <2>1. CASE UNCHANGED row
    BY <1>2, <1>4, <1>5, <2>1
  <2>2. CASE row' = [row EXCEPT !.enabled = FALSE, !.status = "failed"] /\ row.here
             /\ UNCHANGED <<entries, tracked>>
    BY <1>5, <2>2
  <2>3. QED
    BY <1>4, <2>1, <2>2
<1>7. Typed'
  BY <1>1, <1>2, <1>3, <1>6 DEF IInv, Typed
<1>8. RunInv'
  BY <1>1, <1>6, RunStays DEF IInv
<1>9. NothingIsNewer' /\ KindsAgree'
  BY <1>1, <1>3, <1>6 DEF IInv, PlanInv, NothingIsNewer, KindsAgree, Triggered
<1>10. OneShotOnce' /\ DatesComeOnce'
  BY <1>1, <1>6 DEF IInv, PlanInv, OneShotOnce, DatesComeOnce, Triggered, Schedulable
<1>11. NoneBefore'
  BY <1>1, <1>6 DEF IInv, PlanInv, NoneBefore
<1>12. EnabledIsKnown'
  <2>1. SUFFICES ASSUME phase' = "up", row'.here, row'.enabled, ~row'.once
                 PROVE  \/ [rev |-> row'.rev, once |-> FALSE] \in entries'
                        \/ \E q \in {"add", "sync"} : held'[q] # None /\ held'[q].rev = row'.rev
    BY DEF EnabledIsKnown
  <2>2. UNCHANGED row /\ phase = "up" /\ row.here /\ row.enabled /\ ~row.once /\ entries \subseteq entries'
    BY <1>1, <1>6, <2>1
  <2>3. CASE [rev |-> row.rev, once |-> FALSE] \in entries
    BY <2>2, <2>3
  <2>4. CASE \E q \in {"add", "sync"} \ {p} : held[q] # None /\ held[q].rev = row.rev
    BY <1>3, <2>2, <2>4
  <2>5. CASE held[p].rev = row.rev
    <3>1. ~held[p].once
      BY <1>1, <2>2, <2>5 DEF IInv, PlanInv, KindsAgree
    <3>2. held[p] = [rev |-> row.rev, once |-> FALSE]
      BY <1>2, <2>5, <3>1 DEF EntryType
    <3>3. held[p] \in entries'
      BY <1>1, <1>6, <2>1, <2>2 DEF Closing
    <3>4. QED
      BY <2>2, <3>2, <3>3
  <2>6. QED
    BY <2>2, <2>3, <2>4, <2>5 DEF IInv, PlanInv, EnabledIsKnown
<1>13. QED
  BY <1>7, <1>8, <1>9, <1>10, <1>11, <1>12 DEF IInv, PlanInv

(* The first plan.                                                         *)
LEMMA AddKeeps ==
    ASSUME IInv, NEW enabled \in BOOLEAN, NEW once \in BOOLEAN, Add(enabled, once)
    PROVE  IInv'
<1>1. /\ row.status = "none" /\ row' = [here |-> TRUE, enabled |-> enabled, once |-> once, rev |-> 0,
                                        status |-> "scheduled", exec |-> None]
      /\ held' = [held EXCEPT !["add"] = IF enabled THEN [rev |-> 0, once |-> once] ELSE None]
      /\ UNCHANGED <<entries, past, tracked, exec, running, missed, phase, stops>>
  BY DEF Add
<1>2. row' \in RowType
  BY <1>1 DEF RowType
<1>3. /\ held' \in [{"add", "sync"} -> EntryType \cup {None}]
      /\ enabled => held'["add"] = [rev |-> 0, once |-> once]
      /\ ~enabled => held'["add"] = None
      /\ held'["sync"] = held["sync"]
  BY <1>1 DEF IInv, Typed, EntryType
<1>4. Typed'
  BY <1>1, <1>2, <1>3 DEF IInv, Typed
<1>5. RunInv'
  BY <1>1, RunRestarts DEF IInv
<1>6. /\ entries = {} /\ past = {} /\ held["sync"] = None /\ \A e \in Execs : ~Triggered(e)
  BY <1>1 DEF IInv, PlanInv, NoneBefore
<1>7. [rev |-> 0, once |-> once] # None
  BY NoneAssumption
<1>8. /\ row'.here /\ row'.rev = 0 /\ row'.once = once /\ row'.enabled = enabled
      /\ row'.status = "scheduled"
  BY <1>1
<1>9. NothingIsNewer' /\ KindsAgree' /\ NoneBefore'
  BY <1>1, <1>3, <1>6, <1>8 DEF NothingIsNewer, KindsAgree, NoneBefore, Triggered
<1>10. DatesComeOnce' /\ OneShotOnce'
  BY <1>1, <1>6 DEF IInv, PlanInv, DatesComeOnce, OneShotOnce, Triggered
<1>11. EnabledIsKnown'
  BY <1>3, <1>7, <1>8 DEF EnabledIsKnown
<1>12. QED
  BY <1>4, <1>5, <1>9, <1>10, <1>11 DEF IInv, PlanInv

(* A new revision: what is scheduled of an older one is not of its kind's  *)
(* concern, and its date has not come.                                     *)
LEMMA UpdateKeeps ==
    ASSUME IInv, NEW enabled \in BOOLEAN, NEW once \in BOOLEAN, NEW ok \in BOOLEAN,
           Update(enabled, once, ok)
    PROVE  IInv'
<1>1. /\ row' = Rescheduled(enabled, once, ok)
      /\ UNCHANGED <<past, held, exec, running, missed, phase, stops>>
  BY DEF Update
<1>2. row \in RowType /\ row.rev \in Nat
  BY DEF IInv, Typed, RowType
<1>3. /\ row' \in RowType /\ row'.rev = row.rev + 1 /\ row'.once = once /\ row'.exec = None
      /\ (row'.enabled => enabled /\ ok) /\ row'.status \in {"scheduled", "failed"}
  <2>1. PICK s \in {"scheduled", "failed"} :
           row' = [row EXCEPT !.enabled = enabled /\ ok, !.once = once, !.rev = row.rev + 1,
                              !.status = s, !.exec = None]
    BY <1>1 DEF Rescheduled
  <2>2. PICK on \in BOOLEAN : on = (enabled /\ ok)
    OBVIOUS
  <2>3. row' = [row EXCEPT !.enabled = on, !.once = once, !.rev = row.rev + 1,
                           !.status = s, !.exec = None]
    BY <2>1, <2>2
  <2>4. row.rev + 1 \in Nat
    BY <1>2
  <2>5. /\ row' \in RowType /\ row'.rev = row.rev + 1 /\ row'.once = once /\ row'.exec = None
        /\ row'.enabled = on /\ row'.status = s
    BY <1>2, <2>3, <2>4 DEF RowType, Outcomes
  <2>6. QED
    BY <2>2, <2>5
<1>4. /\ entries' \subseteq entries \cup {[rev |-> row.rev + 1, once |-> once]}
      /\ enabled /\ ok => [rev |-> row.rev + 1, once |-> once] \in entries'
      /\ tracked' \in {row.rev + 1, None}
  BY <1>3 DEF Update, Others
<1>5. entries' \in SUBSET EntryType /\ tracked' \in Nat \cup {None}
  BY <1>2, <1>4 DEF IInv, Typed, EntryType
<1>6. Typed'
  BY <1>1, <1>3, <1>5 DEF IInv, Typed
<1>7. RunInv'
  BY <1>1, <1>3, RunRestarts DEF IInv
<1>8. /\ \A n \in entries : n.rev \in Nat /\ n.rev <= row.rev
      /\ \A r \in past : r \in Nat /\ r <= row.rev
      /\ \A p \in {"add", "sync"} : held[p] # None => held[p].rev \in Nat /\ held[p].rev <= row.rev
      /\ \A e \in Execs : Triggered(e) => exec[e].rev \in Nat /\ exec[e].rev <= row.rev
  BY DEF IInv, Typed, EntryType, ExecType, PlanInv, NothingIsNewer
<1>9. NothingIsNewer' /\ KindsAgree'
  BY <1>1, <1>2, <1>3, <1>4, <1>8 DEF NothingIsNewer, KindsAgree, Triggered
<1>10. DatesComeOnce'
  BY <1>1, <1>2, <1>3, <1>4, <1>8 DEF IInv, PlanInv, DatesComeOnce, Triggered
<1>11. OneShotOnce' /\ NoneBefore'
  BY <1>1, <1>3 DEF IInv, PlanInv, OneShotOnce, NoneBefore
<1>12. EnabledIsKnown'
  BY <1>3, <1>4 DEF EnabledIsKnown
<1>13. QED
  BY <1>6, <1>7, <1>9, <1>10, <1>11, <1>12 DEF IInv, PlanInv

(* A plan that is deleted, or marked as missed.                            *)
LEMMA DeleteKeeps ==
    ASSUME IInv, Delete
    PROVE  IInv'
<1>1. /\ row' = [row EXCEPT !.here = FALSE] /\ entries' = Others /\ tracked' = None
      /\ UNCHANGED <<past, held, exec, running, missed, phase, stops>>
  BY DEF Delete
<1>2. row \in RowType
  BY DEF IInv, Typed
<1>3. /\ row' \in RowType /\ ~row'.here /\ row'.rev = row.rev /\ row'.once = row.once
      /\ row'.exec = row.exec /\ row'.status = row.status /\ (row'.enabled => row.enabled)
  BY <1>1, <1>2 DEF RowType
<1>4. entries' \subseteq entries
  BY <1>1 DEF Others
<1>5. Typed'
  BY <1>1, <1>3, <1>4 DEF IInv, Typed
<1>6. RunInv'
  BY <1>1, <1>3, RunStays DEF IInv
<1>7. \A f \in Execs : /\ Triggered(f)' => Triggered(f) /\ exec'[f].rev = exec[f].rev
                       /\ exec'[f].once => exec'[f].pc # "none"
                       /\ exec'[f].once /\ ~exec'[f].manual => exec[f].once /\ ~exec[f].manual
  BY <1>1 DEF IInv, PlanInv, DatesComeOnce, Triggered
<1>8. PlanInv'
  BY <1>1, <1>3, <1>4, <1>7, PlanStays DEF IInv
<1>9. QED
  BY <1>5, <1>6, <1>8 DEF IInv

LEMMA RecordKeeps ==
    ASSUME IInv, NEW r \in missed, Record(r)
    PROVE  IInv'
<1>1. /\ missed' = missed \ {r}
      /\ UNCHANGED <<entries, past, tracked, held, exec, running, phase, stops>>
  BY DEF Record
<1>2. row \in RowType
  BY DEF IInv, Typed
<1>3. /\ row' \in RowType /\ row'.here = row.here /\ row'.rev = row.rev /\ row'.once = row.once
      /\ row'.exec = row.exec /\ (row'.enabled => row.enabled)
      /\ UNCHANGED row \/ row'.status = "missed"
  <2>1. CASE UNCHANGED row
    BY <1>2, <2>1
  <2>2. CASE row' = [row EXCEPT !.status = "missed", !.enabled = row.enabled /\ ~row.once]
    <3>1. PICK on \in BOOLEAN : on = (row.enabled /\ ~row.once)
      OBVIOUS
    <3>2. row' = [row EXCEPT !.status = "missed", !.enabled = on]
      BY <2>2, <3>1
    <3>3. /\ row' \in RowType /\ row'.here = row.here /\ row'.rev = row.rev
          /\ row'.once = row.once /\ row'.exec = row.exec /\ row'.enabled = on
          /\ row'.status = "missed"
      BY <1>2, <3>2 DEF RowType
    <3>4. QED
      BY <3>1, <3>3
  <2>3. QED
    BY <2>1, <2>2 DEF Record
<1>4. row'.status \in {row.status, "missed"} /\ (row'.status = "none" => row.status = "none")
  BY <1>3
<1>5. Typed'
  BY <1>1, <1>3 DEF IInv, Typed
<1>6. RunInv'
  BY <1>1, <1>3, <1>4, RunStays DEF IInv
<1>7. \A f \in Execs : /\ Triggered(f)' => Triggered(f) /\ exec'[f].rev = exec[f].rev
                       /\ exec'[f].once => exec'[f].pc # "none"
                       /\ exec'[f].once /\ ~exec'[f].manual => exec[f].once /\ ~exec[f].manual
  BY <1>1 DEF IInv, PlanInv, DatesComeOnce, Triggered
<1>8. PlanInv'
  BY <1>1, <1>3, <1>4, <1>7, PlanStays DEF IInv
<1>9. QED
  BY <1>5, <1>6, <1>8 DEF IInv

(* Who is cancelled is at work only if it was.                             *)
LEMMA CancelledType ==
    ASSUME NEW x \in ExecType
    PROVE  /\ Cancelled(x) \in ExecType /\ Cancelled(x).rev = x.rev
           /\ Cancelled(x).manual = x.manual /\ Cancelled(x).once = x.once
           /\ Cancelled(x).pc \in AtWork => x.pc \in AtWork
           /\ Cancelled(x).pc = "none" <=> x.pc = "none"
           /\ x.pc = "body" => Cancelled(x).pc = "settling" /\ Cancelled(x).outcome = "cancelled"
           /\ x.pc \in {"settling", "over"} =>
                 Cancelled(x).pc = x.pc /\ Cancelled(x).outcome = x.outcome
<1>1. CASE x.pc \in {"created", "waiting"}
  BY <1>1 DEF Cancelled, ExecType, AtWork, Outcomes
<1>2. CASE x.pc \in {"admitted", "body"}
  BY <1>2 DEF Cancelled, ExecType, AtWork, Outcomes
<1>3. CASE x.pc = "settling"
  BY <1>3 DEF Cancelled, ExecType, AtWork, Outcomes
<1>4. CASE x.pc \in {"none", "over"}
  BY <1>4 DEF Cancelled, AtWork
<1>5. QED
  BY <1>1, <1>2, <1>3, <1>4 DEF ExecType, AtWork

LEMMA ShutdownKeeps ==
    ASSUME IInv, Shutdown
    PROVE  IInv'
<1>1. /\ phase' = "closing" /\ stops' = stops + 1 /\ entries' = {}
      /\ exec' = [e \in Execs |-> Cancelled(exec[e])]
      /\ UNCHANGED <<past, row, tracked, held, running, missed>>
  BY DEF Shutdown
<1>2. \A e \in Execs :
         /\ exec'[e] \in ExecType /\ exec'[e].rev = exec[e].rev
         /\ exec'[e].manual = exec[e].manual /\ exec'[e].once = exec[e].once
         /\ exec'[e].pc \in AtWork => exec[e].pc \in AtWork
         /\ exec'[e].pc = "none" <=> exec[e].pc = "none"
         /\ exec[e].pc = "body" => exec'[e].pc = "settling" /\ exec'[e].outcome = "cancelled"
         /\ exec[e].pc \in {"settling", "over"} =>
               exec'[e].pc = exec[e].pc /\ exec'[e].outcome = exec[e].outcome
  BY <1>1, CancelledType DEF IInv, Typed
<1>3. stops' \in Nat /\ exec' \in [Execs -> ExecType]
  BY <1>1, <1>2 DEF IInv, Typed
<1>4. Typed'
  BY <1>1, <1>3 DEF IInv, Typed
<1>5. RunInv'
  <2>1. OneAtATime' /\ AtWorkIsListed'
    BY <1>1, <1>2 DEF IInv, RunInv, OneAtATime, AtWorkIsListed
  <2>2. row.exec # None => row.exec \in Execs /\ exec[row.exec].pc \in {"body", "settling", "over"}
    BY DEF IInv, Typed, RowType, RunInv, NamedHasStarted
  <2>3. "cancelled" \in Outcomes
    BY DEF Outcomes
  <2>4. row.exec # None =>
           /\ exec'[row.exec].rev = exec[row.exec].rev
           /\ \/ /\ exec'[row.exec].pc = exec[row.exec].pc
                 /\ exec'[row.exec].outcome = exec[row.exec].outcome
              \/ /\ exec[row.exec].pc = "body" /\ exec'[row.exec].pc = "settling"
                 /\ exec'[row.exec].outcome \in Outcomes
    BY <1>2, <2>2, <2>3
  <2>5. OutcomeIsItsOwn' /\ NamedHasStarted'
    BY <1>1, <2>4, OutcomeStays DEF IInv, RunInv
  <2>6. QED
    BY <2>1, <2>5 DEF RunInv
<1>6. \A f \in Execs : /\ Triggered(f)' => Triggered(f) /\ exec'[f].rev = exec[f].rev
                       /\ exec'[f].once => exec'[f].pc # "none"
                       /\ exec'[f].once /\ ~exec'[f].manual => exec[f].once /\ ~exec[f].manual
  BY <1>2 DEF IInv, PlanInv, DatesComeOnce, Triggered
<1>7. PlanInv'
  BY <1>1, <1>6, PlanStays DEF IInv
<1>8. QED
  BY <1>4, <1>5, <1>7 DEF IInv

LEMMA ShutdownEndsKeeps ==
    ASSUME IInv, ShutdownEnds
    PROVE  IInv'
<1>1. /\ phase' \in {"closed", "stuck"}
      /\ UNCHANGED <<row, entries, past, tracked, held, exec, running, missed, stops>>
  BY DEF ShutdownEnds
<1>2. Typed'
  BY <1>1 DEF IInv, Typed
<1>3. RunInv'
  BY <1>1, RunStays DEF IInv
<1>4. \A f \in Execs : /\ Triggered(f)' => Triggered(f) /\ exec'[f].rev = exec[f].rev
                       /\ exec'[f].once => exec'[f].pc # "none"
                       /\ exec'[f].once /\ ~exec'[f].manual => exec[f].once /\ ~exec[f].manual
  BY <1>1 DEF IInv, PlanInv, DatesComeOnce, Triggered
<1>5. PlanInv'
  BY <1>1, <1>4, PlanStays DEF IInv
<1>6. QED
  BY <1>2, <1>3, <1>5 DEF IInv

(* The row that a start lists is the plan as it is.                        *)
LEMMA RestartKeeps ==
    ASSUME IInv, Restart
    PROVE  IInv'
<1>1. /\ phase' = "up" /\ held["sync"] = None
      /\ held' = [held EXCEPT !["sync"] = IF row.here /\ row.enabled
                                          THEN [rev |-> row.rev, once |-> row.once] ELSE None]
      /\ UNCHANGED <<row, entries, past, tracked, exec, running, missed, stops>>
  BY DEF Restart
<1>2. row \in RowType /\ row.rev \in Nat /\ row.once \in BOOLEAN
  BY DEF IInv, Typed, RowType
<1>3. [rev |-> row.rev, once |-> row.once] \in EntryType /\ [rev |-> row.rev, once |-> row.once] # None
  BY <1>2, NoneAssumption DEF EntryType
<1>4. /\ held' \in [{"add", "sync"} -> EntryType \cup {None}] /\ held'["add"] = held["add"]
      /\ row.here /\ row.enabled => held'["sync"] = [rev |-> row.rev, once |-> row.once]
      /\ ~(row.here /\ row.enabled) => held'["sync"] = None
  BY <1>1, <1>3 DEF IInv, Typed
<1>5. Typed'
  BY <1>1, <1>4 DEF IInv, Typed
<1>6. RunInv'
  BY <1>1, RunStays DEF IInv
<1>7. NothingIsNewer' /\ KindsAgree'
  BY <1>1, <1>2, <1>4 DEF IInv, PlanInv, NothingIsNewer, KindsAgree, Triggered
<1>8. DatesComeOnce' /\ OneShotOnce'
  BY <1>1 DEF IInv, PlanInv, DatesComeOnce, OneShotOnce, Triggered
<1>9. NoneBefore'
  BY <1>1, <1>4 DEF IInv, PlanInv, NoneBefore, Triggered
<1>10. EnabledIsKnown'
  BY <1>1, <1>3, <1>4 DEF EnabledIsKnown
<1>11. QED
  BY <1>5, <1>6, <1>7, <1>8, <1>9, <1>10 DEF IInv, PlanInv

-----------------------------------------------------------------------------
LEMMA InitInv ==
    ASSUME Init
    PROVE  IInv
<1>1. Typed
  BY DEF Init, Typed, RowType, EntryType, ExecType, AtWork, Outcomes
<1>2. RunInv
  BY DEF Init, RunInv, OneAtATime, OutcomeIsItsOwn, AtWorkIsListed, NamedHasStarted, AtWork
<1>3. PlanInv
  BY DEF Init, PlanInv, OneShotOnce, NothingIsNewer, KindsAgree, DatesComeOnce, EnabledIsKnown,
         NoneBefore, Triggered
<1>4. QED
  BY <1>1, <1>2, <1>3 DEF IInv

LEMMA StutterKeeps ==
    ASSUME IInv, UNCHANGED vars
    PROVE  IInv'
<1>1. Typed'
  BY DEF IInv, Typed, vars
<1>2. RunInv'
  BY RunStays DEF IInv, vars
<1>3. PlanInv'
  BY DEF IInv, vars, PlanInv, OneShotOnce, NothingIsNewer, KindsAgree, DatesComeOnce, EnabledIsKnown,
         NoneBefore, Triggered
<1>4. QED
  BY <1>1, <1>2, <1>3 DEF IInv

LEMMA StepInv == IInv /\ [Next]_vars => IInv'
<1>1. SUFFICES ASSUME IInv, [Next]_vars PROVE IInv'
  OBVIOUS
<1>2. CASE \E p \in {"add", "sync"} : ScheduleHeld(p)
  BY <1>1, <1>2, ScheduleHeldKeeps
<1>3. CASE \E enabled, once \in BOOLEAN : Add(enabled, once)
  BY <1>1, <1>3, AddKeeps
<1>4. CASE \E enabled, once, ok \in BOOLEAN : Update(enabled, once, ok)
  BY <1>1, <1>4, UpdateKeeps
<1>5. CASE Delete
  BY <1>1, <1>5, DeleteKeeps
<1>6. CASE \E n \in entries : Miss(n) \/ \E e \in Execs : Fire(e, n)
  BY <1>1, <1>6, MissKeeps, FireKeeps
<1>7. CASE \E r \in missed : Record(r)
  BY <1>1, <1>7, RecordKeeps
<1>8. CASE \E e \in Execs : ExecStep(e) \/ RunNow(e) \/ SettlementCut(e)
  BY <1>1, <1>8, MovesKeep, AdmitKeeps, StartKeeps, BodyEndsKeeps, SettleKeeps, RunNowKeeps DEF ExecStep
<1>9. CASE Shutdown \/ ShutdownEnds \/ Restart
  BY <1>1, <1>9, ShutdownKeeps, ShutdownEndsKeeps, RestartKeeps
<1>10. CASE UNCHANGED vars
  BY <1>1, <1>10, StutterKeeps
<1>11. QED
  BY <1>1, <1>2, <1>3, <1>4, <1>5, <1>6, <1>7, <1>8, <1>9, <1>10 DEF Next

(* Every reachable state satisfies the inductive invariant.                *)
THEOREM Inductive == Spec => []IInv
BY InitInv, StepInv, PTL DEF Spec

(* Every variable keeps its type.                                          *)
THEOREM TypeCorrect == Spec => []TypeOK
<1>1. IInv => TypeOK
  BY TypedIsTypeOK DEF IInv
<1>2. QED
  BY <1>1, Inductive, PTL

(* No revision is at work twice at a time, by its trigger or by hand.      *)
THEOREM RunsOneAtATime == Spec => []OneAtATime
<1>1. IInv => OneAtATime
  BY DEF IInv, RunInv
<1>2. QED
  BY <1>1, Inductive, PTL

(* The row's outcome is that of an execution of the plan as it is.         *)
THEOREM OutcomesAreTheirOwn == Spec => []OutcomeIsItsOwn
<1>1. IInv => OutcomeIsItsOwn
  BY DEF IInv, RunInv
<1>2. QED
  BY <1>1, Inductive, PTL

(* A one-shot plan is triggered once, whatever restarts and edits come.    *)
THEOREM TriggeredOnce == Spec => []OneShotOnce
<1>1. IInv => OneShotOnce
  BY DEF IInv, PlanInv
<1>2. QED
  BY <1>1, Inductive, PTL

(* A recurring plan that is on is in the scheduler once nothing is held.   *)
THEOREM EnabledPlansAreScheduled == Spec => []EnabledIsScheduled
<1>1. IInv => EnabledIsScheduled
  BY DEF IInv, Typed, PlanInv, EnabledIsKnown, EnabledIsScheduled
<1>2. QED
  BY <1>1, Inductive, PTL

-----------------------------------------------------------------------------
(* The end of a one-shot plan.                                             *)

(* An execution has an outcome from its settlement on.                     *)
UnsettledHasNone ==
    \A e \in Execs : exec[e].pc \notin {"settling", "over"} => exec[e].outcome = "none"

(* Only a shutdown cuts a settlement.                                      *)
CutByShutdown == \A e \in Execs : exec[e].cut => stops > 0

(* A triggered execution of the plan as it is has its mark in the row,     *)
(* unless a shutdown cancelled it before it could write it.                *)
HasTheRow ==
    \A e \in Execs :
        /\ ~exec[e].manual /\ Current(e)
        /\ exec[e].pc = "body" \/ (exec[e].pc = "settling" /\ stops = 0)
        => row.exec = e

EndsInv == UnsettledHasNone /\ CutByShutdown /\ HasTheRow /\ OneShotEnds

(* Steps that leave the executions alone and switch nothing on.            *)
LEMMA EndsKept ==
    ASSUME Typed, EndsInv, UNCHANGED <<exec, stops>>, row'.rev = row.rev, row'.exec = row.exec,
           row'.here => row.here, row'.enabled => row.enabled
    PROVE  EndsInv'
BY DEF EndsInv, UnsettledHasNone, CutByShutdown, HasTheRow, OneShotEnds, Current

(* A plan that no triggered execution has run.                             *)
LEMMA EndsAnew ==
    ASSUME Typed, EndsInv, UNCHANGED <<exec, stops>>,
           \A e \in Execs : Triggered(e) => exec[e].rev # row'.rev
    PROVE  EndsInv'
<1>1. UnsettledHasNone' /\ CutByShutdown'
  BY DEF EndsInv, UnsettledHasNone, CutByShutdown
<1>2. HasTheRow' /\ OneShotEnds'
  BY DEF HasTheRow, OneShotEnds, Current, Triggered
<1>3. QED
  BY <1>1, <1>2 DEF EndsInv

(* One execution moves without an outcome; the row stays.                  *)
LEMMA EndsMoved ==
    ASSUME IInv, EndsInv, NEW e \in Execs, UNCHANGED <<row, stops>>, exec' \in [Execs -> ExecType],
           \A f \in Execs \ {e} : exec'[f] = exec[f],
           exec'[e].outcome = "none", exec'[e].pc \notin {"body", "settling"},
           exec'[e].cut = exec[e].cut
    PROVE  EndsInv'
<1>1. UnsettledHasNone'
  BY DEF EndsInv, UnsettledHasNone
<1>2. CutByShutdown'
  BY DEF EndsInv, CutByShutdown
<1>3. HasTheRow'
  BY DEF EndsInv, HasTheRow, Current
<1>4. OneShotEnds'
  BY DEF EndsInv, OneShotEnds
<1>5. QED
  BY <1>1, <1>2, <1>3, <1>4 DEF EndsInv

LEMMA SettleEnds ==
    ASSUME IInv, EndsInv, NEW e \in Execs, Settle(e) \/ SettlementCut(e)
    PROVE  EndsInv'
<1>1. /\ exec[e].pc = "settling" /\ Moved(e, "over") /\ stops' = stops
      /\ row' \in {row, Settled(e), [Settled(e) EXCEPT !.here = FALSE]}
  BY DEF Settle, SettlementCut
<1>2. row \in RowType /\ exec[e] \in ExecType /\ stops \in Nat
  BY DEF IInv, Typed
<1>3. /\ row'.rev = row.rev /\ row'.exec = row.exec
      /\ row'.here => row.here
      /\ row'.enabled => row.enabled
  BY <1>1, <1>2 DEF Settled, RowType
<1>4. /\ exec' \in [Execs -> ExecType] /\ \A f \in Execs \ {e} : exec'[f] = exec[f]
      /\ exec'[e].pc = "over" /\ exec'[e].rev = exec[e].rev /\ exec'[e].manual = exec[e].manual
      /\ exec'[e].once = exec[e].once /\ exec'[e].outcome = exec[e].outcome
      /\ exec'[e].cut = exec[e].cut
  <2>1. exec' = [exec EXCEPT ![e] = [exec[e] EXCEPT !.pc = "over"]] /\ exec \in [Execs -> ExecType]
    BY <1>1 DEF Moved, IInv, Typed
  <2>2. exec'[e] = [exec[e] EXCEPT !.pc = "over"] /\ \A f \in Execs \ {e} : exec'[f] = exec[f]
    BY <2>1
  <2>3. [exec[e] EXCEPT !.pc = "over"] \in ExecType
    BY <1>2 DEF ExecType
  <2>4. QED
    BY <1>2, <2>1, <2>2, <2>3 DEF ExecType
<1>5. UnsettledHasNone'
  BY <1>4 DEF EndsInv, UnsettledHasNone
<1>6. CutByShutdown'
  BY <1>1, <1>4 DEF EndsInv, CutByShutdown
<1>7. HasTheRow'
  BY <1>1, <1>3, <1>4 DEF EndsInv, HasTheRow, Current
<1>8. OneShotEnds'
  <2>1. ASSUME ~exec[e].manual, exec[e].once, row'.here, row'.rev = exec[e].rev,
               stops = 0 \/ (row'.exec = e /\ ~exec[e].cut)
        PROVE  ~row'.enabled
    <3>1. Current(e) /\ row.exec = e
      BY <1>1, <1>3, <2>1 DEF EndsInv, HasTheRow, Current
    <3>2. Mine(e)
      BY <3>1 DEF Mine
    <3>3. ~exec[e].cut
      BY <1>2, <2>1 DEF EndsInv, CutByShutdown
    <3>4. Settle(e)
      BY <3>3 DEF SettlementCut
    <3>5. CASE exec[e].outcome = "completed"
      <4>1. row' = [Settled(e) EXCEPT !.here = FALSE]
        BY <2>1, <3>2, <3>4, <3>5 DEF Settle
      <4>2. QED
        BY <1>2, <2>1, <4>1 DEF Settled, RowType
    <3>6. CASE exec[e].outcome # "completed"
      <4>1. row' = Settled(e)
        BY <3>2, <3>4, <3>6 DEF Settle
      <4>2. QED
        BY <1>2, <2>1, <3>6, <4>1 DEF Settled, RowType
    <3>7. QED
      BY <3>5, <3>6
  <2>2. ASSUME NEW f \in Execs \ {e},
               exec[f].pc = "over", ~exec[f].manual, exec[f].once, exec[f].outcome # "none",
               row'.here, row'.rev = exec[f].rev, stops = 0 \/ (row'.exec = f /\ ~exec[f].cut)
        PROVE  ~row'.enabled
    BY <1>3, <2>2 DEF EndsInv, OneShotEnds
  <2>3. QED
    BY <1>1, <1>4, <2>1, <2>2 DEF OneShotEnds
<1>9. QED
  BY <1>5, <1>6, <1>7, <1>8 DEF EndsInv

LEMMA StartEnds ==
    ASSUME IInv, EndsInv, NEW e \in Execs, Start(e)
    PROVE  EndsInv'
<1>1. exec[e].pc = "admitted" /\ stops' = stops
  BY DEF Start
<1>2. row \in RowType /\ exec[e] \in ExecType /\ exec \in [Execs -> ExecType]
  BY DEF IInv, Typed
<1>3. CASE Current(e)
  <2>1. /\ row' = [row EXCEPT !.status = "running", !.exec = e]
        /\ exec' = [exec EXCEPT ![e] = [exec[e] EXCEPT !.pc = "body"]]
    BY <1>3 DEF Start, Moved
  <2>2. /\ row'.exec = e /\ row'.rev = row.rev /\ row'.here = row.here /\ row'.enabled = row.enabled
    BY <1>2, <2>1 DEF RowType
  <2>3. /\ \A f \in Execs \ {e} : exec'[f] = exec[f]
        /\ exec'[e].pc = "body" /\ exec'[e].outcome = exec[e].outcome /\ exec'[e].cut = exec[e].cut
    BY <1>2, <2>1 DEF ExecType
  <2>4. UnsettledHasNone' /\ CutByShutdown'
    BY <1>1, <2>3 DEF EndsInv, UnsettledHasNone, CutByShutdown
  <2>5. \A f \in Execs \ {e} : exec[f].pc \in {"body", "settling"} => ~Current(f)
    <3>1. \A f \in Execs : exec[f].pc \in AtWork /\ exec[f].rev = exec[e].rev => f = e
      BY <1>1 DEF IInv, RunInv, OneAtATime, AtWork
    <3>2. QED
      BY <1>3, <3>1 DEF Current, AtWork
  <2>6. HasTheRow'
    BY <2>2, <2>3, <2>5 DEF HasTheRow, Current
  <2>7. OneShotEnds'
    BY <1>1, <2>2, <2>3 DEF EndsInv, OneShotEnds
  <2>8. QED
    BY <2>4, <2>6, <2>7 DEF EndsInv
<1>4. CASE ~Current(e)
  <2>1. /\ row' = row
        /\ exec' = [exec EXCEPT ![e] = [exec[e] EXCEPT !.pc = "settling", !.outcome = "superseded"]]
    BY <1>4 DEF Start
  <2>2. /\ \A f \in Execs \ {e} : exec'[f] = exec[f]
        /\ exec'[e].pc = "settling" /\ exec'[e].rev = exec[e].rev /\ exec'[e].cut = exec[e].cut
    BY <1>2, <2>1 DEF ExecType
  <2>3. UnsettledHasNone' /\ CutByShutdown'
    BY <1>1, <2>2 DEF EndsInv, UnsettledHasNone, CutByShutdown
  <2>4. HasTheRow' /\ OneShotEnds'
    BY <1>1, <1>4, <2>1, <2>2 DEF EndsInv, HasTheRow, OneShotEnds, Current
  <2>5. QED
    BY <2>3, <2>4 DEF EndsInv
<1>5. QED
  BY <1>3, <1>4

LEMMA BodyEndsEnds ==
    ASSUME IInv, EndsInv, NEW e \in Execs, BodyEnds(e)
    PROVE  EndsInv'
<1>1. exec[e].pc = "body" /\ UNCHANGED <<row, stops>>
  BY DEF BodyEnds
<1>2. PICK o \in Outcomes : exec' = [exec EXCEPT ![e] = [exec[e] EXCEPT !.pc = "settling", !.outcome = o]]
  BY DEF BodyEnds
<1>3. exec[e] \in ExecType /\ exec \in [Execs -> ExecType]
  BY DEF IInv, Typed
<1>4. /\ \A f \in Execs \ {e} : exec'[f] = exec[f]
      /\ exec'[e].pc = "settling" /\ exec'[e].rev = exec[e].rev /\ exec'[e].manual = exec[e].manual
      /\ exec'[e].cut = exec[e].cut
  BY <1>2, <1>3 DEF ExecType
<1>5. UnsettledHasNone' /\ CutByShutdown'
  BY <1>1, <1>4 DEF EndsInv, UnsettledHasNone, CutByShutdown
<1>6. HasTheRow' /\ OneShotEnds'
  BY <1>1, <1>4 DEF EndsInv, HasTheRow, OneShotEnds, Current
<1>7. QED
  BY <1>5, <1>6 DEF EndsInv

LEMMA ShutdownEndsPlans ==
    ASSUME IInv, EndsInv, Shutdown
    PROVE  EndsInv'
<1>1. /\ stops' = stops + 1 /\ row' = row /\ stops \in Nat
      /\ exec' = [e \in Execs |-> Cancelled(exec[e])]
  BY DEF Shutdown, IInv, Typed
<1>2. ASSUME NEW e \in Execs
      PROVE  /\ exec'[e].pc \notin {"settling", "over"} => exec'[e].outcome = "none"
             /\ exec'[e].pc # "body"
             /\ exec'[e].pc = "over" /\ exec'[e].outcome # "none" => exec'[e] = exec[e]
  <2>1. exec'[e] = Cancelled(exec[e]) /\ exec[e] \in ExecType
    BY <1>1 DEF IInv, Typed
  <2>2. exec[e].pc \notin {"settling", "over"} => exec[e].outcome = "none"
    BY DEF EndsInv, UnsettledHasNone
  <2>3. CASE exec[e].pc \in {"created", "waiting"}
    BY <2>1, <2>2, <2>3 DEF Cancelled, ExecType
  <2>4. CASE exec[e].pc \in {"admitted", "body"}
    BY <2>1, <2>4 DEF Cancelled, ExecType
  <2>5. CASE exec[e].pc = "settling"
    BY <2>1, <2>5 DEF Cancelled, ExecType
  <2>6. CASE exec[e].pc \in {"none", "over"}
    BY <2>1, <2>2, <2>6 DEF Cancelled
  <2>7. QED
    BY <2>1, <2>3, <2>4, <2>5, <2>6 DEF ExecType, AtWork
<1>3. stops' > 0 /\ stops' # 0
  BY <1>1
<1>4. UnsettledHasNone' /\ CutByShutdown' /\ HasTheRow'
  BY <1>2, <1>3 DEF UnsettledHasNone, CutByShutdown, HasTheRow
<1>5. OneShotEnds'
  BY <1>1, <1>2, <1>3 DEF EndsInv, OneShotEnds
<1>6. QED
  BY <1>4, <1>5 DEF EndsInv

LEMMA EndsStep ==
    ASSUME IInv, EndsInv, [Next]_vars
    PROVE  EndsInv'
<1>1. row \in RowType /\ Typed /\ row.rev \in Nat
  BY DEF IInv, Typed, RowType
<1>2. ASSUME NEW p \in {"add", "sync"}, ScheduleHeld(p) PROVE EndsInv'
  BY <1>1, <1>2, EndsKept DEF ScheduleHeld, RowType
<1>3. ASSUME NEW enabled \in BOOLEAN, NEW once \in BOOLEAN, Add(enabled, once) PROVE EndsInv'
  <2>1. \A e \in Execs : ~Triggered(e)
    BY <1>3 DEF Add, IInv, PlanInv, NoneBefore
  <2>2. QED
    BY <1>1, <1>3, <2>1, EndsAnew DEF Add
<1>4. ASSUME NEW enabled \in BOOLEAN, NEW once \in BOOLEAN, NEW ok \in BOOLEAN,
             Update(enabled, once, ok)
      PROVE  EndsInv'
  <2>1. row' = Rescheduled(enabled, once, ok) /\ UNCHANGED <<exec, stops>>
    BY <1>4 DEF Update
  <2>2. row'.rev = row.rev + 1
    BY <1>1, <2>1 DEF Rescheduled, RowType
  <2>3. ASSUME NEW e \in Execs, Triggered(e) PROVE exec[e].rev # row'.rev
    <3>1. exec[e].rev <= row.rev /\ exec[e].rev \in Nat
      BY <2>3 DEF IInv, PlanInv, NothingIsNewer, Typed, ExecType
    <3>2. QED
      BY <1>1, <2>2, <3>1
  <2>4. QED
    BY <1>1, <2>1, <2>3, EndsAnew
<1>5. CASE Delete
  BY <1>1, <1>5, EndsKept DEF Delete, RowType
<1>6. ASSUME NEW n \in entries, Miss(n) PROVE EndsInv'
  BY <1>1, <1>6, EndsKept DEF Miss
<1>7. ASSUME NEW n \in entries, NEW e \in Execs, Fire(e, n) PROVE EndsInv'
  <2>1. /\ exec[e].pc = "none" /\ UNCHANGED <<row, stops>>
        /\ exec' = [exec EXCEPT ![e] = [exec[e] EXCEPT !.pc = "created", !.rev = n.rev]]
    BY <1>7 DEF Fire
  <2>2. exec[e] \in ExecType /\ exec \in [Execs -> ExecType] /\ exec[e].outcome = "none"
    BY <2>1 DEF IInv, Typed, EndsInv, UnsettledHasNone
  <2>3. /\ \A f \in Execs \ {e} : exec'[f] = exec[f]
        /\ exec'[e].outcome = "none" /\ exec'[e].pc = "created" /\ exec'[e].cut = exec[e].cut
    BY <2>1, <2>2 DEF ExecType
  <2>4. exec' \in [Execs -> ExecType]
    BY <1>7, FireKeeps DEF IInv, Typed
  <2>5. QED
    BY <2>1, <2>3, <2>4, EndsMoved
<1>8. ASSUME NEW r \in missed, Record(r) PROVE EndsInv'
  <2>1. /\ row' = row \/ row' = [row EXCEPT !.status = "missed", !.enabled = row.enabled /\ ~row.once]
        /\ UNCHANGED <<exec, stops>>
    BY <1>8 DEF Record
  <2>2. /\ row'.rev = row.rev /\ row'.exec = row.exec /\ row'.here = row.here
        /\ row'.enabled => row.enabled
    BY <1>1, <2>1 DEF RowType
  <2>3. QED
    BY <1>1, <2>1, <2>2, EndsKept
<1>9. ASSUME NEW e \in Execs, Begin(e) \/ TurnedAway(e) \/ Admit(e) \/ RunNow(e) PROVE EndsInv'
  <2>1. /\ exec[e].pc \in {"none", "created", "waiting"} /\ UNCHANGED <<row, stops>>
        /\ \/ \E pc \in {"waiting", "over"} : exec' = [exec EXCEPT ![e] = [exec[e] EXCEPT !.pc = pc]]
           \/ exec' = [exec EXCEPT ![e] = [exec[e] EXCEPT !.pc = "waiting", !.manual = TRUE]]
           \/ exec' = [exec EXCEPT ![e] = [exec[e] EXCEPT !.pc = "admitted", !.rev = row.rev,
                                                          !.once = row.once]]
    BY <1>9 DEF Begin, TurnedAway, Admit, RunNow, Moved
  <2>2. exec[e] \in ExecType /\ exec \in [Execs -> ExecType] /\ exec[e].outcome = "none"
    BY <2>1 DEF IInv, Typed, EndsInv, UnsettledHasNone
  <2>3. /\ \A f \in Execs \ {e} : exec'[f] = exec[f]
        /\ exec'[e].outcome = "none" /\ exec'[e].pc \in {"waiting", "over", "admitted"}
        /\ exec'[e].cut = exec[e].cut
    <3>1. CASE \E pc \in {"waiting", "over"} : exec' = [exec EXCEPT ![e] = [exec[e] EXCEPT !.pc = pc]]
      BY <2>2, <3>1 DEF ExecType
    <3>2. CASE exec' = [exec EXCEPT ![e] = [exec[e] EXCEPT !.pc = "waiting", !.manual = TRUE]]
      BY <2>2, <3>2 DEF ExecType
    <3>3. CASE exec' = [exec EXCEPT ![e] = [exec[e] EXCEPT !.pc = "admitted", !.rev = row.rev,
                                                           !.once = row.once]]
      BY <2>2, <3>3 DEF ExecType
    <3>4. QED
      BY <2>1, <3>1, <3>2, <3>3
  <2>4. exec' \in [Execs -> ExecType]
    BY <1>9, MovesKeep, AdmitKeeps, RunNowKeeps DEF IInv, Typed
  <2>5. QED
    BY <2>1, <2>3, <2>4, EndsMoved
<1>10. CASE ShutdownEnds \/ Restart \/ UNCHANGED vars
  BY <1>1, <1>10, EndsKept DEF ShutdownEnds, Restart, vars
<1>11. QED
  BY <1>2, <1>3, <1>4, <1>5, <1>6, <1>7, <1>8, <1>9, <1>10, SettleEnds, StartEnds, BodyEndsEnds,
     ShutdownEndsPlans DEF Next, ExecStep

(* A one-shot plan ends with its trigger's execution, for any number of    *)
(* executions, edits and shutdowns (OneShotEnds).                          *)
THEOREM OneShotsEnd == Spec => []OneShotEnds
<1>1. Init => EndsInv
  BY DEF Init, EndsInv, UnsettledHasNone, CutByShutdown, HasTheRow, OneShotEnds
<1>2. IInv /\ EndsInv /\ [Next]_vars => EndsInv'
  BY EndsStep
<1>3. EndsInv => OneShotEnds
  BY DEF EndsInv
<1>4. QED
  BY <1>1, <1>2, <1>3, Inductive, PTL DEF Spec

=============================================================================
