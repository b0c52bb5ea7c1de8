-------------------------- MODULE ObservationIntake --------------------------
(***************************************************************************)
(* The observations of one Personal session runtime: a bounded inbox that  *)
(* coalesces facts (observation_inbox.py), the revisions that tell new     *)
(* material from old (personal_state.py), the one evaluation task that     *)
(* closes a batch, asks the gate and the policy and dispatches the action, *)
(* and the wake-up that brings held facts back (personal_runtime.py).      *)
(*                                                                         *)
(* Code between two awaits is one step.  The evaluation task may sleep in  *)
(* the debounce, in the policy, in the save after a deferral and in the    *)
(* action handler: these are its pc values.  Only turns of the runtime     *)
(* (bound) are known of the conversation; TurnAdmission models them.       *)
(*                                                                         *)
(* Slips the runs must notice are written before the operator they distort, *)
(* under names that begin with "Slip"; no operator of the model uses them. *)
(***************************************************************************)
EXTENDS Naturals, Sequences, FiniteSets

CONSTANTS
    Keys,         \* coalescing identities of facts (sensor keys, idle initiation)
    NoKey,        \* a fact without identity
    Heartbeat,    \* the identity of heartbeats, which carry no material
    MaxPending,   \* the inbox bound
    MaxRevision,  \* bound of the model: facts that bring new material
    MaxTurns      \* bound of the model: turns bound to the runtime at once

ASSUME KeysAssumption  == NoKey \notin Keys /\ Heartbeat \notin Keys /\ Heartbeat # NoKey
ASSUME BoundAssumption == MaxPending \in Nat \ {0} /\ MaxRevision \in Nat /\ MaxTurns \in Nat

VARIABLES
    inbox,     \* pending observations, oldest first
    known,     \* identities whose last payload is remembered
    revision,  \* material_revision
    settled,   \* last_settled_material_revision
    eval,      \* the evaluation task and the batch it decides
    again,     \* _observation_reschedule_requested
    wake,      \* next_observation_wake_at is set
    bound,     \* bound_turn_count
    expressed  \* history: revisions whose expression was dispatched

intakeVars == <<inbox, known, revision, settled, eval, again, wake, bound, expressed>>

-----------------------------------------------------------------------------
(* An observation: its identity, the revision of its material (0: none),   *)
(* and whether it expires.                                                 *)
Item == [key : Keys \cup {NoKey, Heartbeat}, mat : Nat, life : {"lasting", "live", "expired"}]

Mats(s) == {s[i].mat : i \in DOMAIN s} \ {0}

Largest(S) == CHOOSE m \in S : \A n \in S : n <= m

(* The items of s at the indices I, in their order: the k-th index of I is *)
(* the one with k of I up to it.  (SelectSeq, which is recursive, would be *)
(* out of the provers' reach.)                                             *)
Nth(I, k)    == CHOOSE i \in I : Cardinality({j \in I : j <= i}) = k
Picked(s, I) == [k \in 1..Cardinality(I) |-> s[Nth(I, k)]]

Live(s)       == Picked(s, {i \in DOMAIN s : s[i].life # "expired"})
Expired(s)    == Picked(s, {i \in DOMAIN s : s[i].life = "expired"})
Same(s, key)  == Picked(s, {i \in DOMAIN s : s[i].key = key /\ key # NoKey})
Other(s, key) == Picked(s, {i \in DOMAIN s : s[i].key # key \/ key = NoKey})

(* admit: expired items leave, an item of the same identity is replaced    *)
(* and leaves its material to one that brings none, a full inbox drops its *)
(* oldest item.  "lost" is the discarded material.                         *)
Admitted(box, item) ==
    LET same  == Same(Live(box), item.key)
        rest  == Other(Live(box), item.key)
        full  == Len(rest) >= MaxPending
        mat   == IF item.mat # 0 THEN item.mat ELSE Largest(Mats(same) \cup {0})
    IN  [box  |-> Append(IF full THEN Tail(rest) ELSE rest, [item EXCEPT !.mat = mat]),
         lost |-> Mats(Expired(box))
                    \cup (IF item.mat # 0 THEN Mats(same) ELSE {})
                    \cup (IF full THEN Mats(<<Head(rest)>>) ELSE {})]

(* restore: the batch goes back in front of what arrived meanwhile; a      *)
(* newer item replaces the held one of its identity and inherits its       *)
(* material unless it brings its own; the oldest leave a full inbox.       *)
Restored(batch, box) ==
    LET newer     == {box[i].key : i \in DOMAIN box} \ {NoKey}
        heir(x)   == [x EXCEPT !.mat = IF @ # 0 THEN @
                                       ELSE Largest(Mats(Same(batch, x.key)) \cup {0})]
        all       == Picked(batch, {i \in DOMAIN batch : batch[i].key \notin newer})
                       \o [i \in DOMAIN box |-> heir(box[i])]
        over      == IF Len(all) > MaxPending THEN Len(all) - MaxPending ELSE 0
        replaced  == UNION {Mats(Same(batch, box[i].key)) : i \in {j \in DOMAIN box : box[j].mat # 0}}
    IN  [box |-> SubSeq(all, over + 1, Len(all)), lost |-> replaced \cup Mats(SubSeq(all, 1, over))]

(* The mark moves to the newest fact there is.                             *)
SlipSettle(mats) == settled' = IF mats = {} THEN settled ELSE revision

(* settle_material_revision, for each of a set of revisions.               *)
Settle(mats) == settled' = Largest(mats \cup {settled})

-----------------------------------------------------------------------------
NoTask      == [pc |-> "none", batch |-> <<>>]
Debouncing  == [pc |-> "debounce", batch |-> <<>>]
Alive       == eval.pc # "none"

(* A request that finds the task alive is forgotten.                       *)
SlipEnsureTask ==
    /\ eval'  = IF Alive THEN eval ELSE Debouncing
    /\ again' = (again /\ Alive)

(* _ensure_observation_evaluation_task: one task at a time; a live one is  *)
(* asked to run again.                                                     *)
EnsureTask ==
    /\ eval'  = IF Alive THEN eval ELSE Debouncing
    /\ again' = Alive

(* settle_turn: the last turn hands the pending facts to a task.           *)
TurnSettled ==
    /\ bound' = bound - 1
    /\ IF bound = 1 /\ inbox # <<>>
       THEN wake' = FALSE /\ EnsureTask
       ELSE UNCHANGED <<eval, again, wake>>

(* The finally clause of _evaluate_observations, with "box" pending: a     *)
(* wake-up is set when the decision gave a time ("at"); otherwise a        *)
(* requested run follows at once, unless the gate held the batch ("held";  *)
(* the clause for a runtime that became free in between cannot apply:      *)
(* no await separates it from the gate).                                   *)
TaskEnds(box, held, at) ==
    /\ again' = FALSE
    /\ wake' = (wake \/ (at /\ box # <<>>))
    /\ eval' = IF again /\ box # <<>> /\ ~held /\ ~at THEN Debouncing ELSE NoTask

-----------------------------------------------------------------------------
IntakeInit ==
    /\ inbox = <<>> /\ known = {} /\ revision = 0 /\ settled = 0
    /\ eval = NoTask /\ again = FALSE /\ wake = FALSE
    /\ bound = 0 /\ expressed = {}

(* submit_observation with a fact: a fact without identity and a payload   *)
(* that differs from the remembered one bring material.                    *)
SubmitFact(key, changed, life) ==
    /\ changed \/ key \in known
    /\ changed => revision < MaxRevision
    /\ LET mat == IF changed THEN revision + 1 ELSE 0
           got == Admitted(inbox, [key |-> key, mat |-> mat, life |-> life])
       IN  inbox' = got.box /\ Settle(got.lost)
    /\ revision' = IF changed THEN revision + 1 ELSE revision
    /\ known' = known \cup ({key} \ {NoKey})
    /\ wake' = FALSE
    /\ EnsureTask
    /\ UNCHANGED <<bound, expressed>>

(* A fact that arrives expired is refused; expired items leave the inbox   *)
(* all the same.                                                           *)
SubmitExpired ==
    /\ \E i \in DOMAIN inbox : inbox[i].life = "expired"
    /\ inbox' = Live(inbox)
    /\ Settle(Mats(Expired(inbox)))
    /\ UNCHANGED <<known, revision, eval, again, wake, bound, expressed>>

(* submit_observation with a heartbeat: ignored unless material pends;     *)
(* it starts a task only when no wake-up is still to come ("due").         *)
SubmitHeartbeat ==
    /\ Mats(inbox) # {}
    /\ LET got == Admitted(inbox, [key |-> Heartbeat, mat |-> 0, life |-> "live"])
       IN  /\ inbox' = got.box /\ Settle(got.lost)
           /\ \E due \in {~wake, TRUE} :
                 IF Mats(got.box) # {} /\ due /\ ~Alive
                 THEN wake' = FALSE /\ eval' = Debouncing /\ again' = FALSE
                 ELSE UNCHANGED <<wake, eval, again>>
    /\ UNCHANGED <<known, revision, bound, expressed>>

(* Time passes for an item that expires, pending or in the batch.          *)
Expire ==
    /\ \/ \E i \in DOMAIN inbox :
             /\ inbox[i].life = "live"
             /\ inbox' = [inbox EXCEPT ![i].life = "expired"]
             /\ UNCHANGED eval
       \/ \E i \in DOMAIN eval.batch :
             /\ eval.batch[i].life = "live"
             /\ eval' = [eval EXCEPT !.batch[i].life = "expired"]
             /\ UNCHANGED inbox
    /\ UNCHANGED <<known, revision, settled, again, wake, bound, expressed>>

TurnBinds ==
    /\ bound < MaxTurns
    /\ bound' = bound + 1
    /\ UNCHANGED <<inbox, known, revision, settled, eval, again, wake, expressed>>

(* A turn of the conversation settles (not the one of the running action). *)
TurnSettles ==
    /\ bound > IF eval.pc = "acting" THEN 1 ELSE 0
    /\ TurnSettled
    /\ UNCHANGED <<inbox, known, revision, settled, expressed>>

(* The scheduler's deadline passes: wake_observations.                     *)
WakeFires ==
    /\ wake
    /\ wake' = FALSE
    /\ IF inbox # <<>> THEN EnsureTask ELSE UNCHANGED <<eval, again>>
    /\ UNCHANGED <<inbox, known, revision, settled, bound, expressed>>

-----------------------------------------------------------------------------
(* The evaluation task.  After the debounce it drains the inbox, and the   *)
(* gate decides in the same step.                                          *)

Batch   == Live(inbox)
Closes  == eval.pc = "debounce" /\ UNCHANGED <<known, revision, bound, expressed>>

BatchEmpty ==
    /\ Closes
    /\ Batch = <<>>
    /\ inbox' = <<>>
    /\ Settle(Mats(Expired(inbox)))
    /\ TaskEnds(<<>>, FALSE, FALSE)

(* The mark that the expired items of this very drain leave behind.        *)
SettledAtDrain == Largest(Mats(Expired(inbox)) \cup {settled})

(* Material to judge, newer than the mark.                                 *)
IsNew == Mats(Batch) # {} /\ Largest(Mats(Batch)) > SettledAtDrain

(* Refused: no new material, or a reason outside the model (disabled,      *)
(* stale idle initiation, target, mute, budgets, an all-day quiet window). *)
GateRejects ==
    /\ Closes
    /\ Batch # <<>>
    /\ inbox' = <<>>
    /\ Settle(Mats(Expired(inbox)) \cup Mats(Batch))
    /\ TaskEnds(<<>>, FALSE, FALSE)

(* Quiet hours and cooldowns hold the batch until a known time.            *)
GateHolds ==
    /\ Closes
    /\ IsNew
    /\ LET back == Restored(Batch, <<>>)
       IN  /\ inbox' = back.box
           /\ Settle(Mats(Expired(inbox)) \cup back.lost)
           /\ TaskEnds(back.box, TRUE, TRUE)

(* A busy runtime holds it until its last turn settles.                    *)
GateHoldsBusy ==
    /\ Closes
    /\ IsNew /\ bound > 0
    /\ LET back == Restored(Batch, <<>>)
       IN  /\ inbox' = back.box
           /\ Settle(Mats(Expired(inbox)) \cup back.lost)
           /\ TaskEnds(back.box, TRUE, FALSE)

GateAccepts ==
    /\ Closes
    /\ IsNew /\ bound = 0
    /\ inbox' = <<>>
    /\ Settle(Mats(Expired(inbox)))
    /\ eval' = [pc |-> "policy", batch |-> Batch]
    /\ UNCHANGED <<again, wake>>

(* No policy, a failed call, or the decision to ignore or observe.         *)
PolicySettles ==
    /\ eval.pc = "policy"
    /\ Settle(Mats(eval.batch))
    /\ TaskEnds(inbox, FALSE, FALSE)
    /\ UNCHANGED <<inbox, known, revision, bound, expressed>>

(* The decision to defer: the batch goes back, the deadline is saved.      *)
PolicyDefers ==
    /\ eval.pc = "policy"
    /\ LET back == Restored(eval.batch, inbox)
       IN  inbox' = back.box /\ Settle(back.lost)
    /\ eval' = [pc |-> "saving", batch |-> <<>>]
    /\ UNCHANGED <<known, revision, again, wake, bound, expressed>>

DeferralSaved ==
    /\ eval.pc = "saving"
    /\ TaskEnds(inbox, FALSE, TRUE)
    /\ UNCHANGED <<inbox, known, revision, settled, bound, expressed>>

(* The batch is settled when the action has been carried out.              *)
SlipPolicyExpresses ==
    /\ eval.pc = "policy"
    /\ expressed' = expressed \cup Mats(eval.batch)
    /\ inbox' = Restored(eval.batch, inbox).box
    /\ eval' = [pc |-> "dispatch", batch |-> <<>>]
    /\ UNCHANGED <<known, revision, settled, again, wake, bound>>

(* The decision to express: settled before the handler is awaited.         *)
PolicyExpresses ==
    /\ eval.pc = "policy"
    /\ Settle(Mats(eval.batch))
    /\ expressed' = expressed \cup Mats(eval.batch)
    /\ eval' = [pc |-> "dispatch", batch |-> <<>>]
    /\ UNCHANGED <<inbox, known, revision, again, wake, bound>>

(* The handler binds a turn of its own to the runtime ...                  *)
ActionBinds ==
    /\ eval.pc = "dispatch"
    /\ bound < MaxTurns
    /\ bound' = bound + 1
    /\ eval' = [eval EXCEPT !.pc = "acting"]
    /\ UNCHANGED <<inbox, known, revision, settled, again, wake, expressed>>

(* ... that settles, delivered or not, while the task is still alive.      *)
ActionSettles ==
    /\ eval.pc = "acting"
    /\ bound' = bound - 1
    /\ eval' = [eval EXCEPT !.pc = "acted"]
    /\ IF bound = 1 /\ inbox # <<>>
       THEN wake' = FALSE /\ again' = TRUE
       ELSE UNCHANGED <<wake, again>>
    /\ UNCHANGED <<inbox, known, revision, settled, expressed>>

(* The handler returns or fails, also before it bound a turn.              *)
HandlerEnds ==
    /\ eval.pc \in {"dispatch", "acted"}
    /\ TaskEnds(inbox, FALSE, FALSE)
    /\ UNCHANGED <<inbox, known, revision, settled, bound, expressed>>

TaskStep ==
    \/ BatchEmpty \/ GateRejects \/ GateHolds \/ GateHoldsBusy \/ GateAccepts
    \/ PolicySettles \/ PolicyDefers \/ DeferralSaved \/ PolicyExpresses
    \/ ActionBinds \/ ActionSettles \/ HandlerEnds

IntakeNext ==
    \/ \E key \in Keys \cup {NoKey}, changed \in BOOLEAN, life \in {"lasting", "live"} :
          SubmitFact(key, changed, life)
    \/ SubmitExpired \/ SubmitHeartbeat \/ Expire
    \/ TurnBinds \/ TurnSettles \/ WakeFires
    \/ TaskStep

IntakeSpec == IntakeInit /\ [][IntakeNext]_intakeVars

(* The loop runs the task, timers fire, a turn settles at the latest when  *)
(* its deadline cancels it, model calls and handlers return.               *)
IntakeFairSpec ==
    /\ IntakeSpec
    /\ WF_intakeVars(TaskStep) /\ WF_intakeVars(TurnSettles) /\ WF_intakeVars(WakeFires)

-----------------------------------------------------------------------------
(* Properties.                                                             *)

Pcs == {"none", "debounce", "policy", "saving", "dispatch", "acting", "acted"}

(* Types; the bound of the inbox, also after a restore; one pending item   *)
(* per identity.                                                           *)
IntakeTypeOK ==
    /\ inbox \in Seq(Item) /\ Len(inbox) <= MaxPending
    /\ \A i, j \in DOMAIN inbox : inbox[i].key = inbox[j].key /\ inbox[i].key # NoKey => i = j
    /\ known \subseteq Keys
    /\ revision \in 0..MaxRevision /\ settled \in 0..revision
    /\ eval \in [pc : Pcs, batch : Seq(Item)]
    /\ again \in BOOLEAN /\ wake \in BOOLEAN
    /\ bound \in 0..MaxTurns
    /\ expressed \subseteq 1..revision

(* Revisions that are retained: pending, or in the batch under decision.   *)
Retained == Mats(inbox) \cup Mats(eval.batch)

(* No fact disappears silently: material that is neither pending nor being *)
(* decided has been settled, whichever way it left (expiry, overflow,      *)
(* replacement before or during a restore, rejection, decision).           *)
EveryFactAccounted == \A r \in 1..revision : r \in Retained \/ r <= settled

(* The mark always names a fact that is gone.  So the newest fact, if it   *)
(* is retained, is new to the gate: what arrives while a batch is being    *)
(* decided or delivered is not settled along with it.                      *)
SettledIsGone == settled \notin Retained

(* Material that was handed to the action handler is never retained again, *)
(* whether the delivery succeeded or not: it cannot be expressed twice.    *)
ToldOnce == expressed \cap Retained = {}

(* Pending facts are never forgotten: a task will look at them, or a       *)
(* wake-up is set, or a bound turn will look when it settles.              *)
NothingStranded == inbox # <<>> => Alive \/ wake \/ bound > 0

(* Pending facts come before the gate again and again, as long as the      *)
(* conversation lets the runtime become free now and then.                 *)
Reevaluated ==
    []<>(bound = 0) => (inbox # <<>> ~> (eval.pc = "debounce" \/ inbox = <<>>))

(* What docs/Yakumo/modules/interaction.md says: only a rejection, a       *)
(* decision or a delivery settles a batch, hold and defer retain it.  But  *)
(* a newer fact that expires or overflows moves the mark past the older    *)
(* ones that are retained, and the gate then refuses them undecided.       *)
PendingIsNew == Mats(inbox) # {} => Largest(Mats(inbox)) > settled

=============================================================================
