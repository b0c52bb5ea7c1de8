--------------------------- MODULE PluginProofs ---------------------------
(***************************************************************************)
(* Theorems about plugins: what a plugin job sends (PluginDelivery), for   *)
(* every number of artifacts and requests, then the manager and the leases *)
(* (PluginManagement), for every set of plugins, every finite set of turns *)
(* and every number of operations.                                         *)
(***************************************************************************)
EXTENDS PluginDelivery, PluginManagement, FiniteSetTheorems, SequenceTheorems, TLAPS

(* What is marked is marked for a reason: an artifact is reserved only     *)
(* while somebody sends it, and one that was finished has its fate.        *)
MarksExplained ==
    \A a \in Artifacts :
        /\ ledger[a] = "finished" => a \in fate
        /\ ledger[a] = "reserved" =>
              \/ t1.pc = "sending" /\ a = t1.next
              \/ late.pc = "sending" /\ a \in Group(late.group)
              \/ closed

(* A group is reserved as a whole.                                         *)
GroupIsReserved ==
    late.pc = "sending" => \A a \in Group(late.group) : ledger[a] # "none"

(* What was shown keeps its mark until nobody sends any more.              *)
ShownIsMarked ==
    \A i \in DOMAIN shown : ledger[shown[i].art] # "none" \/ late.pc = "done"

(* The late delivery, and a shutdown, come after the turn and the job.     *)
LateIsAfter ==
    /\ closed \/ late.pc \notin {"none", "waiting"} => t1.pc = "settled"
    /\ late.pc # "none" => job.pc = "ended"
    /\ t1.pc \in {"inline", "sending"} => late.pc \in {"none", "waiting"} /\ ~closed
    /\ bridge = "closed" <=> t1.pc = "settled"
    /\ job.pc = "asking" => t1.pc \in {"control", "driving"}
    /\ bridge \in {"queued", "serving"} <=> job.pc = "asking"

(* How the gate was resolved says what the job has produced.               *)
GateExplained ==
    /\ gate = "pending" => Finals(arts) = {} /\ job.pc = "running" /\ t1.pc \in {"control", "settled"}
    /\ gate \in {"passed", "failed"} => Finals(arts) = {} /\ job.pc = "ended"
    /\ job.pc = "asking" => gate = "delegated"
    /\ t1.pc = "routed" => gate \in {"passed", "expired", "failed"}
    /\ t1.pc \in {"inline", "sending"} => gate \in {"handled", "stopped", "delegated"}
    /\ t1.pc = "driving" => gate = "delegated"
    /\ gate \in {"delegated", "pending"} => boundary = All

(* A delegated turn delivers all that its job produced, or gives way.      *)
DelegationExplained ==
    gate = "delegated" =>
        /\ t1.pc = "control" => Finals(arts) = {} /\ job.pc # "running"
        /\ t1.pc \in {"inline", "sending"} => job.pc = "ended" /\ t1.upto = Len(arts)
        /\ t1.pc = "settled" /\ ~rescued =>
              /\ job.pc = "ended"
              /\ t1.next <= t1.upto \/ Finals(arts) \subseteq fate

(* The turn has decided the fate of what it has passed.                    *)
PassedIsDecided ==
    t1.pc \in {"inline", "sending"} =>
        \A a \in Finals(arts) : a < t1.next => a \in fate

(* So has the late delivery, group by group.                               *)
GroupsDecided ==
    ~closed =>
        /\ late.pc \in {"groups", "sending"} =>
              \A a \in Finals(arts) : arts[a].group < late.group => a \in fate
        /\ late.pc \in {"discard", "done"} /\ ~(gate = "delegated" /\ t1.next <= t1.upto)
              => Finals(arts) \subseteq fate

GroupsBounded == \A a \in DOMAIN arts : arts[a].group <= a + 1

(* The bounds the counters keep among each other.                          *)
Counters ==
    /\ boundary = All \/ boundary <= Len(arts)
    /\ t1.pc \in {"inline", "sending"} => t1.upto <= Len(arts)
    /\ t1.pc = "sending" => t1.next <= t1.upto
    /\ t1.pc = "inline" => t1.next <= t1.upto + 1
    /\ late.pc = "sending" => late.group <= All
    /\ late.pc \in {"none", "waiting"} => late.group = 1

(* The inductive invariant.                                                *)
DInv ==
    /\ TypeOK /\ Counters /\ MarksExplained /\ GroupIsReserved /\ ShownIsMarked /\ LateIsAfter /\ GateExplained
    /\ DelegationExplained /\ PassedIsDecided /\ GroupsDecided /\ GroupsBounded /\ ShownOnce

-----------------------------------------------------------------------------
(* The types of the structured variables, under names of their own so that *)
(* a proof that only passes them on need not look inside.                  *)
ArtTypes    == [final : BOOLEAN, group : 1..All]
JobType     == [pc : {"running", "asking", "ended"},
                state : {"running", "completed", "failed", "cancelled"}]
TurnType    == [pc : {"control", "driving", "routed", "inline", "sending", "settled"},
                next : 1..All, upto : 0..MaxArtifacts, claimed : BOOLEAN]
LedgerType  == [Artifacts -> {"none", "reserved", "finished"}]
LateType    == [pc : {"none", "waiting", "groups", "sending", "discard", "done"},
                group : 1..(All + 1)]
SentType    == [art : Artifacts, by : {"T1", "T2"}]
ArtsType    == {as \in Seq(ArtTypes) : Len(as) <= MaxArtifacts}
ShownType   == Seq(SentType)
Gates       == {"pending", "passed", "handled", "stopped", "delegated", "failed", "expired"}
GateType    == gate \in Gates /\ boundary \in 0..All

(* What each variable holds, types opaque.                                 *)
Types ==
    /\ GateType /\ arts \in ArtsType /\ job \in JobType /\ t1 \in TurnType
    /\ ledger \in LedgerType /\ late \in LateType /\ shown \in ShownType
    /\ fate \in SUBSET Artifacts

Flags ==
    /\ stopped \in BOOLEAN /\ requests \in 0..MaxRequests
    /\ bridge \in {"empty", "queued", "serving", "closed"}
    /\ window \in {"open", "over", "unwatched", "over unwatched"}
    /\ rescued \in BOOLEAN /\ closed \in BOOLEAN /\ media \in BOOLEAN

LEMMA TypeSplit == TypeOK <=> Types /\ Flags
BY DEF TypeOK, Types, Flags, ArtTypes, JobType, TurnType, LedgerType, LateType, SentType, ArtsType,
       ShownType, Gates, GateType

LEMMA TypeSplitNext == TypeOK' <=> Types' /\ Flags'
BY DEF TypeOK, Types, Flags, ArtTypes, JobType, TurnType, LedgerType, LateType, SentType, ArtsType,
       ShownType, Gates, GateType, All, Artifacts

(* Every job record the model writes is one.                               *)
LEMMA JobTyped ==
    /\ \A p \in {"running", "asking", "ended"} :
          \A s \in {"running", "completed", "failed", "cancelled"} :
             [pc |-> p, state |-> s] \in JobType
    /\ \A j \in JobType : \A p \in {"running", "asking", "ended"} :
          /\ [j EXCEPT !.pc = p] \in JobType
          /\ [j EXCEPT !.pc = p].pc = p
BY DEF JobType

(* The same of the turn's record.                                          *)
LEMMA TurnTyped ==
    /\ \A t \in TurnType : \A p \in {"driving", "routed", "settled", "sending"} :
          [t EXCEPT !.pc = p] \in TurnType
    /\ \A t \in TurnType : t.next <= t.upto => [t EXCEPT !.next = @ + 1] \in TurnType
    /\ \A t \in TurnType : t.next <= t.upto =>
          [t EXCEPT !.pc = "inline", !.next = @ + 1] \in TurnType
    /\ \A c \in BOOLEAN : \A u \in 0..MaxArtifacts :
          [pc |-> "inline", next |-> 1, claimed |-> c, upto |-> u] \in TurnType
<1>1. \A t \in TurnType : \A p \in {"driving", "routed", "settled", "sending"} :
          [t EXCEPT !.pc = p] \in TurnType
  BY DEF TurnType
<1>2. ASSUME NEW t \in TurnType, t.next <= t.upto
      PROVE  /\ [t EXCEPT !.next = @ + 1] \in TurnType
             /\ [t EXCEPT !.pc = "inline", !.next = @ + 1] \in TurnType
  <2>1. t.next + 1 \in 1..All
    BY <1>2, BoundsAssumption DEF TurnType, All
  <2> QED
    BY <2>1 DEF TurnType
<1>3. ASSUME NEW c \in BOOLEAN, NEW u \in 0..MaxArtifacts
      PROVE  [pc |-> "inline", next |-> 1, claimed |-> c, upto |-> u] \in TurnType
  <2>1. 1 \in 1..All
    BY BoundsAssumption DEF All
  <2> QED
    BY <2>1 DEF TurnType
<1> QED
  BY <1>1, <1>2, <1>3

LEMMA LateTyped ==
    /\ \A l \in LateType : \A p \in {"waiting", "groups", "discard", "done"} :
          [l EXCEPT !.pc = p] \in LateType
    /\ \A l \in LateType : l.group <= All =>
          /\ [l EXCEPT !.group = @ + 1] \in LateType
          /\ [pc |-> "sending", group |-> l.group] \in LateType
          /\ [pc |-> "groups", group |-> l.group + 1] \in LateType
BY BoundsAssumption DEF LateType, All

LEMMA LedgerTyped ==
    ASSUME ledger \in LedgerType, NEW as, NEW m \in {"none", "reserved", "finished"}
    PROVE  /\ Marked(as, m) \in LedgerType
           /\ [a \in Artifacts |-> "none"] \in LedgerType
           /\ \A a \in Artifacts : Marked(as, m)[a] = IF a \in as THEN m ELSE ledger[a]
BY DEF LedgerType, Marked

LEMMA ArtsTyped ==
    /\ \A as \in ArtsType : Len(as) \in 0..MaxArtifacts /\ as \in Seq(ArtTypes)
    /\ 0..MaxArtifacts \subseteq 0..All
    /\ \A as \in Seq(ArtTypes) : \A a \in 1..Len(as) : as[a] \in ArtTypes
BY BoundsAssumption DEF ArtsType, All

(* The helpers keep the types.                                             *)
LEMMA PublishTyped ==
    ASSUME GateType, arts' \in ArtsType, NEW r \in Gates, PublishGate(r)
    PROVE  GateType'
BY ArtsTyped DEF GateType, PublishGate

LEMMA FinishTyped ==
    ASSUME ledger \in LedgerType, fate \in SUBSET Artifacts, NEW as \in SUBSET Artifacts, Finish(as)
    PROVE  ledger' \in LedgerType /\ fate' \in SUBSET Artifacts
BY LedgerTyped DEF Finish

LEMMA SettleTyped ==
    ASSUME t1 \in TurnType, job \in JobType, NEW pc, Settle(pc)
    PROVE  t1' \in TurnType /\ job' \in JobType
BY TurnTyped, JobTyped DEF Settle

LEMMA InlineTyped ==
    ASSUME GateType, arts \in ArtsType, Counters, Inline
    PROVE  t1' \in TurnType
<1>1. (IF boundary = All THEN Len(arts) ELSE boundary) \in 0..MaxArtifacts
  BY ArtsTyped, BoundsAssumption DEF GateType, Counters, All
<1> QED
  BY <1>1, TurnTyped DEF Inline

LEMMA ShownTyped ==
    ASSUME shown \in ShownType, NEW a \in Artifacts
    PROVE  Append(shown, [art |-> a, by |-> "T1"]) \in ShownType
BY DEF ShownType, SentType

(* What the next inline step is about is an artifact.                      *)
LEMMA NextIsArtifact ==
    ASSUME Types, Counters, t1.pc \in {"inline", "sending"}, t1.next <= t1.upto
    PROVE  t1.next \in Artifacts /\ t1.next \in 1..Len(arts) /\ arts[t1.next] \in ArtTypes
<1>1. t1.next \in 1..All /\ t1.upto \in 0..MaxArtifacts
  BY DEF Types, TurnType
<1>2. t1.next \in 1..Len(arts)
  BY <1>1, ArtsTyped DEF Types, Counters, All
<1> QED
  BY <1>2, ArtsTyped, BoundsAssumption DEF Types, Artifacts

LEMMA GroupIsSmall == arts \in ArtsType => \A g : Group(g) \subseteq Artifacts
BY ArtsTyped, BoundsAssumption DEF Group, Finals, Artifacts

LEMMA ProducedTyped ==
    ASSUME arts \in ArtsType, Len(arts) < MaxArtifacts, NEW final \in BOOLEAN,
           GroupsBounded, Produce(final)
    PROVE  arts' \in ArtsType /\ GroupsBounded'
<1> DEFINE last == IF arts = <<>> THEN 1 ELSE arts[Len(arts)].group
<1>1. arts \in Seq(ArtTypes) /\ Len(arts) \in Nat /\ Len(arts) + 1 <= MaxArtifacts
  BY BoundsAssumption DEF ArtsType
<1>2. last \in Nat /\ 1 <= last /\ last <= Len(arts) + 1
  <2>1. CASE arts = <<>>
    BY <2>1, <1>1
  <2>2. CASE arts # <<>>
    <3>1. Len(arts) \in DOMAIN arts /\ Len(arts) \in 1..Len(arts)
      BY <1>1, <2>2
    <3>2. arts[Len(arts)] \in ArtTypes /\ arts[Len(arts)].group <= Len(arts) + 1
      BY <1>1, <3>1 DEF GroupsBounded
    <3> QED
      BY <2>2, <3>2, BoundsAssumption DEF ArtTypes, All
  <2> QED
    BY <2>1, <2>2
<1>3. PICK g \in {last, last + 1} : arts' = Append(arts, [final |-> final, group |-> g])
  BY DEF Produce
<1>4. g \in 1..All
  BY <1>1, <1>2, <1>3, BoundsAssumption DEF All
<1>5. [final |-> final, group |-> g] \in ArtTypes
  BY <1>4 DEF ArtTypes
<1> DEFINE e == [final |-> final, group |-> g]
<1>6. e.group <= Len(arts) + 2
  BY <1>1, <1>2, <1>3
<1> HIDE DEF last, e
<1>7. /\ arts' \in Seq(ArtTypes) /\ Len(arts') = Len(arts) + 1
      /\ \A a \in 1..Len(arts) : arts'[a] = arts[a]
      /\ arts'[Len(arts) + 1] = e
  BY <1>1, <1>3, <1>5 DEF e
<1>8. GroupsBounded'
  BY <1>1, <1>6, <1>7 DEF GroupsBounded
<1> QED
  BY <1>1, <1>7, <1>8 DEF ArtsType

(* What the late delivery of a group adds to the history.                  *)
LateSends(s) == [i \in DOMAIN s |-> [art |-> s[i], by |-> "T2"]]

LEMMA LateShown ==
    ASSUME shown \in ShownType, NEW left \in SUBSET Artifacts,
           NEW s \in [1..Cardinality(left) -> left]
    PROVE  /\ Cardinality(left) \in Nat
           /\ LateSends(s) \in Seq(SentType) /\ Len(LateSends(s)) = Cardinality(left)
           /\ shown \o LateSends(s) \in ShownType
<1>1. IsFiniteSet(left)
  <2>1. IsFiniteSet(1..MaxArtifacts)
    BY FS_Interval, BoundsAssumption
  <2> QED
    BY <2>1, FS_Subset DEF Artifacts
<1>2. Cardinality(left) \in Nat
  BY <1>1, FS_CardinalityType
<1>3. \A i \in 1..Cardinality(left) : [art |-> s[i], by |-> "T2"] \in SentType
  BY DEF SentType
<1>4. LateSends(s) \in [1..Cardinality(left) -> SentType]
  BY <1>3 DEF LateSends
<1>5. LateSends(s) \in Seq(SentType) /\ Len(LateSends(s)) = Cardinality(left)
  BY <1>2, <1>4
<1> QED
  BY <1>2, <1>5 DEF ShownType
(* What the inline delivery starts with.                                   *)
LEMMA InlineStarts ==
    ASSUME Inline
    PROVE  /\ t1'.pc = "inline" /\ t1'.next = 1
           /\ t1'.upto = IF boundary = All THEN Len(arts) ELSE boundary
           /\ UNCHANGED <<job, bridge>>
BY DEF Inline

(* What the job produces comes last.                                       *)
LEMMA Grows ==
    ASSUME arts \in ArtsType, NEW final \in BOOLEAN, Produce(final)
    PROVE  /\ Len(arts') = Len(arts) + 1 /\ Len(arts) \in Nat
           /\ \A a \in 1..Len(arts) : arts'[a] = arts[a]
           /\ Finals(arts) \subseteq 1..Len(arts)
           /\ Finals(arts') = Finals(arts) \cup IF final THEN {Len(arts) + 1} ELSE {}
<1>1. arts \in Seq(ArtTypes) /\ Len(arts) \in Nat
  BY DEF ArtsType
<1>2. PICK g : arts' = Append(arts, [final |-> final, group |-> g])
  BY DEF Produce
<1> DEFINE e == [final |-> final, group |-> g]
<1>3. e.final = final
  OBVIOUS
<1> HIDE DEF e
<1>4. /\ Len(arts') = Len(arts) + 1
      /\ \A a \in 1..Len(arts) : arts'[a] = arts[a]
      /\ arts'[Len(arts) + 1] = e
  BY <1>1, <1>2 DEF e
<1>5. Finals(arts') = Finals(arts) \cup IF final THEN {Len(arts) + 1} ELSE {}
  BY <1>1, <1>3, <1>4 DEF Finals
<1> QED
  BY <1>1, <1>4, <1>5 DEF Finals

(* The boundary, once drawn, is no longer than what there is.              *)
LEMMA BoundaryKept ==
    ASSUME GateType, arts \in ArtsType, arts' \in ArtsType, Len(arts) <= Len(arts'), Counters,
           NEW r \in Gates, PublishGate(r)
    PROVE  boundary' = All \/ boundary' <= Len(arts')
BY ArtsTyped, BoundsAssumption DEF PublishGate, Counters, GateType, All

LEMMA FinalsBounded ==
    arts \in ArtsType => Finals(arts) \subseteq 1..Len(arts) /\ Len(arts) \in 0..MaxArtifacts
BY ArtsTyped DEF Finals

(* Where the artifacts of a late group are in the history.                 *)
LEMMA LateSuffix ==
    ASSUME shown \in ShownType, NEW left \in SUBSET Artifacts,
           NEW s \in [1..Cardinality(left) -> left], shown' = shown \o LateSends(s)
    PROVE  /\ \A i \in DOMAIN shown : i \in DOMAIN shown' /\ shown'[i] = shown[i]
           /\ \A i \in DOMAIN shown' :
                 \/ i \in DOMAIN shown
                 \/ /\ i - Len(shown) \in 1..Cardinality(left)
                    /\ shown'[i].art = s[i - Len(shown)]
           /\ DOMAIN shown = 1..Len(shown) /\ DOMAIN shown' \subseteq Nat /\ Len(shown) \in Nat
<1> DEFINE q == LateSends(s)
<1>1. /\ q \in Seq(SentType) /\ Len(q) = Cardinality(left) /\ shown \in Seq(SentType)
      /\ Cardinality(left) \in Nat
  BY LateShown DEF ShownType
<1>2. /\ Len(shown') = Len(shown) + Len(q)
      /\ \A i \in 1..Len(shown) + Len(q) :
            shown'[i] = IF i <= Len(shown) THEN shown[i] ELSE q[i - Len(shown)]
      /\ shown' \in Seq(SentType)
  BY <1>1, ConcatProperties
<1>3. \A i \in 1..Cardinality(left) : q[i].art = s[i]
  BY DEF LateSends
<1> HIDE DEF q
<1> QED
  BY <1>1, <1>2, <1>3, SMTT(20), ZenonT(30)

(* What the ledger holds after a marking.                                  *)
LEMMA MarkedLedger ==
    ASSUME ledger \in LedgerType, NEW as, NEW m \in {"none", "reserved", "finished"},
           ledger' = Marked(as, m)
    PROVE  \A a \in Artifacts : ledger'[a] = IF a \in as THEN m ELSE ledger[a]
BY DEF Marked, LedgerType

LEMMA FinishedLedger ==
    ASSUME ledger \in LedgerType, NEW as, Finish(as)
    PROVE  /\ \A a \in Artifacts : ledger'[a] = IF a \in as THEN "finished" ELSE ledger[a]
           /\ fate' = fate \cup as
BY DEF Finish, Marked, LedgerType

LEMMA ShownArts == shown \in ShownType => \A i \in DOMAIN shown : shown[i].art \in Artifacts
<1> SUFFICES ASSUME shown \in ShownType, NEW i \in DOMAIN shown
             PROVE  shown[i].art \in Artifacts
  OBVIOUS
<1>1. shown[i] \in SentType
  BY DEF ShownType
<1> QED
  BY <1>1 DEF SentType

LEMMA FinalGroups == arts \in ArtsType => \A a \in Finals(arts) : arts[a].group \in 1..All
<1> SUFFICES ASSUME arts \in ArtsType, NEW a \in Finals(arts)
             PROVE  arts[a].group \in 1..All
  OBVIOUS
<1>1. arts[a] \in ArtTypes
  BY ArtsTyped DEF Finals
<1> QED
  BY <1>1 DEF ArtTypes

-----------------------------------------------------------------------------
(* Every step keeps the types.                                             *)
LEMMA TypesStep == Types /\ Flags /\ Counters /\ GroupsBounded /\ [Next]_vars => Types'
<1> SUFFICES ASSUME Types, Flags, Counters, GroupsBounded, [Next]_vars
             PROVE  Types'
  OBVIOUS
<1> USE BoundsAssumption
<1>1. ASSUME NEW final \in BOOLEAN, Produce(final) PROVE Types'
  <2>1. arts \in ArtsType /\ job \in JobType /\ GateType
    BY DEF Types
  <2>2. arts' \in ArtsType
    BY <1>1, <2>1, ProducedTyped DEF Produce
  <2>3. GateType'
    <3>1. CASE final
      <4>1. PICK r \in Gates : PublishGate(r)
        BY <1>1, <3>1 DEF Produce, Gates
      <4> QED
        BY <2>1, <2>2, <4>1, PublishTyped
    <3>2. CASE ~final
      BY <1>1, <2>1, <3>2 DEF Produce, GateType
    <3> QED
      BY <3>1, <3>2
  <2> QED
    BY <1>1, <2>2, <2>3 DEF Produce, Types, delivery
<1>2. CASE StopEvent
  BY <1>2, JobTyped, TurnTyped, LateTyped, LedgerTyped, ArtsTyped DEF StopEvent,
      JobStep, delivery, Types, GateType, Gates
<1>3. CASE Ask
  <2>1. GateType'
    BY <1>3, PublishTyped DEF Ask, Types, Gates
  <2>2. job' \in JobType
    BY <1>3, JobTyped DEF Ask, Types
  <2> QED
    BY <1>3, <2>1, <2>2 DEF Ask, Types, delivery
<1>4. CASE JobReturns
  <2>1. PICK r \in Gates : PublishGate(r)
    BY <1>4 DEF JobReturns, Gates
  <2>2. GateType'
    BY <1>4, <2>1, PublishTyped DEF JobReturns, Types
  <2> QED
    BY <1>4, <2>2, JobTyped DEF JobReturns, Types, delivery
<1>5. CASE JobFails
  BY <1>5, JobTyped, TurnTyped, LateTyped, LedgerTyped, ArtsTyped, SMTT(20), ZenonT(30) DEF JobFails,
      PublishGate, delivery, All, Types, GateType, Gates
<1>6. CASE ScheduleCompletion
  BY <1>6, JobTyped, TurnTyped, LateTyped, LedgerTyped, ArtsTyped DEF
      ScheduleCompletion, Artifacts, branch, Types, GateType, Gates
<1>7. CASE WindowEnds
  BY <1>7, JobTyped, TurnTyped, LateTyped, LedgerTyped, ArtsTyped DEF WindowEnds,
      PublishGate, branch, delivery, All, Types, GateType, Gates
<1>8. CASE CloseScope
  BY <1>8, JobTyped, TurnTyped, LateTyped, LedgerTyped, ArtsTyped DEF CloseScope,
      branch, delivery, Types, GateType, Gates
<1>9. CASE ResolveControl
  <2>1. t1' \in TurnType /\ job' \in JobType
    BY <1>9, SettleTyped, InlineTyped, TurnTyped DEF ResolveControl, Types, Inline
  <2> QED
    BY <1>9, <2>1 DEF ResolveControl, Types, GateType, delivery
<1>10. CASE LeaveControl
  BY <1>10, JobTyped, TurnTyped, LateTyped, LedgerTyped, ArtsTyped DEF LeaveControl,
      Settle, delivery, Types, GateType, Gates
<1>11. CASE Receive
  BY <1>11, JobTyped, TurnTyped, LateTyped, LedgerTyped, ArtsTyped DEF Receive,
      branch, delivery, Types, GateType, Gates
<1>12. CASE Served
  BY <1>12, JobTyped, TurnTyped, LateTyped, LedgerTyped, ArtsTyped DEF Served,
      delivery, Types, GateType, Gates
<1>13. CASE DrivingFails
  BY <1>13, JobTyped, TurnTyped, LateTyped, LedgerTyped, ArtsTyped DEF DrivingFails,
      Settle, delivery, Types, GateType, Gates
<1>14. CASE DrivingEnds
  <2>1. t1' \in TurnType /\ job' \in JobType
    BY <1>14, SettleTyped, InlineTyped DEF DrivingEnds, Types, Inline
  <2> QED
    BY <1>14, <2>1 DEF DrivingEnds, Types, GateType, delivery
<1>15. CASE InlineNext
  <2>1. t1.next \in Artifacts /\ {t1.next} \subseteq Artifacts /\ t1 \in TurnType /\ t1.next <= t1.upto
    BY <1>15, NextIsArtifact DEF InlineNext, Types
  <2>2. t1' \in TurnType
    BY <1>15, <2>1, TurnTyped DEF InlineNext
  <2>3. ledger' \in LedgerType /\ fate' \in SUBSET Artifacts
    BY <1>15, <2>1, FinishTyped, LedgerTyped DEF InlineNext, Types, delivery
  <2>4. shown' \in ShownType
    BY <1>15, <2>1, ShownTyped DEF InlineNext, Types, delivery
  <2> QED
    BY <1>15, <2>2, <2>3, <2>4 DEF InlineNext, Types, GateType, branch
<1>16. CASE InlineSent
  <2>1. t1.next \in Artifacts /\ {t1.next} \subseteq Artifacts /\ t1 \in TurnType /\ t1.next <= t1.upto
    BY <1>16, NextIsArtifact DEF InlineSent, Types, Counters
  <2>2. t1' \in TurnType
    BY <1>16, <2>1, TurnTyped DEF InlineSent
  <2>3. ledger' \in LedgerType /\ fate' \in SUBSET Artifacts
    BY <1>16, <2>1, FinishTyped DEF InlineSent, Types
  <2> QED
    BY <1>16, <2>2, <2>3 DEF InlineSent, Types, GateType, branch
<1>17. CASE InlineFails
  <2>1. t1.pc = "sending" => {t1.next} \subseteq Artifacts
    BY <1>17, NextIsArtifact DEF InlineFails, Types, Counters
  <2>2. t1' \in TurnType /\ job' \in JobType
    BY <1>17, <2>1, SettleTyped DEF InlineFails, Types
  <2>3. ledger' \in LedgerType /\ fate' \in SUBSET Artifacts
    BY <1>17, <2>1, FinishTyped DEF InlineFails, Types
  <2> QED
    BY <1>17, <2>2, <2>3 DEF InlineFails, Types, GateType
<1>18. CASE InlineEnds
  BY <1>18, JobTyped, TurnTyped, LateTyped, LedgerTyped, ArtsTyped DEF InlineEnds,
      Settle, delivery, Types, GateType, Gates
<1>19. CASE LateBegins
  BY <1>19, JobTyped, TurnTyped, LateTyped, LedgerTyped, ArtsTyped DEF LateBegins,
      LateStep, Eligible, delivery, branch, Types, GateType, Gates
<1>20. CASE LateGroup
  <2> DEFINE left == Reservable(Group(late.group))
  <2>1. left \subseteq Artifacts
    BY GroupIsSmall DEF Types, Reservable
  <2>2. late' \in LateType
    BY <1>20, LateTyped DEF LateGroup, Types, All
  <2>3. ledger' \in LedgerType /\ fate' \in SUBSET Artifacts
    <3> HIDE DEF left
    <3>1. CASE Finish(left)
      BY <2>1, <3>1, FinishTyped DEF Types
    <3>2. CASE ledger' = Marked(left, "reserved") /\ UNCHANGED fate
      BY <2>1, <3>2, LedgerTyped DEF Types
    <3> QED
      BY <1>20, <3>1, <3>2 DEF LateGroup, left
  <2>4. shown' \in ShownType
    <3>1. CASE UNCHANGED shown
      BY <3>1 DEF Types
    <3>2. ASSUME NEW s \in [1..Cardinality(left) -> left],
                 shown' = shown \o LateSends(s)
          PROVE  shown' \in ShownType
      BY <2>1, <3>2, LateShown DEF Types
    <3> QED
      BY <1>20, <3>1, <3>2 DEF LateGroup, LateSends
  <2> QED
    BY <1>20, <2>2, <2>3, <2>4 DEF LateGroup, LateStep, Types, GateType, branch
<1>21. CASE LateSent
  <2> DEFINE sent == {a \in Group(late.group) : ledger[a] = "reserved"}
  <2>1. sent \subseteq Artifacts
    BY GroupIsSmall DEF Types
  <2>2. late' \in LateType
    BY <1>21, LateTyped DEF LateSent, Types, Counters
  <2>3. ledger' \in LedgerType /\ fate' \in SUBSET Artifacts
    BY <1>21, <2>1, FinishTyped DEF LateSent, Types
  <2> QED
    BY <1>21, <2>2, <2>3 DEF LateSent, LateStep, Types, GateType, branch
<1>22. CASE LateEnds
  BY <1>22, JobTyped, TurnTyped, LateTyped, LedgerTyped, ArtsTyped DEF LateEnds,
      LateStep, delivery, branch, Types, GateType, Gates
<1>23. CASE Discard
  BY <1>23, JobTyped, TurnTyped, LateTyped, LedgerTyped, ArtsTyped DEF Discard,
      Artifacts, branch, Types, GateType, Gates
<1>24. CASE Shutdown
  BY <1>24, JobTyped, TurnTyped, LateTyped, LedgerTyped, ArtsTyped DEF Shutdown,
      branch, delivery, Types, GateType, Gates
<1>25. CASE UNCHANGED vars
  BY <1>25 DEF vars, branch, delivery, Types, GateType, Gates
<1> QED
  BY <1>1, <1>2, <1>3, <1>4, <1>5, <1>6, <1>7, <1>8, <1>9, <1>10, <1>11, <1>12,
      <1>13, <1>14, <1>15, <1>16, <1>17, <1>18, <1>19, <1>20, <1>21, <1>22, <1>23,
      <1>24, <1>25 DEF Next, Job, Turn, Late


LEMMA FlagsStep == Flags /\ [Next]_vars => Flags'
<1> SUFFICES ASSUME Flags, [Next]_vars
             PROVE  Flags'
  OBVIOUS
<1> USE BoundsAssumption
<1>1. ASSUME NEW final \in BOOLEAN, Produce(final) PROVE Flags'
  BY <1>1 DEF Produce, JobStep, PublishGate, delivery, All, Flags
<1>2. CASE StopEvent
  BY <1>2 DEF StopEvent, JobStep, delivery, Flags
<1>3. CASE Ask
  <2>1. bridge' \in {"empty", "queued", "serving", "closed"}
    BY <1>3 DEF Ask, Flags
  <2>2. requests' \in 0..MaxRequests
    <3>1. requests \in 0..MaxRequests /\ requests < MaxRequests /\ requests' = requests + 1
      BY <1>3 DEF Ask, Flags
    <3> QED
      BY <3>1
  <2> QED
    BY <1>3, <2>1, <2>2 DEF Ask, Flags
<1>4. CASE JobReturns
  BY <1>4 DEF JobReturns, JobStep, PublishGate, Finals, delivery, All, Flags
<1>5. CASE JobFails
  BY <1>5 DEF JobFails, PublishGate, delivery, All, Flags
<1>6. CASE ScheduleCompletion
  BY <1>6 DEF ScheduleCompletion, Artifacts, branch, Flags
<1>7. CASE WindowEnds
  BY <1>7 DEF WindowEnds, PublishGate, branch, delivery, All, Flags
<1>8. CASE CloseScope
  BY <1>8 DEF CloseScope, branch, delivery, Flags
<1>9. CASE ResolveControl
  BY <1>9 DEF ResolveControl, Inline, Settle, delivery, All, Flags
<1>10. CASE LeaveControl
  BY <1>10 DEF LeaveControl, Settle, delivery, Flags
<1>11. CASE Receive
  BY <1>11 DEF Receive, branch, delivery, Flags
<1>12. CASE Served
  BY <1>12 DEF Served, delivery, Flags
<1>13. CASE DrivingFails
  BY <1>13 DEF DrivingFails, Settle, delivery, Flags
<1>14. CASE DrivingEnds
  BY <1>14 DEF DrivingEnds, Settle, Inline, delivery, All, Flags
<1>15. CASE InlineNext
  BY <1>15 DEF InlineNext, Reservable, delivery, Finish, Marked, branch, Artifacts,
      Flags
<1>16. CASE InlineSent
  BY <1>16 DEF InlineSent, Finish, branch, Marked, Artifacts, Flags
<1>17. CASE InlineFails
  BY <1>17 DEF InlineFails, Finish, Settle, Marked, Artifacts, Flags
<1>18. CASE InlineEnds
  BY <1>18 DEF InlineEnds, Settle, delivery, Flags
<1>19. CASE LateBegins
  BY <1>19 DEF LateBegins, LateStep, Eligible, delivery, branch, Flags
<1>20. CASE LateGroup
  BY <1>20 DEF LateGroup, Reservable, Group, LateStep, Finish, Marked, Finals,
      branch, Artifacts, Flags
<1>21. CASE LateSent
  BY <1>21 DEF LateSent, LateStep, Finish, Group, branch, Marked, Finals, Artifacts,
      Flags
<1>22. CASE LateEnds
  BY <1>22 DEF LateEnds, LateStep, delivery, branch, Flags
<1>23. CASE Discard
  BY <1>23 DEF Discard, Artifacts, branch, Flags
<1>24. CASE Shutdown
  BY <1>24 DEF Shutdown, branch, delivery, Flags
<1>25. CASE UNCHANGED vars
  BY <1>25 DEF vars, branch, delivery, Flags
<1> QED
  BY <1>1, <1>2, <1>3, <1>4, <1>5, <1>6, <1>7, <1>8, <1>9, <1>10, <1>11, <1>12,
      <1>13, <1>14, <1>15, <1>16, <1>17, <1>18, <1>19, <1>20, <1>21, <1>22, <1>23,
      <1>24, <1>25 DEF Next, Job, Turn, Late


(* An artifact's group is at most one more than that of the one before.    *)
LEMMA BoundedStep == Types /\ GroupsBounded /\ [Next]_vars => GroupsBounded'
<1> SUFFICES ASSUME Types, GroupsBounded, [Next]_vars
             PROVE  GroupsBounded'
  OBVIOUS
<1> USE BoundsAssumption
<1>1. ASSUME NEW final \in BOOLEAN, Produce(final) PROVE GroupsBounded'
  BY <1>1, ProducedTyped DEF Types, Produce
<1>2. CASE StopEvent
  BY <1>2 DEF StopEvent, JobStep, delivery, GroupsBounded
<1>3. CASE Ask
  BY <1>3 DEF Ask, JobStep, delivery, GroupsBounded
<1>4. CASE JobReturns
  BY <1>4 DEF JobReturns, JobStep, delivery, GroupsBounded
<1>5. CASE JobFails
  BY <1>5 DEF JobFails, delivery, GroupsBounded
<1>6. CASE ScheduleCompletion
  BY <1>6 DEF ScheduleCompletion, Artifacts, branch, GroupsBounded
<1>7. CASE WindowEnds
  BY <1>7 DEF WindowEnds, branch, delivery, GroupsBounded
<1>8. CASE CloseScope
  BY <1>8 DEF CloseScope, branch, delivery, GroupsBounded
<1>9. CASE ResolveControl
  BY <1>9 DEF ResolveControl, delivery, GroupsBounded
<1>10. CASE LeaveControl
  BY <1>10 DEF LeaveControl, delivery, GroupsBounded
<1>11. CASE Receive
  BY <1>11 DEF Receive, branch, delivery, GroupsBounded
<1>12. CASE Served
  BY <1>12 DEF Served, delivery, GroupsBounded
<1>13. CASE DrivingFails
  BY <1>13 DEF DrivingFails, delivery, GroupsBounded
<1>14. CASE DrivingEnds
  BY <1>14 DEF DrivingEnds, delivery, GroupsBounded
<1>15. CASE InlineNext
  BY <1>15 DEF InlineNext, delivery, branch, GroupsBounded
<1>16. CASE InlineSent
  BY <1>16 DEF InlineSent, branch, GroupsBounded
<1>17. CASE InlineFails
  BY <1>17 DEF InlineFails, GroupsBounded
<1>18. CASE InlineEnds
  BY <1>18 DEF InlineEnds, delivery, GroupsBounded
<1>19. CASE LateBegins
  BY <1>19 DEF LateBegins, LateStep, delivery, branch, GroupsBounded
<1>20. CASE LateGroup
  BY <1>20 DEF LateGroup, LateStep, branch, GroupsBounded
<1>21. CASE LateSent
  BY <1>21 DEF LateSent, LateStep, branch, GroupsBounded
<1>22. CASE LateEnds
  BY <1>22 DEF LateEnds, LateStep, delivery, branch, GroupsBounded
<1>23. CASE Discard
  BY <1>23 DEF Discard, Artifacts, branch, GroupsBounded
<1>24. CASE Shutdown
  BY <1>24 DEF Shutdown, branch, delivery, GroupsBounded
<1>25. CASE UNCHANGED vars
  BY <1>25 DEF vars, branch, delivery, GroupsBounded
<1> QED
  BY <1>1, <1>2, <1>3, <1>4, <1>5, <1>6, <1>7, <1>8, <1>9, <1>10, <1>11, <1>12,
      <1>13, <1>14, <1>15, <1>16, <1>17, <1>18, <1>19, <1>20, <1>21, <1>22, <1>23,
      <1>24, <1>25 DEF Next, Job, Turn, Late

(* Every step keeps the bounds of the counters.                            *)
LEMMA CountersStep == Types /\ Flags /\ Counters /\ GroupsBounded /\ [Next]_vars => Counters'
<1> SUFFICES ASSUME Types, Flags, Counters, GroupsBounded, [Next]_vars
             PROVE  Counters'
  OBVIOUS
<1> USE BoundsAssumption
<1>1. ASSUME NEW final \in BOOLEAN, Produce(final) PROVE Counters'
  <2>1. arts' \in ArtsType /\ Len(arts') = Len(arts) + 1 /\ Len(arts) \in Nat
    BY <1>1, ProducedTyped, Grows DEF Types, Produce
  <2>2. boundary' = All \/ boundary' <= Len(arts')
    <3>1. CASE final
      <4>1. PICK r \in Gates : PublishGate(r)
        BY <1>1, <3>1 DEF Produce, Gates
      <4> QED
        BY <2>1, <4>1, BoundaryKept DEF Types
    <3>2. CASE ~final
      BY <1>1, <2>1, <3>2 DEF Produce, Types, GateType, Counters, All
    <3> QED
      BY <3>1, <3>2
  <2>3. t1' = t1 /\ late' = late
    BY <1>1 DEF Produce
  <2> QED
    BY <2>1, <2>2, <2>3 DEF Counters, Types, TurnType
<1>2. CASE StopEvent
  BY <1>2, ArtsTyped DEF StopEvent, JobStep, delivery, Types, TurnType, JobType,
      LateType, Flags, Counters, GateType
<1>3. CASE Ask
  BY <1>3, ArtsTyped DEF Ask, JobStep, PublishGate, delivery, All, Types, TurnType,
      JobType, LateType, Flags, Counters, GateType
<1>4. CASE JobReturns
  <2>1. PICK r \in Gates : PublishGate(r)
    BY <1>4 DEF JobReturns, Gates
  <2>2. boundary' = All \/ boundary' <= Len(arts')
    BY <1>4, <2>1, BoundaryKept, ArtsTyped DEF JobReturns, Types
  <2> QED
    BY <1>4, <2>2 DEF JobReturns, Counters
<1>5. CASE JobFails
  BY <1>5, ArtsTyped DEF JobFails, PublishGate, delivery, All, Types, TurnType,
      JobType, LateType, Flags, Counters, GateType
<1>6. CASE ScheduleCompletion
  BY <1>6, ArtsTyped DEF ScheduleCompletion, Artifacts, branch, Types, TurnType,
      JobType, LateType, Flags, Counters, GateType
<1>7. CASE WindowEnds
  BY <1>7, ArtsTyped DEF WindowEnds, PublishGate, branch, delivery, All, Types,
      TurnType, JobType, LateType, Flags, Counters, GateType
<1>8. CASE CloseScope
  BY <1>8, ArtsTyped DEF CloseScope, branch, delivery, Types, TurnType, JobType,
      LateType, Flags, Counters, GateType
<1>9. CASE ResolveControl
  <2>1. CASE Inline
    BY <1>9, <2>1, InlineStarts, ArtsTyped DEF ResolveControl, Counters, Types, GateType, All
  <2>2. CASE ~Inline
    BY <1>9, <2>2 DEF ResolveControl, Settle, Counters, Types, TurnType
  <2> QED
    BY <2>1, <2>2
<1>10. CASE LeaveControl
  BY <1>10, ArtsTyped DEF LeaveControl, Settle, delivery, Types, TurnType, JobType,
      LateType, Flags, Counters, GateType
<1>11. CASE Receive
  BY <1>11, ArtsTyped DEF Receive, branch, delivery, Types, TurnType, JobType,
      LateType, Flags, Counters, GateType
<1>12. CASE Served
  BY <1>12, ArtsTyped DEF Served, delivery, Types, TurnType, JobType, LateType,
      Flags, Counters, GateType
<1>13. CASE DrivingFails
  BY <1>13, ArtsTyped DEF DrivingFails, Settle, delivery, Types, TurnType, JobType,
      LateType, Flags, Counters, GateType
<1>14. CASE DrivingEnds
  <2>1. CASE Inline
    BY <1>14, <2>1, InlineStarts, ArtsTyped DEF DrivingEnds, Counters, Types, GateType, All
  <2>2. CASE ~Inline
    BY <1>14, <2>2 DEF DrivingEnds, Settle, Counters, Types, TurnType
  <2> QED
    BY <2>1, <2>2
<1>15. CASE InlineNext
  <2>1. t1.pc = "inline" /\ t1.next <= t1.upto /\ t1'.upto = t1.upto /\ t1 \in TurnType
    BY <1>15 DEF InlineNext, Types, TurnType
  <2>2. \/ t1'.pc = "inline" /\ t1'.next = t1.next + 1
        \/ t1'.pc = "sending" /\ t1'.next = t1.next
    BY <1>15 DEF InlineNext, Types, TurnType
  <2> QED
    BY <1>15, <2>1, <2>2 DEF InlineNext, branch, Counters, TurnType
<1>16. CASE InlineSent
  <2>1. t1'.upto = t1.upto /\ t1 \in TurnType /\ t1'.pc = "inline" /\ t1'.next = t1.next + 1
    BY <1>16 DEF InlineSent, Types, TurnType
  <2> QED
    BY <1>16, <2>1 DEF InlineSent, branch, Counters, TurnType
<1>17. CASE InlineFails
  BY <1>17, ArtsTyped DEF InlineFails, Settle, Types, TurnType, JobType, LateType,
      Flags, Counters, GateType
<1>18. CASE InlineEnds
  BY <1>18, ArtsTyped DEF InlineEnds, Settle, delivery, Types, TurnType, JobType,
      LateType, Flags, Counters, GateType
<1>19. CASE LateBegins
  BY <1>19, ArtsTyped DEF LateBegins, LateStep, delivery, branch, Types, TurnType,
      JobType, LateType, Flags, Counters, GateType
<1>20. CASE LateGroup
  <2>1. /\ late.group <= All /\ late'.pc \in {"groups", "sending"}
        /\ late'.pc = "sending" => late'.group = late.group
    BY <1>20 DEF LateGroup, Types, LateType, All
  <2>2. UNCHANGED <<boundary, arts, t1>>
    BY <1>20 DEF LateGroup, LateStep, branch
  <2> QED
    BY <2>1, <2>2 DEF Counters, All
<1>21. CASE LateSent
  BY <1>21, ArtsTyped DEF LateSent, LateStep, branch, Types, TurnType, JobType,
      LateType, Flags, Counters, GateType
<1>22. CASE LateEnds
  BY <1>22, ArtsTyped DEF LateEnds, LateStep, delivery, branch, Types, TurnType,
      JobType, LateType, Flags, Counters, GateType
<1>23. CASE Discard
  BY <1>23, ArtsTyped DEF Discard, Artifacts, branch, Types, TurnType, JobType,
      LateType, Flags, Counters, GateType
<1>24. CASE Shutdown
  BY <1>24, ArtsTyped DEF Shutdown, branch, delivery, Types, TurnType, JobType,
      LateType, Flags, Counters, GateType
<1>25. CASE UNCHANGED vars
  BY <1>25 DEF vars, branch, delivery, Types, TurnType, JobType, LateType, Flags, Counters, GateType
<1> QED
  BY <1>1, <1>2, <1>3, <1>4, <1>5, <1>6, <1>7, <1>8, <1>9, <1>10, <1>11, <1>12,
      <1>13, <1>14, <1>15, <1>16, <1>17, <1>18, <1>19, <1>20, <1>21, <1>22, <1>23,
      <1>24, <1>25 DEF Next, Job, Turn, Late

(* Every step keeps the order of job, turn and late delivery.              *)
LEMMA LateIsAfterStep == Types /\ Flags /\ LateIsAfter /\ GateExplained /\ DelegationExplained /\ [Next]_vars => LateIsAfter'
<1> SUFFICES ASSUME Types, Flags, LateIsAfter, GateExplained, DelegationExplained, [Next]_vars
             PROVE  LateIsAfter'
  OBVIOUS
<1> USE BoundsAssumption
<1>1. ASSUME NEW final \in BOOLEAN, Produce(final) PROVE LateIsAfter'
  BY <1>1 DEF Produce, JobStep, PublishGate, delivery, All, Types, TurnType,
      JobType, LateType, Flags, LateIsAfter, GateExplained
<1>2. CASE StopEvent
  BY <1>2 DEF StopEvent, JobStep, delivery, Types, TurnType, JobType, LateType,
      Flags, LateIsAfter, GateExplained
<1>3. CASE Ask
  <2>1. t1' = t1 /\ late' = late /\ closed' = closed /\ ~closed /\ job.pc = "running"
    BY <1>3 DEF Ask, JobStep
  <2>2. CASE UNCHANGED bridge /\ job'.pc # "asking"
    BY <2>1, <2>2 DEF LateIsAfter
  <2>3. CASE gate' = "delegated" /\ bridge # "closed" /\ bridge' = "queued" /\ job'.pc = "asking"
    <3>1. gate \in {"pending", "delegated"}
      BY <1>3, <2>3 DEF Ask, PublishGate
    <3>2. t1.pc \in {"control", "driving"}
      BY <2>1, <2>3, <3>1 DEF LateIsAfter, GateExplained, DelegationExplained, Types, TurnType
    <3> QED
      BY <2>1, <2>3, <3>2 DEF LateIsAfter
  <2> QED
    BY <1>3, <2>1, <2>2, <2>3 DEF Ask, Types, JobType, LateIsAfter
<1>4. CASE JobReturns
  BY <1>4 DEF JobReturns, JobStep, PublishGate, delivery, All, Types, TurnType,
      JobType, LateType, Flags, LateIsAfter, GateExplained
<1>5. CASE JobFails
  BY <1>5 DEF JobFails, PublishGate, delivery, All, Types, TurnType, JobType,
      LateType, Flags, LateIsAfter, GateExplained
<1>6. CASE ScheduleCompletion
  BY <1>6 DEF ScheduleCompletion, Artifacts, branch, Types, TurnType, JobType,
      LateType, Flags, LateIsAfter, GateExplained
<1>7. CASE WindowEnds
  BY <1>7 DEF WindowEnds, PublishGate, branch, delivery, All, Types, TurnType,
      JobType, LateType, Flags, LateIsAfter, GateExplained
<1>8. CASE CloseScope
  BY <1>8 DEF CloseScope, branch, delivery, Types, TurnType, JobType, LateType,
      Flags, LateIsAfter, GateExplained
<1>9. CASE ResolveControl
  <2>1. /\ late' = late /\ closed' = closed /\ t1.pc = "control" /\ late.pc \in {"none", "waiting"}
        /\ bridge # "closed" /\ ~closed
    BY <1>9 DEF ResolveControl, LateIsAfter
  <2>2. gate = "delegated" \/ job.pc # "asking"
    BY DEF GateExplained
  <2>3. CASE Settle("control")
    BY <2>1, <2>3 DEF LateIsAfter, Settle, Types, TurnType, JobType
  <2>4. CASE t1'.pc = "inline" /\ gate # "delegated" /\ UNCHANGED <<bridge, job>>
    BY <2>1, <2>2, <2>4 DEF LateIsAfter
  <2>5. CASE t1'.pc = "driving" /\ UNCHANGED <<bridge, job>>
    BY <2>1, <2>5 DEF LateIsAfter
  <2>6. CASE t1'.pc = "routed" /\ gate # "delegated" /\ UNCHANGED <<bridge, job>>
    BY <2>1, <2>2, <2>6 DEF LateIsAfter
  <2> QED
    BY <1>9, <2>3, <2>4, <2>5, <2>6, InlineStarts DEF ResolveControl, Types, TurnType
<1>10. CASE LeaveControl
  BY <1>10 DEF LeaveControl, Settle, delivery, Types, TurnType, JobType, LateType,
      Flags, LateIsAfter, GateExplained
<1>11. CASE Receive
  BY <1>11 DEF Receive, branch, delivery, Types, TurnType, JobType, LateType, Flags,
      LateIsAfter, GateExplained
<1>12. CASE Served
  BY <1>12 DEF Served, delivery, Types, TurnType, JobType, LateType, Flags,
      LateIsAfter, GateExplained
<1>13. CASE DrivingFails
  BY <1>13 DEF DrivingFails, Settle, delivery, Types, TurnType, JobType, LateType,
      Flags, LateIsAfter, GateExplained
<1>14. CASE DrivingEnds
  <2>1. /\ late' = late /\ closed' = closed /\ t1.pc = "driving" /\ late.pc \in {"none", "waiting"}
        /\ bridge # "closed" /\ ~closed /\ job.pc = "ended"
    BY <1>14 DEF DrivingEnds, LateIsAfter
  <2>2. CASE Settle("driving")
    BY <2>1, <2>2 DEF LateIsAfter, Settle, Types, TurnType, JobType
  <2>3. CASE t1'.pc = "inline" /\ UNCHANGED <<bridge, job>>
    BY <2>1, <2>3 DEF LateIsAfter
  <2> QED
    BY <1>14, <2>2, <2>3, InlineStarts DEF DrivingEnds
<1>15. CASE InlineNext
  BY <1>15 DEF InlineNext, delivery, branch, Types, TurnType, JobType, LateType,
      Flags, LateIsAfter, GateExplained
<1>16. CASE InlineSent
  BY <1>16 DEF InlineSent, branch, Types, TurnType, JobType, LateType, Flags,
      LateIsAfter, GateExplained
<1>17. CASE InlineFails
  BY <1>17 DEF InlineFails, Settle, Types, TurnType, JobType, LateType, Flags,
      LateIsAfter, GateExplained
<1>18. CASE InlineEnds
  BY <1>18 DEF InlineEnds, Settle, delivery, Types, TurnType, JobType, LateType,
      Flags, LateIsAfter, GateExplained
<1>19. CASE LateBegins
  BY <1>19 DEF LateBegins, LateStep, delivery, branch, Types, TurnType, JobType,
      LateType, Flags, LateIsAfter, GateExplained
<1>20. CASE LateGroup
  BY <1>20 DEF LateGroup, LateStep, branch, Types, TurnType, JobType, LateType,
      Flags, LateIsAfter, GateExplained
<1>21. CASE LateSent
  BY <1>21 DEF LateSent, LateStep, branch, Types, TurnType, JobType, LateType,
      Flags, LateIsAfter, GateExplained
<1>22. CASE LateEnds
  BY <1>22 DEF LateEnds, LateStep, delivery, branch, Types, TurnType, JobType,
      LateType, Flags, LateIsAfter, GateExplained
<1>23. CASE Discard
  BY <1>23 DEF Discard, Artifacts, branch, Types, TurnType, JobType, LateType,
      Flags, LateIsAfter, GateExplained
<1>24. CASE Shutdown
  BY <1>24 DEF Shutdown, branch, delivery, Types, TurnType, JobType, LateType,
      Flags, LateIsAfter, GateExplained
<1>25. CASE UNCHANGED vars
  BY <1>25 DEF vars, branch, delivery, Types, TurnType, JobType, LateType, Flags, LateIsAfter, GateExplained
<1> QED
  BY <1>1, <1>2, <1>3, <1>4, <1>5, <1>6, <1>7, <1>8, <1>9, <1>10, <1>11, <1>12,
      <1>13, <1>14, <1>15, <1>16, <1>17, <1>18, <1>19, <1>20, <1>21, <1>22, <1>23,
      <1>24, <1>25 DEF Next, Job, Turn, Late

(* Every step leaves a gate that says what has happened.                   *)
LEMMA GateStep == Types /\ Flags /\ LateIsAfter /\ GateExplained /\ DelegationExplained /\ [Next]_vars => GateExplained'
<1> SUFFICES ASSUME Types, Flags, LateIsAfter, GateExplained, DelegationExplained, [Next]_vars
             PROVE  GateExplained'
  OBVIOUS
<1> USE BoundsAssumption
<1>1. ASSUME NEW final \in BOOLEAN, Produce(final) PROVE GateExplained'
  <2>1. /\ Finals(arts') = IF final THEN Finals(arts') ELSE Finals(arts)
        /\ UNCHANGED <<t1, job>> /\ job.pc = "running"
    BY <1>1, Grows DEF Produce, JobStep, Types
  <2>2. CASE ~final
    BY <1>1, <2>1, <2>2 DEF Produce, GateExplained
  <2>3. CASE final
    <3>1. PICK r \in {"handled", "stopped"} : PublishGate(r)
      BY <1>1, <2>3 DEF Produce
    <3>2. CASE gate = "pending"
      BY <2>1, <3>1, <3>2 DEF PublishGate, GateExplained
    <3>3. CASE gate # "pending"
      BY <2>1, <3>1, <3>3 DEF PublishGate, GateExplained
    <3> QED
      BY <3>2, <3>3
  <2> QED
    BY <2>2, <2>3
<1>2. CASE StopEvent
  BY <1>2 DEF StopEvent, JobStep, delivery, Types, TurnType, JobType, LateType,
      Flags, LateIsAfter, GateExplained, GateType, Gates
<1>3. CASE Ask
  <2>1. t1' = t1 /\ arts' = arts /\ job.pc = "running" /\ PublishGate("delegated")
    BY <1>3 DEF Ask, JobStep
  <2>2. gate' = "delegated" \/ UNCHANGED <<gate, boundary, job>>
    BY <1>3 DEF Ask, PublishGate
  <2>3. CASE gate' = "delegated"
    BY <2>1, <2>3 DEF GateExplained, PublishGate
  <2> QED
    BY <2>1, <2>2, <2>3 DEF GateExplained
<1>4. CASE JobReturns
  BY <1>4 DEF JobReturns, JobStep, PublishGate, Finals, delivery, All, Types,
      TurnType, JobType, LateType, Flags, LateIsAfter, GateExplained, GateType,
      Gates
<1>5. CASE JobFails
  BY <1>5 DEF JobFails, PublishGate, delivery, All, Types, TurnType, JobType,
      LateType, Flags, LateIsAfter, GateExplained, GateType, Gates
<1>6. CASE ScheduleCompletion
  BY <1>6 DEF ScheduleCompletion, Artifacts, branch, Types, TurnType, JobType,
      LateType, Flags, LateIsAfter, GateExplained, GateType, Gates
<1>7. CASE WindowEnds
  BY <1>7 DEF WindowEnds, PublishGate, branch, delivery, All, Types, TurnType,
      JobType, LateType, Flags, LateIsAfter, GateExplained, GateType, Gates
<1>8. CASE CloseScope
  BY <1>8 DEF CloseScope, branch, delivery, Types, TurnType, JobType, LateType,
      Flags, LateIsAfter, GateExplained, GateType, Gates
<1>9. CASE ResolveControl
  <2>1. /\ UNCHANGED <<gate, boundary, arts>> /\ gate # "pending"
        /\ job' = job \/ (job'.pc = "ended" /\ gate \in {"handled", "stopped"})
    BY <1>9, InlineStarts DEF ResolveControl, Settle
  <2>2. CASE t1'.pc = "settled"
    BY <2>1, <2>2 DEF GateExplained
  <2>3. CASE t1'.pc = "inline" /\ gate \in {"handled", "stopped"}
    BY <2>1, <2>3 DEF GateExplained
  <2>4. CASE t1'.pc = "driving" /\ gate = "delegated"
    BY <2>1, <2>4 DEF GateExplained
  <2>5. CASE t1'.pc = "routed" /\ gate \in {"passed", "expired", "failed"}
    BY <2>1, <2>5 DEF GateExplained
  <2> QED
    BY <1>9, <2>2, <2>3, <2>4, <2>5, InlineStarts DEF ResolveControl, Settle, Types, TurnType
<1>10. CASE LeaveControl
  BY <1>10 DEF LeaveControl, Settle, delivery, Types, TurnType, JobType, LateType,
      Flags, LateIsAfter, GateExplained, GateType, Gates
<1>11. CASE Receive
  BY <1>11 DEF Receive, branch, delivery, Types, TurnType, JobType, LateType, Flags,
      LateIsAfter, GateExplained, GateType, Gates
<1>12. CASE Served
  BY <1>12 DEF Served, delivery, Types, TurnType, JobType, LateType, Flags,
      LateIsAfter, GateExplained, GateType, Gates
<1>13. CASE DrivingFails
  BY <1>13 DEF DrivingFails, Settle, delivery, Types, TurnType, JobType, LateType,
      Flags, LateIsAfter, GateExplained, GateType, Gates
<1>14. CASE DrivingEnds
  <2>1. UNCHANGED <<gate, boundary, arts>> /\ gate = "delegated" /\ (job' = job \/ job'.pc = "ended")
    BY <1>14, InlineStarts DEF DrivingEnds, Settle, GateExplained
  <2>2. t1'.pc \in {"settled", "inline"}
    BY <1>14, InlineStarts DEF DrivingEnds, Settle, Types, TurnType
  <2> QED
    BY <2>1, <2>2 DEF GateExplained
<1>15. CASE InlineNext
  BY <1>15 DEF InlineNext, delivery, branch, Types, TurnType, JobType, LateType,
      Flags, LateIsAfter, GateExplained, GateType, Gates
<1>16. CASE InlineSent
  BY <1>16 DEF InlineSent, branch, Types, TurnType, JobType, LateType, Flags,
      LateIsAfter, GateExplained, GateType, Gates
<1>17. CASE InlineFails
  BY <1>17 DEF InlineFails, Settle, Types, TurnType, JobType, LateType, Flags,
      LateIsAfter, GateExplained, GateType, Gates
<1>18. CASE InlineEnds
  BY <1>18 DEF InlineEnds, Settle, delivery, Types, TurnType, JobType, LateType,
      Flags, LateIsAfter, GateExplained, GateType, Gates
<1>19. CASE LateBegins
  BY <1>19 DEF LateBegins, LateStep, delivery, branch, Types, TurnType, JobType,
      LateType, Flags, LateIsAfter, GateExplained, GateType, Gates
<1>20. CASE LateGroup
  BY <1>20 DEF LateGroup, LateStep, branch, Types, TurnType, JobType, LateType,
      Flags, LateIsAfter, GateExplained, GateType, Gates
<1>21. CASE LateSent
  BY <1>21 DEF LateSent, LateStep, branch, Types, TurnType, JobType, LateType,
      Flags, LateIsAfter, GateExplained, GateType, Gates
<1>22. CASE LateEnds
  BY <1>22 DEF LateEnds, LateStep, delivery, branch, Types, TurnType, JobType,
      LateType, Flags, LateIsAfter, GateExplained, GateType, Gates
<1>23. CASE Discard
  BY <1>23 DEF Discard, Artifacts, branch, Types, TurnType, JobType, LateType,
      Flags, LateIsAfter, GateExplained, GateType, Gates
<1>24. CASE Shutdown
  BY <1>24 DEF Shutdown, branch, delivery, Types, TurnType, JobType, LateType,
      Flags, LateIsAfter, GateExplained, GateType, Gates
<1>25. CASE UNCHANGED vars
  BY <1>25 DEF vars, branch, delivery, Types, TurnType, JobType, LateType, Flags, LateIsAfter, GateExplained, GateType, Gates
<1> QED
  BY <1>1, <1>2, <1>3, <1>4, <1>5, <1>6, <1>7, <1>8, <1>9, <1>10, <1>11, <1>12,
      <1>13, <1>14, <1>15, <1>16, <1>17, <1>18, <1>19, <1>20, <1>21, <1>22, <1>23,
      <1>24, <1>25 DEF Next, Job, Turn, Late

(* A delegated turn, step by step.                                         *)
LEMMA DelegationStep == Types /\ Flags /\ LateIsAfter /\ GateExplained /\ DelegationExplained /\ PassedIsDecided /\ Counters /\ [Next]_vars => DelegationExplained'
<1> SUFFICES ASSUME Types, Flags, LateIsAfter, GateExplained, DelegationExplained, PassedIsDecided, Counters, [Next]_vars
             PROVE  DelegationExplained'
  OBVIOUS
<1> USE BoundsAssumption
<1>1. ASSUME NEW final \in BOOLEAN, Produce(final) PROVE DelegationExplained'
  BY <1>1 DEF Produce, JobStep, PublishGate, delivery, All, Types, TurnType,
      JobType, LateType, Flags, LateIsAfter, GateExplained, DelegationExplained
<1>2. CASE StopEvent
  BY <1>2 DEF StopEvent, JobStep, delivery, Types, TurnType, JobType, LateType,
      Flags, LateIsAfter, GateExplained, DelegationExplained
<1>3. CASE Ask
  <2>1. /\ UNCHANGED <<t1, arts, rescued, fate>> /\ job.pc = "running" /\ PublishGate("delegated")
    BY <1>3 DEF Ask, JobStep, delivery
  <2>2. CASE gate' # "delegated"
    BY <2>2 DEF DelegationExplained
  <2>3. CASE gate' = "delegated"
    <3>1. (bridge # "closed" /\ job'.pc = "asking") \/ (bridge = "closed" /\ job'.pc = "ended")
      BY <1>3, <2>3 DEF Ask, Types, JobType
    <3>2. gate = "pending" \/ gate = "delegated"
      BY <2>1, <2>3 DEF PublishGate
    <3>3. CASE gate = "pending"
      BY <2>1, <3>1, <3>3 DEF DelegationExplained, GateExplained, LateIsAfter
    <3>4. CASE gate = "delegated"
      BY <2>1, <3>1, <3>4 DEF DelegationExplained, LateIsAfter
    <3> QED
      BY <3>2, <3>3, <3>4
  <2> QED
    BY <2>2, <2>3
<1>4. CASE JobReturns
  BY <1>4 DEF JobReturns, JobStep, PublishGate, delivery, All, Types, TurnType,
      JobType, LateType, Flags, LateIsAfter, GateExplained, DelegationExplained
<1>5. CASE JobFails
  BY <1>5 DEF JobFails, PublishGate, delivery, All, Types, TurnType, JobType,
      LateType, Flags, LateIsAfter, GateExplained, DelegationExplained
<1>6. CASE ScheduleCompletion
  BY <1>6 DEF ScheduleCompletion, Artifacts, branch, Types, TurnType, JobType,
      LateType, Flags, LateIsAfter, GateExplained, DelegationExplained
<1>7. CASE WindowEnds
  BY <1>7 DEF WindowEnds, PublishGate, branch, delivery, All, Types, TurnType,
      JobType, LateType, Flags, LateIsAfter, GateExplained, DelegationExplained
<1>8. CASE CloseScope
  BY <1>8 DEF CloseScope, branch, delivery, Types, TurnType, JobType, LateType,
      Flags, LateIsAfter, GateExplained, DelegationExplained
<1>9. CASE ResolveControl
  BY <1>9 DEF ResolveControl, Inline, Settle, delivery, All, Types, TurnType,
      JobType, LateType, Flags, LateIsAfter, GateExplained, DelegationExplained
<1>10. CASE LeaveControl
  BY <1>10 DEF LeaveControl, Settle, delivery, Types, TurnType, JobType, LateType,
      Flags, LateIsAfter, GateExplained, DelegationExplained
<1>11. CASE Receive
  BY <1>11 DEF Receive, branch, delivery, Types, TurnType, JobType, LateType, Flags,
      LateIsAfter, GateExplained, DelegationExplained
<1>12. CASE Served
  BY <1>12 DEF Served, delivery, Types, TurnType, JobType, LateType, Flags,
      LateIsAfter, GateExplained, DelegationExplained
<1>13. CASE DrivingFails
  BY <1>13 DEF DrivingFails, Settle, delivery, Types, TurnType, JobType, LateType,
      Flags, LateIsAfter, GateExplained, DelegationExplained
<1>14. CASE DrivingEnds
  <2>1. UNCHANGED <<gate, arts, rescued, fate>> /\ gate = "delegated" /\ boundary = All /\ job.pc = "ended"
    BY <1>14 DEF DrivingEnds, GateExplained, delivery
  <2>2. CASE arts = <<>>
    BY <1>14, <2>1, <2>2 DEF DrivingEnds, Settle, DelegationExplained, Types, TurnType, JobType, Finals
  <2>3. CASE arts # <<>>
    BY <1>14, <2>1, <2>3, InlineStarts DEF DrivingEnds, DelegationExplained
  <2> QED
    BY <2>2, <2>3
<1>15. CASE InlineNext
  BY <1>15 DEF InlineNext, delivery, branch, Types, TurnType, JobType, LateType,
      Flags, LateIsAfter, GateExplained, DelegationExplained
<1>16. CASE InlineSent
  BY <1>16 DEF InlineSent, branch, Types, TurnType, JobType, LateType, Flags,
      LateIsAfter, GateExplained, DelegationExplained
<1>17. CASE InlineFails
  <2>1. /\ UNCHANGED <<gate, arts, rescued>> /\ fate \subseteq fate' /\ t1'.pc = "settled"
        /\ t1'.next = t1.next /\ t1'.upto = t1.upto
    BY <1>17 DEF InlineFails, Settle, Finish, Types, TurnType
  <2>2. ASSUME gate = "delegated", ~(t1.next <= t1.upto)
        PROVE  Finals(arts) \subseteq fate
    BY <1>17, <2>2, FinalsBounded
       DEF InlineFails, DelegationExplained, PassedIsDecided, Counters, Types, TurnType
  <2>3. gate = "delegated" => job'.pc = "ended"
    BY <1>17 DEF InlineFails, DelegationExplained, Settle
  <2> QED
    BY <2>1, <2>2, <2>3 DEF DelegationExplained, Finals
<1>18. CASE InlineEnds
  <2>1. /\ UNCHANGED <<gate, arts, rescued, fate>> /\ t1'.pc = "settled"
    BY <1>18 DEF InlineEnds, Settle, delivery, Types, TurnType
  <2>2. gate = "delegated" => Finals(arts) \subseteq fate
    BY <1>18, FinalsBounded
       DEF InlineEnds, DelegationExplained, PassedIsDecided, Types, TurnType
  <2>3. gate = "delegated" => job'.pc = "ended"
    BY <1>18 DEF InlineEnds, DelegationExplained, Settle
  <2> QED
    BY <2>1, <2>2, <2>3 DEF DelegationExplained, Finals
<1>19. CASE LateBegins
  BY <1>19 DEF LateBegins, LateStep, delivery, branch, Types, TurnType, JobType,
      LateType, Flags, LateIsAfter, GateExplained, DelegationExplained
<1>20. CASE LateGroup
  <2>1. LateStep /\ fate \subseteq fate' /\ t1.pc = "settled"
    BY <1>20 DEF LateGroup, Finish, LateIsAfter
  <2> QED
    BY <2>1 DEF LateStep, branch, DelegationExplained, PassedIsDecided, Finals
<1>21. CASE LateSent
  <2>1. LateStep /\ fate \subseteq fate' /\ t1.pc = "settled"
    BY <1>21 DEF LateSent, Finish, LateIsAfter
  <2> QED
    BY <2>1 DEF LateStep, branch, DelegationExplained, PassedIsDecided, Finals
<1>22. CASE LateEnds
  BY <1>22 DEF LateEnds, LateStep, delivery, branch, Types, TurnType, JobType,
      LateType, Flags, LateIsAfter, GateExplained, DelegationExplained
<1>23. CASE Discard
  BY <1>23 DEF Discard, Artifacts, branch, Types, TurnType, JobType, LateType,
      Flags, LateIsAfter, GateExplained, DelegationExplained
<1>24. CASE Shutdown
  BY <1>24 DEF Shutdown, branch, delivery, Types, TurnType, JobType, LateType,
      Flags, LateIsAfter, GateExplained, DelegationExplained
<1>25. CASE UNCHANGED vars
  BY <1>25 DEF vars, branch, delivery, Types, TurnType, JobType, LateType, Flags, LateIsAfter, GateExplained, DelegationExplained
<1> QED
  BY <1>1, <1>2, <1>3, <1>4, <1>5, <1>6, <1>7, <1>8, <1>9, <1>10, <1>11, <1>12,
      <1>13, <1>14, <1>15, <1>16, <1>17, <1>18, <1>19, <1>20, <1>21, <1>22, <1>23,
      <1>24, <1>25 DEF Next, Job, Turn, Late

(* Every mark stays explained.                                             *)
LEMMA MarksStep == Types /\ Flags /\ MarksExplained /\ LateIsAfter /\ Counters /\ [Next]_vars => MarksExplained'
<1> SUFFICES ASSUME Types, Flags, MarksExplained, LateIsAfter, Counters, [Next]_vars
             PROVE  MarksExplained'
  OBVIOUS
<1> USE BoundsAssumption
<1>1. ASSUME NEW final \in BOOLEAN, Produce(final) PROVE MarksExplained'
  <2>1. UNCHANGED <<t1, late, ledger, fate, closed>> /\ late.pc # "sending"
    BY <1>1 DEF Produce, JobStep, delivery, LateIsAfter
  <2> QED
    BY <2>1 DEF MarksExplained
<1>2. CASE StopEvent
  BY <1>2 DEF StopEvent, JobStep, delivery, MarksExplained, LateIsAfter, Types,
      TurnType, LateType, LedgerType
<1>3. CASE Ask
  BY <1>3 DEF Ask, JobStep, delivery, MarksExplained, LateIsAfter, Types, TurnType,
      LateType, LedgerType
<1>4. CASE JobReturns
  BY <1>4 DEF JobReturns, JobStep, delivery, MarksExplained, LateIsAfter, Types,
      TurnType, LateType, LedgerType
<1>5. CASE JobFails
  BY <1>5 DEF JobFails, delivery, MarksExplained, LateIsAfter, Types, TurnType,
      LateType, LedgerType
<1>6. CASE ScheduleCompletion
  BY <1>6 DEF ScheduleCompletion, Artifacts, branch, MarksExplained, LateIsAfter,
      Types, TurnType, LateType, LedgerType
<1>7. CASE WindowEnds
  <2>1. UNCHANGED <<t1, late, ledger, fate, closed, arts>>
    BY <1>7 DEF WindowEnds, branch, delivery
  <2> QED
    BY <2>1 DEF MarksExplained, Group, Finals
<1>8. CASE CloseScope
  <2>1. UNCHANGED <<t1, late, ledger, fate, closed, arts>>
    BY <1>8 DEF CloseScope, branch, delivery
  <2> QED
    BY <2>1 DEF MarksExplained, Group, Finals
<1>9. CASE ResolveControl
  <2>1. UNCHANGED <<late, ledger, fate, closed, arts>> /\ t1.pc # "sending"
    BY <1>9 DEF ResolveControl, delivery
  <2> QED
    BY <2>1 DEF MarksExplained, Group, Finals
<1>10. CASE LeaveControl
  BY <1>10 DEF LeaveControl, Settle, delivery, MarksExplained, LateIsAfter, Types,
      TurnType, LateType, LedgerType
<1>11. CASE Receive
  BY <1>11 DEF Receive, branch, delivery, MarksExplained, LateIsAfter, Types,
      TurnType, LateType, LedgerType
<1>12. CASE Served
  BY <1>12 DEF Served, delivery, MarksExplained, LateIsAfter, Types, TurnType,
      LateType, LedgerType
<1>13. CASE DrivingFails
  BY <1>13 DEF DrivingFails, Settle, delivery, MarksExplained, LateIsAfter, Types,
      TurnType, LateType, LedgerType
<1>14. CASE DrivingEnds
  <2>1. UNCHANGED <<late, ledger, fate, closed, arts>> /\ t1.pc # "sending"
    BY <1>14 DEF DrivingEnds, delivery
  <2> QED
    BY <2>1 DEF MarksExplained, Group, Finals
<1>15. CASE InlineNext
  <2>1. UNCHANGED <<late, closed, arts>> /\ t1.pc = "inline"
    BY <1>15 DEF InlineNext, branch
  <2>2. CASE UNCHANGED <<ledger, fate>>
    BY <2>1, <2>2 DEF MarksExplained, Group, Finals
  <2>3. CASE Finish({t1.next})
    BY <2>1, <2>3, FinishedLedger DEF MarksExplained, Group, Finals, Types
  <2>4. CASE /\ ledger' = Marked({t1.next}, "reserved") /\ fate' = fate
             /\ t1'.pc = "sending" /\ t1'.next = t1.next
    <3>1. \A a \in Artifacts : ledger'[a] = IF a = t1.next THEN "reserved" ELSE ledger[a]
      BY <2>4, MarkedLedger DEF Types
    <3>2. \A g : Group(g)' = Group(g)
      BY <2>1 DEF Group, Finals
    <3> QED
      BY <2>1, <2>4, <3>1 DEF MarksExplained, Group, Finals
  <2> QED
    BY <1>15, <2>2, <2>3, <2>4 DEF InlineNext, delivery, Types, TurnType
<1>16. CASE InlineSent
  <2>1. UNCHANGED <<late, closed, arts>> /\ t1.pc = "sending" /\ Finish({t1.next})
    BY <1>16 DEF InlineSent, branch
  <2> QED
    BY <2>1, FinishedLedger DEF MarksExplained, Group, Finals, Types
<1>17. CASE InlineFails
  <2>1. UNCHANGED <<late, closed, arts>>
    BY <1>17 DEF InlineFails
  <2>2. CASE t1.pc = "sending" /\ Finish({t1.next})
    BY <2>1, <2>2, FinishedLedger DEF MarksExplained, Group, Finals, Types
  <2>3. CASE t1.pc # "sending" /\ UNCHANGED <<ledger, fate>>
    BY <2>1, <2>3 DEF MarksExplained, Group, Finals
  <2> QED
    BY <1>17, <2>2, <2>3 DEF InlineFails
<1>18. CASE InlineEnds
  BY <1>18 DEF InlineEnds, Settle, delivery, MarksExplained, LateIsAfter, Types,
      TurnType, LateType, LedgerType
<1>19. CASE LateBegins
  BY <1>19 DEF LateBegins, LateStep, delivery, branch, MarksExplained, LateIsAfter,
      Types, TurnType, LateType, LedgerType
<1>20. CASE LateGroup
  <2> DEFINE left == Reservable(Group(late.group))
  <2>1. UNCHANGED <<t1, closed, arts>> /\ ~closed /\ late.pc = "groups" /\ t1.pc = "settled"
    BY <1>20 DEF LateGroup, LateStep, branch, LateIsAfter
  <2>2. \A a \in Artifacts : ledger[a] # "reserved"
    BY <2>1 DEF MarksExplained
  <2>3. left \subseteq Group(late.group)
    BY DEF Reservable
  <2> HIDE DEF left
  <2>4. CASE Finish(left)
    BY <2>2, <2>4, FinishedLedger DEF MarksExplained, Types
  <2>5. CASE /\ ledger' = Marked(left, "reserved") /\ fate' = fate
             /\ late'.pc = "sending" /\ late'.group = late.group
    <3>1. Group(late.group)' = Group(late.group)
      BY <2>1, <2>5 DEF Group, Finals
    <3> QED
      BY <2>2, <2>3, <2>5, <3>1, MarkedLedger DEF MarksExplained, Types
  <2> QED
    BY <1>20, <2>4, <2>5 DEF LateGroup, left, delivery
<1>21. CASE LateSent
  <2> DEFINE sent == {a \in Group(late.group) : ledger[a] = "reserved"}
  <2>1. UNCHANGED <<t1, closed, arts>> /\ ~closed /\ late.pc = "sending" /\ t1.pc = "settled"
    BY <1>21 DEF LateSent, LateStep, branch, LateIsAfter
  <2>2. \A a \in Artifacts : ledger[a] = "reserved" => a \in sent
    BY <2>1 DEF MarksExplained
  <2>3. Finish(sent)
    BY <1>21 DEF LateSent
  <2> HIDE DEF sent
  <2> QED
    BY <2>2, <2>3, FinishedLedger DEF MarksExplained, Types
<1>22. CASE LateEnds
  BY <1>22 DEF LateEnds, LateStep, delivery, branch, MarksExplained, LateIsAfter,
      Types, TurnType, LateType, LedgerType
<1>23. CASE Discard
  BY <1>23 DEF Discard, Artifacts, branch, MarksExplained, LateIsAfter, Types,
      TurnType, LateType, LedgerType
<1>24. CASE Shutdown
  BY <1>24 DEF Shutdown, branch, delivery, MarksExplained, LateIsAfter, Types,
      TurnType, LateType, LedgerType
<1>25. CASE UNCHANGED vars
  <2>1. UNCHANGED <<t1, late, ledger, fate, closed, arts>>
    BY <1>25 DEF vars
  <2> QED
    BY <2>1 DEF MarksExplained, Group, Finals
<1> QED
  BY <1>1, <1>2, <1>3, <1>4, <1>5, <1>6, <1>7, <1>8, <1>9, <1>10, <1>11, <1>12,
      <1>13, <1>14, <1>15, <1>16, <1>17, <1>18, <1>19, <1>20, <1>21, <1>22, <1>23,
      <1>24, <1>25 DEF Next, Job, Turn, Late

(* A group is reserved in one step and finished in one.                    *)
LEMMA GroupReservedStep == Types /\ Flags /\ GroupIsReserved /\ LateIsAfter /\ [Next]_vars => GroupIsReserved'
<1> SUFFICES ASSUME Types, Flags, GroupIsReserved, LateIsAfter, [Next]_vars
             PROVE  GroupIsReserved'
  OBVIOUS
<1> USE BoundsAssumption
<1>1. ASSUME NEW final \in BOOLEAN, Produce(final) PROVE GroupIsReserved'
  BY <1>1 DEF Produce, JobStep, delivery, GroupIsReserved, LateIsAfter, Types,
      LateType, LedgerType
<1>2. CASE StopEvent
  BY <1>2 DEF StopEvent, JobStep, delivery, GroupIsReserved, LateIsAfter, Types,
      LateType, LedgerType
<1>3. CASE Ask
  BY <1>3 DEF Ask, JobStep, delivery, GroupIsReserved, LateIsAfter, Types, LateType,
      LedgerType
<1>4. CASE JobReturns
  BY <1>4 DEF JobReturns, JobStep, delivery, GroupIsReserved, LateIsAfter, Types,
      LateType, LedgerType
<1>5. CASE JobFails
  BY <1>5 DEF JobFails, delivery, GroupIsReserved, LateIsAfter, Types, LateType,
      LedgerType
<1>6. CASE ScheduleCompletion
  BY <1>6 DEF ScheduleCompletion, Artifacts, branch, GroupIsReserved, LateIsAfter,
      Types, LateType, LedgerType
<1>7. CASE WindowEnds
  <2>1. UNCHANGED <<t1, late, ledger, fate, closed, arts>>
    BY <1>7 DEF WindowEnds, branch, delivery
  <2> QED
    BY <2>1 DEF GroupIsReserved, Group, Finals
<1>8. CASE CloseScope
  <2>1. UNCHANGED <<t1, late, ledger, fate, closed, arts>>
    BY <1>8 DEF CloseScope, branch, delivery
  <2> QED
    BY <2>1 DEF GroupIsReserved, Group, Finals
<1>9. CASE ResolveControl
  BY <1>9 DEF ResolveControl, delivery, GroupIsReserved, LateIsAfter, Types,
      LateType, LedgerType
<1>10. CASE LeaveControl
  BY <1>10 DEF LeaveControl, delivery, GroupIsReserved, LateIsAfter, Types,
      LateType, LedgerType
<1>11. CASE Receive
  BY <1>11 DEF Receive, branch, delivery, GroupIsReserved, LateIsAfter, Types,
      LateType, LedgerType
<1>12. CASE Served
  BY <1>12 DEF Served, delivery, GroupIsReserved, LateIsAfter, Types, LateType,
      LedgerType
<1>13. CASE DrivingFails
  BY <1>13 DEF DrivingFails, delivery, GroupIsReserved, LateIsAfter, Types,
      LateType, LedgerType
<1>14. CASE DrivingEnds
  BY <1>14 DEF DrivingEnds, delivery, GroupIsReserved, LateIsAfter, Types, LateType,
      LedgerType
<1>15. CASE InlineNext
  <2>1. t1.pc = "inline" /\ UNCHANGED late
    BY <1>15 DEF InlineNext
  <2> QED
    BY <2>1 DEF LateIsAfter, GroupIsReserved
<1>16. CASE InlineSent
  <2>1. t1.pc = "sending" /\ UNCHANGED late
    BY <1>16 DEF InlineSent
  <2> QED
    BY <2>1 DEF LateIsAfter, GroupIsReserved
<1>17. CASE InlineFails
  <2>1. t1.pc \in {"inline", "sending"} /\ UNCHANGED late
    BY <1>17 DEF InlineFails
  <2> QED
    BY <2>1 DEF LateIsAfter, GroupIsReserved
<1>18. CASE InlineEnds
  BY <1>18 DEF InlineEnds, delivery, GroupIsReserved, LateIsAfter, Types, LateType,
      LedgerType
<1>19. CASE LateBegins
  BY <1>19 DEF LateBegins, LateStep, delivery, branch, GroupIsReserved, LateIsAfter,
      Types, LateType, LedgerType
<1>20. CASE LateGroup
  <2> DEFINE left == Reservable(Group(late.group))
  <2>1. late.pc = "groups" /\ arts' = arts /\ Group(late.group) \subseteq Artifacts
    BY <1>20, GroupIsSmall DEF LateGroup, LateStep, branch, Types
  <2>2. \A a \in Group(late.group) : a \in left \/ ledger[a] # "none"
    BY DEF Reservable
  <2> HIDE DEF left
  <2>3. CASE late' = [late EXCEPT !.group = @ + 1]
    BY <2>1, <2>3 DEF GroupIsReserved, Types, LateType
  <2>4. CASE ledger' = Marked(left, "reserved") /\ late'.group = late.group
    <3>1. Group(late.group)' = Group(late.group)
      BY <2>1, <2>4 DEF Group, Finals
    <3> QED
      BY <2>1, <2>2, <2>4, <3>1, MarkedLedger DEF GroupIsReserved, Types
  <2> QED
    BY <1>20, <2>3, <2>4 DEF LateGroup, left
<1>21. CASE LateSent
  BY <1>21 DEF LateSent, LateStep, Group, branch, GroupIsReserved, LateIsAfter,
      Types, LateType, LedgerType
<1>22. CASE LateEnds
  BY <1>22 DEF LateEnds, LateStep, delivery, branch, GroupIsReserved, LateIsAfter,
      Types, LateType, LedgerType
<1>23. CASE Discard
  BY <1>23 DEF Discard, Artifacts, branch, GroupIsReserved, LateIsAfter, Types,
      LateType, LedgerType
<1>24. CASE Shutdown
  BY <1>24 DEF Shutdown, branch, delivery, GroupIsReserved, LateIsAfter, Types,
      LateType, LedgerType
<1>25. CASE UNCHANGED vars
  <2>1. UNCHANGED <<t1, late, ledger, fate, closed, arts>>
    BY <1>25 DEF vars
  <2> QED
    BY <2>1 DEF GroupIsReserved, Group, Finals
<1> QED
  BY <1>1, <1>2, <1>3, <1>4, <1>5, <1>6, <1>7, <1>8, <1>9, <1>10, <1>11, <1>12,
      <1>13, <1>14, <1>15, <1>16, <1>17, <1>18, <1>19, <1>20, <1>21, <1>22, <1>23,
      <1>24, <1>25 DEF Next, Job, Turn, Late

(* What was shown stays marked.                                            *)
LEMMA ShownMarkedStep == Types /\ Flags /\ Counters /\ ShownIsMarked /\ LateIsAfter /\ [Next]_vars => ShownIsMarked'
<1> SUFFICES ASSUME Types, Flags, Counters, ShownIsMarked, LateIsAfter, [Next]_vars
             PROVE  ShownIsMarked'
  OBVIOUS
<1> USE BoundsAssumption
<1>1. ASSUME NEW final \in BOOLEAN, Produce(final) PROVE ShownIsMarked'
  BY <1>1 DEF Produce, JobStep, delivery, ShownIsMarked, LateIsAfter, Types,
      LateType
<1>2. CASE StopEvent
  BY <1>2 DEF StopEvent, JobStep, delivery, ShownIsMarked, LateIsAfter, Types,
      LateType
<1>3. CASE Ask
  BY <1>3 DEF Ask, JobStep, delivery, ShownIsMarked, LateIsAfter, Types, LateType
<1>4. CASE JobReturns
  BY <1>4 DEF JobReturns, JobStep, delivery, ShownIsMarked, LateIsAfter, Types,
      LateType
<1>5. CASE JobFails
  BY <1>5 DEF JobFails, delivery, ShownIsMarked, LateIsAfter, Types, LateType
<1>6. CASE ScheduleCompletion
  BY <1>6 DEF ScheduleCompletion, Artifacts, branch, ShownIsMarked, LateIsAfter,
      Types, LateType
<1>7. CASE WindowEnds
  BY <1>7 DEF WindowEnds, branch, delivery, ShownIsMarked, LateIsAfter, Types,
      LateType
<1>8. CASE CloseScope
  BY <1>8 DEF CloseScope, branch, delivery, ShownIsMarked, LateIsAfter, Types,
      LateType
<1>9. CASE ResolveControl
  BY <1>9 DEF ResolveControl, delivery, ShownIsMarked, LateIsAfter, Types, LateType
<1>10. CASE LeaveControl
  BY <1>10 DEF LeaveControl, delivery, ShownIsMarked, LateIsAfter, Types, LateType
<1>11. CASE Receive
  BY <1>11 DEF Receive, branch, delivery, ShownIsMarked, LateIsAfter, Types,
      LateType
<1>12. CASE Served
  BY <1>12 DEF Served, delivery, ShownIsMarked, LateIsAfter, Types, LateType
<1>13. CASE DrivingFails
  BY <1>13 DEF DrivingFails, delivery, ShownIsMarked, LateIsAfter, Types, LateType
<1>14. CASE DrivingEnds
  BY <1>14 DEF DrivingEnds, delivery, ShownIsMarked, LateIsAfter, Types, LateType
<1>15. CASE InlineNext
  <2>1. t1.pc = "inline" /\ UNCHANGED late /\ t1.next \in Artifacts
    BY <1>15, NextIsArtifact DEF InlineNext
  <2>2. \A i \in DOMAIN shown : shown[i].art \in Artifacts
    BY ShownArts DEF Types
  <2>3. CASE UNCHANGED <<ledger, shown>>
    BY <2>1, <2>3 DEF ShownIsMarked
  <2>4. CASE Finish({t1.next}) /\ UNCHANGED shown
    BY <2>1, <2>2, <2>4, FinishedLedger DEF ShownIsMarked, Types
  <2>5. CASE ledger' = Marked({t1.next}, "reserved") /\ shown' = Append(shown, [art |-> t1.next, by |-> "T1"])
    <3> DEFINE e == [art |-> t1.next, by |-> "T1"]
    <3>1. e \in SentType /\ e.art = t1.next
      BY <2>1 DEF SentType
    <3> HIDE DEF e
    <3>2. \A i \in DOMAIN shown' : shown'[i].art = t1.next \/ (i \in DOMAIN shown /\ shown'[i] = shown[i])
      BY <2>5, <3>1 DEF e, Types, ShownType
    <3>3. \A a \in Artifacts : ledger'[a] = IF a = t1.next THEN "reserved" ELSE ledger[a]
      <4>1. ledger' = Marked({t1.next}, "reserved") /\ ledger \in LedgerType
        BY <2>5 DEF Types
      <4> QED
        BY <4>1, MarkedLedger
    <3> QED
      BY <2>1, <2>2, <3>2, <3>3 DEF ShownIsMarked
  <2> QED
    BY <1>15, <2>3, <2>4, <2>5 DEF InlineNext, delivery
<1>16. CASE InlineSent
  <2>1. t1.pc = "sending" /\ UNCHANGED <<late, shown>> /\ Finish({t1.next})
    BY <1>16 DEF InlineSent
  <2>2. \A i \in DOMAIN shown : shown[i].art \in Artifacts
    BY ShownArts DEF Types
  <2> QED
    BY <2>1, <2>2, FinishedLedger DEF ShownIsMarked, Types
<1>17. CASE InlineFails
  <2>1. UNCHANGED <<late, shown>> /\ (Finish({t1.next}) \/ ledger' = ledger)
    BY <1>17 DEF InlineFails
  <2>2. \A i \in DOMAIN shown : shown[i].art \in Artifacts
    BY ShownArts DEF Types
  <2> QED
    BY <2>1, <2>2, FinishedLedger DEF ShownIsMarked, Types
<1>18. CASE InlineEnds
  BY <1>18 DEF InlineEnds, delivery, ShownIsMarked, LateIsAfter, Types, LateType
<1>19. CASE LateBegins
  BY <1>19 DEF LateBegins, LateStep, delivery, branch, ShownIsMarked, LateIsAfter,
      Types, LateType
<1>20. CASE LateGroup
  <2> DEFINE left == Reservable(Group(late.group))
  <2>1. late.pc = "groups" /\ left \in SUBSET Artifacts
    BY <1>20, GroupIsSmall DEF LateGroup, Types, Reservable
  <2>2. \A i \in DOMAIN shown : shown[i].art \in Artifacts
    BY ShownArts DEF Types
  <2> HIDE DEF left
  <2>3. CASE Finish(left) /\ UNCHANGED shown
    BY <2>1, <2>2, <2>3, FinishedLedger DEF ShownIsMarked, Types
  <2>4. ASSUME ledger' = Marked(left, "reserved"), NEW s \in [1..Cardinality(left) -> left],
               shown' = shown \o LateSends(s)
        PROVE  ShownIsMarked'
    <3>1. \A i \in DOMAIN shown' : shown'[i].art \in left \/ (i \in DOMAIN shown /\ shown'[i] = shown[i])
      BY <2>1, <2>4, LateSuffix DEF Types
    <3> QED
      BY <2>1, <2>2, <2>4, <3>1, MarkedLedger DEF ShownIsMarked, Types
  <2> QED
    BY <1>20, <2>3, <2>4 DEF LateGroup, left, LateSends
<1>21. CASE LateSent
  <2>1. late.pc = "sending" /\ UNCHANGED <<shown>> /\ Finish({a \in Group(late.group) : ledger[a] = "reserved"})
    BY <1>21 DEF LateSent
  <2>2. \A i \in DOMAIN shown : shown[i].art \in Artifacts
    BY ShownArts DEF Types
  <2> QED
    BY <2>1, <2>2, FinishedLedger DEF ShownIsMarked, Types
<1>22. CASE LateEnds
  BY <1>22 DEF LateEnds, LateStep, delivery, branch, ShownIsMarked, LateIsAfter,
      Types, LateType
<1>23. CASE Discard
  BY <1>23 DEF Discard, Artifacts, branch, ShownIsMarked, LateIsAfter, Types,
      LateType
<1>24. CASE Shutdown
  BY <1>24 DEF Shutdown, branch, delivery, ShownIsMarked, LateIsAfter, Types,
      LateType
<1>25. CASE UNCHANGED vars
  BY <1>25 DEF vars, branch, delivery, ShownIsMarked, LateIsAfter, Types, LateType
<1> QED
  BY <1>1, <1>2, <1>3, <1>4, <1>5, <1>6, <1>7, <1>8, <1>9, <1>10, <1>11, <1>12,
      <1>13, <1>14, <1>15, <1>16, <1>17, <1>18, <1>19, <1>20, <1>21, <1>22, <1>23,
      <1>24, <1>25 DEF Next, Job, Turn, Late

(* Nothing is sent that was sent before.                                   *)
LEMMA ShownOnceStep == Types /\ Flags /\ Counters /\ ShownIsMarked /\ LateIsAfter /\ ShownOnce /\ [Next]_vars => ShownOnce'
<1> SUFFICES ASSUME Types, Flags, Counters, ShownIsMarked, LateIsAfter, ShownOnce, [Next]_vars
             PROVE  ShownOnce'
  OBVIOUS
<1> USE BoundsAssumption
<1>1. ASSUME NEW final \in BOOLEAN, Produce(final) PROVE ShownOnce'
  BY <1>1 DEF Produce, JobStep, delivery, ShownOnce
<1>2. CASE StopEvent
  BY <1>2 DEF StopEvent, JobStep, delivery, ShownOnce
<1>3. CASE Ask
  BY <1>3 DEF Ask, JobStep, delivery, ShownOnce
<1>4. CASE JobReturns
  BY <1>4 DEF JobReturns, JobStep, delivery, ShownOnce
<1>5. CASE JobFails
  BY <1>5 DEF JobFails, delivery, ShownOnce
<1>6. CASE ScheduleCompletion
  BY <1>6 DEF ScheduleCompletion, Artifacts, branch, ShownOnce
<1>7. CASE WindowEnds
  BY <1>7 DEF WindowEnds, branch, delivery, ShownOnce
<1>8. CASE CloseScope
  BY <1>8 DEF CloseScope, branch, delivery, ShownOnce
<1>9. CASE ResolveControl
  BY <1>9 DEF ResolveControl, delivery, ShownOnce
<1>10. CASE LeaveControl
  BY <1>10 DEF LeaveControl, delivery, ShownOnce
<1>11. CASE Receive
  BY <1>11 DEF Receive, branch, delivery, ShownOnce
<1>12. CASE Served
  BY <1>12 DEF Served, delivery, ShownOnce
<1>13. CASE DrivingFails
  BY <1>13 DEF DrivingFails, delivery, ShownOnce
<1>14. CASE DrivingEnds
  BY <1>14 DEF DrivingEnds, delivery, ShownOnce
<1>15. CASE InlineNext
  <2>1. t1.pc = "inline" /\ late.pc # "done" /\ t1.next \in Artifacts
    BY <1>15, NextIsArtifact DEF InlineNext, LateIsAfter
  <2>2. CASE UNCHANGED shown
    BY <2>2 DEF ShownOnce
  <2>3. CASE ledger[t1.next] = "none" /\ shown' = Append(shown, [art |-> t1.next, by |-> "T1"])
    <3> DEFINE e == [art |-> t1.next, by |-> "T1"]
    <3>1. e \in SentType /\ e.art = t1.next
      BY <2>1 DEF SentType
    <3> HIDE DEF e
    <3>2. \A i \in DOMAIN shown : shown[i].art # t1.next
      BY <2>1, <2>3 DEF ShownIsMarked
    <3>3. \A i \in DOMAIN shown' :
             \/ i = Len(shown) + 1 /\ shown'[i].art = t1.next
             \/ i \in DOMAIN shown /\ shown'[i] = shown[i]
      BY <2>3, <3>1 DEF e, Types, ShownType
    <3> QED
      BY <3>2, <3>3 DEF ShownOnce
  <2> QED
    BY <1>15, <2>2, <2>3 DEF InlineNext, delivery, Reservable
<1>16. CASE InlineSent
  BY <1>16 DEF InlineSent, branch, ShownOnce
<1>17. CASE InlineFails
  BY <1>17 DEF InlineFails, ShownOnce
<1>18. CASE InlineEnds
  BY <1>18 DEF InlineEnds, delivery, ShownOnce
<1>19. CASE LateBegins
  BY <1>19 DEF LateBegins, LateStep, delivery, branch, ShownOnce
<1>20. CASE LateGroup
  <2> DEFINE left == Reservable(Group(late.group))
  <2>1. late.pc # "done" /\ left \in SUBSET Artifacts /\ \A a \in left : ledger[a] = "none"
    BY <1>20, GroupIsSmall DEF LateGroup, Types, Reservable
  <2> HIDE DEF left
  <2>2. CASE UNCHANGED shown
    BY <2>2 DEF ShownOnce
  <2>3. ASSUME NEW s \in [1..Cardinality(left) -> left], shown' = shown \o LateSends(s),
               \A i, j \in DOMAIN s : i < j => s[i] < s[j]
        PROVE  ShownOnce'
    <3>1. \A i \in DOMAIN shown : shown[i].art \notin left
      BY <2>1 DEF ShownIsMarked
    <3>2. \A i, j \in 1..Cardinality(left) : s[i] = s[j] => i = j
      <4>1. Cardinality(left) \in Nat /\ \A a \in left : a \in Nat
        BY <2>1, <2>3, LateShown DEF Types, Artifacts
      <4> QED
        BY <2>3, <4>1
    <3>3. /\ \A i \in DOMAIN shown' :
                \/ i \in DOMAIN shown /\ shown'[i] = shown[i]
                \/ /\ i - Len(shown) \in 1..Cardinality(left)
                   /\ shown'[i].art = s[i - Len(shown)]
          /\ DOMAIN shown' \subseteq Nat /\ Len(shown) \in Nat
      BY <2>1, <2>3, LateSuffix DEF Types
    <3>4. ASSUME NEW i \in DOMAIN shown', NEW j \in DOMAIN shown', shown'[i].art = shown'[j].art
          PROVE  i = j
      <4>1. CASE i \in DOMAIN shown /\ shown'[i] = shown[i]
        <5>1. shown'[j].art \notin left
          BY <3>1, <3>4, <4>1
        <5>2. j \in DOMAIN shown /\ shown'[j] = shown[j]
          BY <3>3, <5>1
        <5> QED
          BY <3>4, <4>1, <5>2 DEF ShownOnce
      <4>2. CASE /\ i - Len(shown) \in 1..Cardinality(left)
                 /\ shown'[i].art = s[i - Len(shown)]
        <5>1. shown'[j].art \in left
          BY <3>4, <4>2
        <5>2. /\ j - Len(shown) \in 1..Cardinality(left)
              /\ shown'[j].art = s[j - Len(shown)]
          BY <3>1, <3>3, <5>1
        <5>3. i - Len(shown) = j - Len(shown)
          BY <3>2, <3>4, <4>2, <5>2
        <5> QED
          BY <3>3, <5>3
      <4> QED
        BY <3>3, <4>1, <4>2
    <3> QED
      BY <3>4 DEF ShownOnce
  <2> QED
    BY <1>20, <2>2, <2>3 DEF LateGroup, left, LateSends
<1>21. CASE LateSent
  BY <1>21 DEF LateSent, LateStep, branch, ShownOnce
<1>22. CASE LateEnds
  BY <1>22 DEF LateEnds, LateStep, delivery, branch, ShownOnce
<1>23. CASE Discard
  BY <1>23 DEF Discard, Artifacts, branch, ShownOnce
<1>24. CASE Shutdown
  BY <1>24 DEF Shutdown, branch, delivery, ShownOnce
<1>25. CASE UNCHANGED vars
  BY <1>25 DEF vars, branch, delivery, ShownOnce
<1> QED
  BY <1>1, <1>2, <1>3, <1>4, <1>5, <1>6, <1>7, <1>8, <1>9, <1>10, <1>11, <1>12,
      <1>13, <1>14, <1>15, <1>16, <1>17, <1>18, <1>19, <1>20, <1>21, <1>22, <1>23,
      <1>24, <1>25 DEF Next, Job, Turn, Late

(* The turn passes only what it has decided.                               *)
LEMMA PassedStep == Types /\ Flags /\ PassedIsDecided /\ MarksExplained /\ LateIsAfter /\ GateExplained /\ Counters /\ [Next]_vars => PassedIsDecided'
<1> SUFFICES ASSUME Types, Flags, PassedIsDecided, MarksExplained, LateIsAfter, GateExplained, Counters, [Next]_vars
             PROVE  PassedIsDecided'
  OBVIOUS
<1> USE BoundsAssumption
<1>1. ASSUME NEW final \in BOOLEAN, Produce(final) PROVE PassedIsDecided'
  <2>1. UNCHANGED <<t1, fate>>
    BY <1>1 DEF Produce, delivery
  <2>2. ASSUME t1.pc \in {"inline", "sending"}, NEW a \in Finals(arts'), a < t1.next
        PROVE  a \in Finals(arts)
    <3>1. t1.next <= Len(arts) + 1 /\ Len(arts) \in Nat /\ t1.next \in Nat
      BY <2>2, FinalsBounded DEF Counters, Types, TurnType, All
    <3> QED
      BY <1>1, <2>2, <3>1, Grows DEF Types
  <2> QED
    BY <2>1, <2>2 DEF PassedIsDecided
<1>2. CASE StopEvent
  BY <1>2 DEF StopEvent, JobStep, delivery, Types, TurnType, JobType, LateType,
      Flags, PassedIsDecided
<1>3. CASE Ask
  BY <1>3 DEF Ask, JobStep, delivery, Types, TurnType, JobType, LateType, Flags,
      PassedIsDecided
<1>4. CASE JobReturns
  BY <1>4 DEF JobReturns, JobStep, delivery, Types, TurnType, JobType, LateType,
      Flags, PassedIsDecided
<1>5. CASE JobFails
  BY <1>5 DEF JobFails, delivery, Types, TurnType, JobType, LateType, Flags,
      PassedIsDecided
<1>6. CASE ScheduleCompletion
  BY <1>6 DEF ScheduleCompletion, Artifacts, branch, Types, TurnType, JobType,
      LateType, Flags, PassedIsDecided
<1>7. CASE WindowEnds
  BY <1>7 DEF WindowEnds, branch, delivery, Types, TurnType, JobType, LateType,
      Flags, PassedIsDecided
<1>8. CASE CloseScope
  BY <1>8 DEF CloseScope, branch, delivery, Types, TurnType, JobType, LateType,
      Flags, PassedIsDecided
<1>9. CASE ResolveControl
  <2>1. t1'.pc \in {"inline", "sending"} => t1'.next = 1
    BY <1>9, InlineStarts DEF ResolveControl, Settle, Types, TurnType
  <2>2. arts' = arts
    BY <1>9 DEF ResolveControl
  <2> QED
    BY <2>1, <2>2, FinalsBounded DEF PassedIsDecided, Types
<1>10. CASE LeaveControl
  BY <1>10 DEF LeaveControl, Settle, delivery, Types, TurnType, JobType, LateType,
      Flags, PassedIsDecided
<1>11. CASE Receive
  BY <1>11 DEF Receive, branch, delivery, Types, TurnType, JobType, LateType, Flags,
      PassedIsDecided
<1>12. CASE Served
  BY <1>12 DEF Served, delivery, Types, TurnType, JobType, LateType, Flags,
      PassedIsDecided
<1>13. CASE DrivingFails
  BY <1>13 DEF DrivingFails, Settle, delivery, Types, TurnType, JobType, LateType,
      Flags, PassedIsDecided
<1>14. CASE DrivingEnds
  <2>1. t1'.pc \in {"inline", "sending"} => t1'.next = 1
    BY <1>14, InlineStarts DEF DrivingEnds, Settle, Types, TurnType
  <2>2. arts' = arts
    BY <1>14 DEF DrivingEnds
  <2> QED
    BY <2>1, <2>2, FinalsBounded DEF PassedIsDecided, Types
<1>15. CASE InlineNext
  <2>1. /\ t1.pc = "inline" /\ t1.next <= t1.upto /\ arts' = arts
        /\ late.pc \in {"none", "waiting"} /\ ~closed
    BY <1>15 DEF InlineNext, LateIsAfter, branch
  <2>2. t1.next \in Artifacts
    BY <2>1, NextIsArtifact
  <2>3. CASE t1'.next = t1.next /\ UNCHANGED fate
    BY <2>1, <2>3 DEF PassedIsDecided
  <2>4. CASE t1'.next = t1.next + 1 /\ fate' = fate \cup {t1.next}
    BY <2>1, <2>4, FinalsBounded DEF PassedIsDecided, Types, TurnType
  <2>5. CASE t1'.next = t1.next + 1 /\ fate' = fate /\ ledger[t1.next] # "none"
    <3>1. ledger[t1.next] = "finished"
      BY <2>1, <2>2, <2>5 DEF MarksExplained, Types, LedgerType
    <3>2. t1.next \in fate
      BY <2>2, <3>1 DEF MarksExplained
    <3> QED
      BY <2>1, <2>5, <3>2, FinalsBounded DEF PassedIsDecided, Types, TurnType
  <2> QED
    BY <1>15, <2>3, <2>4, <2>5 DEF InlineNext, Finish, Reservable, delivery, Types, TurnType
<1>16. CASE InlineSent
  <2>1. /\ t1.pc = "sending" /\ arts' = arts /\ t1'.next = t1.next + 1 /\ fate' = fate \cup {t1.next}
    BY <1>16 DEF InlineSent, Finish, branch, Types, TurnType
  <2> QED
    BY <2>1, FinalsBounded DEF PassedIsDecided, Types, TurnType
<1>17. CASE InlineFails
  BY <1>17 DEF InlineFails, Settle, Types, TurnType, JobType, LateType, Flags,
      PassedIsDecided
<1>18. CASE InlineEnds
  BY <1>18 DEF InlineEnds, Settle, delivery, Types, TurnType, JobType, LateType,
      Flags, PassedIsDecided
<1>19. CASE LateBegins
  BY <1>19 DEF LateBegins, LateStep, delivery, branch, Types, TurnType, JobType,
      LateType, Flags, PassedIsDecided
<1>20. CASE LateGroup
  <2>1. LateStep /\ fate \subseteq fate' /\ t1.pc = "settled"
    BY <1>20 DEF LateGroup, Finish, LateIsAfter
  <2> QED
    BY <2>1 DEF LateStep, branch, DelegationExplained, PassedIsDecided, Finals
<1>21. CASE LateSent
  <2>1. LateStep /\ fate \subseteq fate' /\ t1.pc = "settled"
    BY <1>21 DEF LateSent, Finish, LateIsAfter
  <2> QED
    BY <2>1 DEF LateStep, branch, DelegationExplained, PassedIsDecided, Finals
<1>22. CASE LateEnds
  BY <1>22 DEF LateEnds, LateStep, delivery, branch, Types, TurnType, JobType,
      LateType, Flags, PassedIsDecided
<1>23. CASE Discard
  BY <1>23 DEF Discard, Artifacts, branch, Types, TurnType, JobType, LateType,
      Flags, PassedIsDecided
<1>24. CASE Shutdown
  BY <1>24 DEF Shutdown, branch, delivery, Types, TurnType, JobType, LateType,
      Flags, PassedIsDecided
<1>25. CASE UNCHANGED vars
  BY <1>25 DEF vars, branch, delivery, Types, TurnType, JobType, LateType, Flags, PassedIsDecided
<1> QED
  BY <1>1, <1>2, <1>3, <1>4, <1>5, <1>6, <1>7, <1>8, <1>9, <1>10, <1>11, <1>12,
      <1>13, <1>14, <1>15, <1>16, <1>17, <1>18, <1>19, <1>20, <1>21, <1>22, <1>23,
      <1>24, <1>25 DEF Next, Job, Turn, Late

(* The late delivery passes only groups it has decided.                    *)
LEMMA GroupsDecidedStep == Types /\ Flags /\ Counters /\ MarksExplained /\ GroupIsReserved /\ LateIsAfter /\ GateExplained /\ DelegationExplained /\ GroupsDecided /\ [Next]_vars => GroupsDecided'
<1> SUFFICES ASSUME Types, Flags, Counters, MarksExplained, GroupIsReserved, LateIsAfter, GateExplained, DelegationExplained, GroupsDecided, [Next]_vars
             PROVE  GroupsDecided'
  OBVIOUS
<1> USE BoundsAssumption
<1>1. ASSUME NEW final \in BOOLEAN, Produce(final) PROVE GroupsDecided'
  BY <1>1 DEF Produce, JobStep, delivery, GroupsDecided, LateIsAfter, GateExplained,
      Types, LateType
<1>2. CASE StopEvent
  BY <1>2 DEF StopEvent, JobStep, delivery, GroupsDecided, LateIsAfter,
      GateExplained, Types, LateType
<1>3. CASE Ask
  BY <1>3 DEF Ask, JobStep, delivery, GroupsDecided, LateIsAfter, GateExplained,
      Types, LateType
<1>4. CASE JobReturns
  BY <1>4 DEF JobReturns, JobStep, delivery, GroupsDecided, LateIsAfter,
      GateExplained, Types, LateType
<1>5. CASE JobFails
  BY <1>5 DEF JobFails, delivery, GroupsDecided, LateIsAfter, GateExplained, Types,
      LateType
<1>6. CASE ScheduleCompletion
  BY <1>6 DEF ScheduleCompletion, Artifacts, branch, GroupsDecided, LateIsAfter,
      GateExplained, Types, LateType
<1>7. CASE WindowEnds
  <2>1. UNCHANGED <<late, closed, arts, fate, t1>>
    BY <1>7 DEF WindowEnds, branch, delivery
  <2>2. late.pc # "none" => gate' = gate
    BY <1>7 DEF WindowEnds, PublishGate, GateExplained, LateIsAfter
  <2> QED
    BY <2>1, <2>2 DEF GroupsDecided, Finals
<1>8. CASE CloseScope
  BY <1>8 DEF CloseScope, branch, delivery, GroupsDecided, LateIsAfter,
      GateExplained, Types, LateType
<1>9. CASE ResolveControl
  <2>1. UNCHANGED late /\ late.pc \in {"none", "waiting"}
    BY <1>9 DEF ResolveControl, LateIsAfter
  <2> QED
    BY <2>1 DEF GroupsDecided
<1>10. CASE LeaveControl
  <2>1. UNCHANGED late /\ late.pc \in {"none", "waiting"}
    BY <1>10 DEF LeaveControl, LateIsAfter
  <2> QED
    BY <2>1 DEF GroupsDecided
<1>11. CASE Receive
  BY <1>11 DEF Receive, branch, delivery, GroupsDecided, LateIsAfter, GateExplained,
      Types, LateType
<1>12. CASE Served
  BY <1>12 DEF Served, delivery, GroupsDecided, LateIsAfter, GateExplained, Types,
      LateType
<1>13. CASE DrivingFails
  <2>1. UNCHANGED late /\ late.pc \in {"none", "waiting"}
    BY <1>13 DEF DrivingFails, LateIsAfter
  <2> QED
    BY <2>1 DEF GroupsDecided
<1>14. CASE DrivingEnds
  <2>1. UNCHANGED late /\ late.pc \in {"none", "waiting"}
    BY <1>14 DEF DrivingEnds, LateIsAfter
  <2> QED
    BY <2>1 DEF GroupsDecided
<1>15. CASE InlineNext
  <2>1. UNCHANGED late /\ late.pc \in {"none", "waiting"}
    BY <1>15 DEF InlineNext, LateIsAfter
  <2> QED
    BY <2>1 DEF GroupsDecided
<1>16. CASE InlineSent
  <2>1. UNCHANGED late /\ late.pc \in {"none", "waiting"}
    BY <1>16 DEF InlineSent, LateIsAfter
  <2> QED
    BY <2>1 DEF GroupsDecided
<1>17. CASE InlineFails
  <2>1. UNCHANGED late /\ late.pc \in {"none", "waiting"}
    BY <1>17 DEF InlineFails, LateIsAfter
  <2> QED
    BY <2>1 DEF GroupsDecided
<1>18. CASE InlineEnds
  <2>1. UNCHANGED late /\ late.pc \in {"none", "waiting"}
    BY <1>18 DEF InlineEnds, LateIsAfter
  <2> QED
    BY <2>1 DEF GroupsDecided
<1>19. CASE LateBegins
  <2>1. /\ UNCHANGED <<gate, t1, arts, fate>> /\ late'.group = 1 /\ late'.pc \in {"groups", "discard"}
        /\ t1.pc = "settled" /\ job.pc = "ended" /\ gate # "pending"
    BY <1>19 DEF LateBegins, LateStep, branch, delivery, LateIsAfter, GateExplained, Types, LateType, Counters
  <2>2. late'.pc = "discard" => ~Eligible
    BY <1>19 DEF LateBegins, Types, LateType
  <2>3. ASSUME ~Eligible, ~(gate = "delegated" /\ t1.next <= t1.upto)
        PROVE  Finals(arts) \subseteq fate
    BY <2>1, <2>3 DEF Eligible, GateExplained, DelegationExplained, Types, GateType, Gates
  <2>4. \A a \in Finals(arts) : ~(arts[a].group < 1)
    BY FinalGroups, BoundsAssumption DEF Types, All
  <2> QED
    BY <2>1, <2>2, <2>3, <2>4 DEF GroupsDecided, Finals
<1>20. CASE LateGroup
  <2> DEFINE left == Reservable(Group(late.group))
  <2>1. /\ UNCHANGED <<arts, t1, closed>> /\ late.pc = "groups" /\ ~closed /\ t1.pc = "settled"
    BY <1>20 DEF LateGroup, LateStep, branch, LateIsAfter
  <2>2. \A a \in Group(late.group) : a \in left \/ a \in fate
    BY <2>1, GroupIsSmall DEF Reservable, MarksExplained, Types, LedgerType
  <2> HIDE DEF left
  <2>3. CASE fate' = fate \cup left /\ late'.pc = "groups" /\ late'.group = late.group + 1
    <3>1. ASSUME NEW a \in Finals(arts), arts[a].group < late.group + 1
          PROVE  a \in fate'
      <4>1. arts[a].group \in Nat /\ late.group \in Nat
        BY FinalGroups, BoundsAssumption DEF Types, All, LateType
      <4>2. CASE arts[a].group < late.group
        BY <2>1, <2>3, <4>2 DEF GroupsDecided
      <4>3. CASE arts[a].group = late.group
        BY <2>2, <2>3, <4>3 DEF Group
      <4> QED
        BY <3>1, <4>1, <4>2, <4>3
    <3> QED
      BY <2>1, <2>3, <3>1 DEF GroupsDecided, Finals
  <2>4. CASE fate' = fate /\ late'.pc = "sending" /\ late'.group = late.group
    BY <2>1, <2>4 DEF GroupsDecided, Finals
  <2> QED
    BY <1>20, <2>3, <2>4 DEF LateGroup, left, Finish, Types, LateType
<1>21. CASE LateSent
  <2> DEFINE sent == {a \in Group(late.group) : ledger[a] = "reserved"}
  <2>1. /\ UNCHANGED <<arts, t1, closed>> /\ late.pc = "sending" /\ ~closed
        /\ fate' = fate \cup sent /\ late'.pc = "groups" /\ late'.group = late.group + 1
    BY <1>21 DEF LateSent, LateStep, branch, Finish
  <2>2. \A a \in Group(late.group) : a \in sent \/ a \in fate
    BY <2>1, GroupIsSmall DEF MarksExplained, GroupIsReserved, Types, LedgerType
  <2> HIDE DEF sent
  <2>3. ASSUME NEW a \in Finals(arts), arts[a].group < late.group + 1
        PROVE  a \in fate'
    <3>1. arts[a].group \in Nat /\ late.group \in Nat
      BY FinalGroups, BoundsAssumption DEF Types, All, LateType
    <3>2. CASE arts[a].group < late.group
      BY <2>1, <3>2 DEF GroupsDecided
    <3>3. CASE arts[a].group = late.group
      BY <2>1, <2>2, <3>3 DEF Group
    <3> QED
      BY <2>3, <3>1, <3>2, <3>3
  <2> QED
    BY <2>1, <2>3 DEF GroupsDecided, Finals
<1>22. CASE LateEnds
  <2>1. /\ UNCHANGED <<arts, fate, closed>> /\ late.pc = "groups" /\ ~closed /\ late.group > All
        /\ late'.pc = "discard"
    BY <1>22 DEF LateEnds, LateStep, branch, delivery, All, Types, LateType
  <2>2. ASSUME NEW a \in Finals(arts)
        PROVE  a \in fate
    <3>1. arts[a].group < late.group
      BY <2>1, FinalGroups, BoundsAssumption DEF Types, LateType, All
    <3> QED
      BY <2>1, <3>1 DEF GroupsDecided
  <2> QED
    BY <2>1, <2>2 DEF GroupsDecided, Finals
<1>23. CASE Discard
  BY <1>23 DEF Discard, Artifacts, branch, GroupsDecided, LateIsAfter,
      GateExplained, Types, LateType
<1>24. CASE Shutdown
  BY <1>24 DEF Shutdown, branch, delivery, GroupsDecided, LateIsAfter,
      GateExplained, Types, LateType
<1>25. CASE UNCHANGED vars
  BY <1>25 DEF vars, branch, delivery, GroupsDecided, LateIsAfter, GateExplained, Types, LateType
<1> QED
  BY <1>1, <1>2, <1>3, <1>4, <1>5, <1>6, <1>7, <1>8, <1>9, <1>10, <1>11, <1>12,
      <1>13, <1>14, <1>15, <1>16, <1>17, <1>18, <1>19, <1>20, <1>21, <1>22, <1>23,
      <1>24, <1>25 DEF Next, Job, Turn, Late

-----------------------------------------------------------------------------
(* Nothing has happened yet.                                               *)
LEMMA DeliveryInit == Init => DInv
<1> SUFFICES ASSUME Init PROVE DInv
  OBVIOUS
<1>1. TypeOK
  <2>1. arts \in ArtsType /\ shown \in ShownType
    BY BoundsAssumption DEF Init, ArtsType, ShownType
  <2>2. job \in JobType /\ ledger \in LedgerType /\ fate \in SUBSET Artifacts
    BY DEF Init, JobType, LedgerType
  <2>3. t1 \in TurnType /\ late \in LateType /\ GateType
    BY BoundsAssumption DEF Init, TurnType, LateType, GateType, Gates, All
  <2>4. Flags
    <3>1. requests \in 0..MaxRequests
      BY BoundsAssumption DEF Init
    <3> QED
      BY <3>1 DEF Init, Flags
  <2> QED
    BY <2>1, <2>2, <2>3, <2>4, TypeSplit DEF Types
<1>2. Counters /\ GroupsBounded /\ ShownOnce
  BY BoundsAssumption DEF Init, Counters, GroupsBounded, ShownOnce, All
<1>3. Finals(arts) = {}
  BY DEF Init, Finals
<1>4. /\ MarksExplained /\ GroupIsReserved /\ ShownIsMarked /\ LateIsAfter /\ GateExplained
      /\ DelegationExplained /\ PassedIsDecided /\ GroupsDecided
  BY <1>3 DEF Init, MarksExplained, GroupIsReserved, ShownIsMarked, LateIsAfter, GateExplained,
       DelegationExplained, PassedIsDecided, GroupsDecided, Artifacts
<1> QED
  BY <1>1, <1>2, <1>4 DEF DInv

LEMMA DeliveryNext == DInv /\ [Next]_vars => DInv'
<1> SUFFICES ASSUME DInv, [Next]_vars PROVE DInv'
  OBVIOUS
<1>1. Types /\ Flags
  BY TypeSplit DEF DInv
<1>2. TypeOK'
  BY <1>1, TypesStep, FlagsStep, TypeSplitNext DEF DInv
<1>3. Counters' /\ GroupsBounded' /\ LateIsAfter' /\ GateExplained'
  BY <1>1, CountersStep, BoundedStep, LateIsAfterStep, GateStep DEF DInv
<1>4. DelegationExplained' /\ PassedIsDecided' /\ GroupsDecided'
  BY <1>1, DelegationStep, PassedStep, GroupsDecidedStep DEF DInv
<1>5. MarksExplained' /\ GroupIsReserved' /\ ShownIsMarked' /\ ShownOnce'
  BY <1>1, MarksStep, GroupReservedStep, ShownMarkedStep, ShownOnceStep DEF DInv
<1> QED
  BY <1>2, <1>3, <1>4, <1>5 DEF DInv

(* The inductive invariant holds of every behaviour.                       *)
THEOREM DeliveryCorrect == Spec => []DInv
<1>1. Init => DInv
  BY DeliveryInit
<1>2. DInv /\ [Next]_vars => DInv'
  BY DeliveryNext
<1> QED
  BY <1>1, <1>2, PTL DEF Spec

(* An artifact is sent once at most, inside the turn or after it, whatever *)
(* fails, is cancelled or shut down in between (ShownOnce): the ledger     *)
(* keeps the mark of what was sent for as long as anybody may send.        *)
THEOREM SentOnce == Spec => []ShownOnce
<1>1. DInv => ShownOnce
  BY DEF DInv
<1> QED
  BY <1>1, DeliveryCorrect, PTL

(* When the job and its late delivery are through, every final artifact    *)
(* has been delivered, suppressed or given up, except those a delegated    *)
(* turn began to deliver before it failed (FinalsAccounted).               *)
THEOREM NothingFinalIsLost == Spec => []FinalsAccounted
<1>1. DInv => FinalsAccounted
  BY DEF DInv, GroupsDecided, FinalsAccounted
<1> QED
  BY <1>1, DeliveryCorrect, PTL

(* The turn and the job act on the same resolution of the gate: a personal *)
(* answer belongs to a gate that lets it through, an inline delivery to    *)
(* one that does not, a served request to a delegated one (GateDecides).   *)
THEOREM GateIsShared == Spec => []GateDecides
<1>1. DInv => GateDecides
  BY DEF DInv, LateIsAfter, GateExplained, GateDecides
<1> QED
  BY <1>1, DeliveryCorrect, PTL

-----------------------------------------------------------------------------
(***************************************************************************)
(* Proofs about the plugin manager and the leases, for every set of        *)
(* plugins, every finite set of turns and every number of operations: the  *)
(* lease counts are right, no module stays blocked behind its operation,   *)
(* and no plugin is destroyed under a job that leases it.                  *)
(***************************************************************************)
(* A lease is out only from the launch of its job on, so that a turn that  *)
(* is about to launch one has none.                                        *)
LeaseHolders ==
    \A t \in Turns : turn[t].lease => turn[t].pc \in {"launched", "job", "over"}

(* An event that is set means that no lease is out: a drained module is    *)
(* given no new one.                                                       *)
DrainedIsFree == \A m \in drained : leases[m] = 0

(* The manager works on a drained module, and only a real one.             *)
WorksOnDrained ==
    /\ mgr.pc \in {"draining", "working", "fetching", "reading", "writing", "starts"} =>
          mgr.mod \in Modules
    /\ mgr.pc = "working" => mgr.mod \in drained
    /\ mgr.pc = "idle" => mgr.op = "none"
    /\ mgr.pc = "fetching" => mgr.op \in {"install", "reload_failed"}
    /\ mgr.pc \in {"reading", "writing"} => mgr.op = "turn_off"

(* What the manager is about to load does not work at that time: the       *)
(* plugin was unbound or is switched off, and a load of everything comes   *)
(* after everything has been unbound.                                      *)
LoadsTheDead ==
    /\ mgr.pc \in {"fetching", "loading"} /\ mgr.op # "all" =>
          mgr.mod \in Modules /\ ~Live(mgr.mod)
    /\ mgr.op = "all" /\ mgr.pc \in {"draining", "working"} =>
          Bound = mgr.todo \cup {mgr.mod} /\ mgr.mod \notin mgr.todo
    /\ mgr.op = "all" /\ mgr.pc = "loading" => Bound = {}
    /\ mgr.pc \in {"loads", "starts"} =>
          /\ mgr.todo \subseteq folder /\ \A n \in mgr.todo : ~Live(n)
          /\ mgr.op # "all" => mgr.todo \subseteq {mgr.mod}

(* What is bound has its folder.                                           *)
BoundIsInstalled == Bound \subseteq folder

(* What holds of the manager and its drains.                               *)
MgrInv == OnlyManagersDrain /\ DrainedIsFree /\ WorksOnDrained /\ LoadsTheDead /\ BoundIsInstalled

(* The inductive invariant.                                                *)
IInv == ManagementTypeOK /\ LeasesCounted /\ LeaseHolders /\ MgrInv

-----------------------------------------------------------------------------
(* The types of the records.                                               *)
PluginTurns ==
    [pc : {"idle", "found", "checked", "launched", "job", "direct", "over"},
     mods : SUBSET Modules, seen : [Modules -> Nat],
     left : SUBSET Modules, cur : Modules \cup {None}, lease : BOOLEAN]

MgrType ==
    [pc : {"idle", "draining", "working", "fetching", "loading", "loads", "starts", "reading", "writing"},
     op : {"none", "reload", "update", "uninstall", "turn_off", "all", "install", "reload_failed"},
     mod : Modules \cup {None}, todo : SUBSET Modules, copy : SUBSET Modules]

PluginType == [bound : BOOLEAN, active : BOOLEAN, ver : Nat]

OnType == [pc : {"none", "read", "reload"}, copy : SUBSET Modules]

(* ManagementTypeOK with its records named.                                *)
Typed ==
    /\ plugin \in [Modules -> PluginType]
    /\ folder \in SUBSET Modules /\ failed \in SUBSET Modules /\ off \in SUBSET Modules
    /\ leases \in [Modules -> Nat]
    /\ draining \in SUBSET Modules /\ drained \in SUBSET draining
    /\ turn \in [Turns -> PluginTurns]
    /\ mgr \in MgrType
    /\ on \in [Modules -> OnType]
    /\ shut \in BOOLEAN /\ ops \in Nat

(* Naming the records changes nothing, now or after a step.                *)
LEMMA TypedIsTypeOK == (ManagementTypeOK <=> Typed) /\ (ManagementTypeOK' <=> Typed')
BY DEF ManagementTypeOK, Typed, PluginType, PluginTurns, MgrType, OnType

(* The initial state has the types.                                        *)
LEMMA TypeInit == ManagementInit => ManagementTypeOK
<1>1. SUFFICES ASSUME ManagementInit PROVE ManagementTypeOK
  OBVIOUS
<1>2. plugin \in [Modules -> PluginType]
  BY <1>1 DEF ManagementInit, PluginType
<1>3. turn \in [Turns -> PluginTurns]
  BY <1>1 DEF ManagementInit, PluginTurns
<1>4. mgr \in MgrType
  BY <1>1 DEF ManagementInit, Idle, MgrType
<1>5. on \in [Modules -> OnType]
  BY <1>1 DEF ManagementInit, OnType
<1>6. QED
  BY <1>1, <1>2, <1>3, <1>4, <1>5 DEF ManagementInit, ManagementTypeOK, PluginType, PluginTurns, MgrType, OnType

(* A turn's step keeps the types.                                          *)
LEMMA TurnTypes ==
    ASSUME ManagementTypeOK, NEW t \in Turns, TurnStep(t)
    PROVE  ManagementTypeOK'
<1>1. turn[t] \in PluginTurns /\ turn \in [Turns -> PluginTurns]
  BY DEF ManagementTypeOK, PluginTurns
<1>2. \A r \in PluginTurns : turn' = [turn EXCEPT ![t] = r] => turn' \in [Turns -> PluginTurns]
  BY <1>1
<1>3. SUFFICES /\ turn' \in [Turns -> PluginTurns]
               /\ leases' \in [Modules -> Nat] /\ drained' \in SUBSET draining
               /\ TurnFrame
  BY DEF ManagementTypeOK, PluginTurns, TurnFrame, registry
<1>4. leases \in [Modules -> Nat] /\ drained \in SUBSET draining
  BY DEF ManagementTypeOK
<1>5. CASE Discover(t)
  <2>1. PICK ms \in (SUBSET {m \in Modules : Live(m)}) \ {{}} :
          turn' = [turn EXCEPT ![t] = [turn[t] EXCEPT
                      !.pc = "found", !.mods = ms, !.seen = [m \in Modules |-> plugin[m].ver]]]
    BY <1>5 DEF Discover
  <2>2. ms \in SUBSET Modules /\ [m \in Modules |-> plugin[m].ver] \in [Modules -> Nat]
    BY <2>1 DEF ManagementTypeOK
  <2>3. [turn[t] EXCEPT !.pc = "found", !.mods = ms,
                        !.seen = [m \in Modules |-> plugin[m].ver]] \in PluginTurns
    BY <1>1, <2>2 DEF PluginTurns
  <2>4. QED
    BY <1>2, <1>4, <1>5, <2>1, <2>3 DEF Discover
<1>6. CASE Check(t)
  <2>1. PICK kept \in SUBSET turn[t].mods :
          turn' = [turn EXCEPT ![t] = [turn[t] EXCEPT
                      !.pc = IF kept = {} THEN "over" ELSE "checked", !.mods = kept]]
    BY <1>6 DEF Check
  <2>2. kept \in SUBSET Modules
    BY <1>1, <2>1 DEF PluginTurns
  <2>3. [turn[t] EXCEPT !.pc = IF kept = {} THEN "over" ELSE "checked", !.mods = kept] \in PluginTurns
    BY <1>1, <2>2 DEF PluginTurns
  <2>4. QED
    BY <1>2, <1>4, <1>6, <2>1, <2>3 DEF Check
<1>7. CASE Launch(t)
  <2>1. turn[t].mods \in SUBSET Modules
    BY <1>1 DEF PluginTurns
  <2>2. /\ [turn[t] EXCEPT !.pc = "launched", !.left = turn[t].mods, !.lease = TRUE] \in PluginTurns
        /\ [turn[t] EXCEPT !.pc = "over"] \in PluginTurns
    BY <1>1, <2>1 DEF PluginTurns
  <2>3. turn' \in [Turns -> PluginTurns]
    BY <1>2, <1>7, <2>2 DEF Launch
  <2>4. leases' \in [Modules -> Nat]
    <3>1. CASE Lease(turn[t].mods)
      BY <1>4, <3>1 DEF Lease
    <3>2. QED
      BY <1>4, <1>7, <3>1 DEF Launch
  <2>5. QED
    BY <1>4, <1>7, <2>3, <2>4 DEF Launch
<1>8. CASE RunDirectly(t)
  <2>1. [turn[t] EXCEPT !.pc = "direct", !.left = turn[t].mods] \in PluginTurns
    BY <1>1 DEF PluginTurns
  <2>2. QED
    BY <1>2, <1>4, <1>8, <2>1 DEF RunDirectly
<1>9. CASE JobBegins(t)
  <2>1. [turn[t] EXCEPT !.pc = "job"] \in PluginTurns
    BY <1>1 DEF PluginTurns
  <2>2. QED
    BY <1>2, <1>4, <1>9, <2>1 DEF JobBegins
<1>10. CASE Invoke(t)
  <2>1. PICK m \in turn[t].left :
          turn' = [turn EXCEPT ![t] = [turn[t] EXCEPT
                      !.left = turn[t].left \ {m},
                      !.cur  = IF plugin[m].bound THEN m ELSE None]]
    BY <1>10 DEF Invoke
  <2>2. turn[t].left \in SUBSET Modules /\ m \in Modules
    BY <1>1, <2>1 DEF PluginTurns
  <2>3. [turn[t] EXCEPT !.left = turn[t].left \ {m},
                        !.cur  = IF plugin[m].bound THEN m ELSE None] \in PluginTurns
    BY <1>1, <2>2 DEF PluginTurns
  <2>4. QED
    BY <1>2, <1>4, <1>10, <2>1, <2>3 DEF Invoke
<1>11. CASE HandlerEnds(t)
  <2>1. PICK rest \in {turn[t].left, {}} :
          turn' = [turn EXCEPT ![t] = [turn[t] EXCEPT !.cur = None, !.left = rest]]
    BY <1>11 DEF HandlerEnds
  <2>2. rest \in SUBSET Modules
    BY <1>1, <2>1 DEF PluginTurns
  <2>3. [turn[t] EXCEPT !.cur = None, !.left = rest] \in PluginTurns
    BY <1>1, <2>2 DEF PluginTurns
  <2>4. QED
    BY <1>2, <1>4, <1>11, <2>1, <2>3 DEF HandlerEnds
<1>12. CASE Leave(t) /\ TurnFrame
  <2>1. [turn[t] EXCEPT !.pc = "over", !.lease = FALSE, !.cur = None, !.left = {}] \in PluginTurns
    BY <1>1 DEF PluginTurns
  <2>2. turn' \in [Turns -> PluginTurns]
    BY <1>2, <1>12, <2>1 DEF Leave
  <2>3. leases' \in [Modules -> Nat]
    BY <1>4, <1>12 DEF Leave, Returned
  <2>4. drained' \in SUBSET draining
    BY <1>4, <1>12 DEF Leave, Woken
  <2>5. QED
    BY <1>12, <2>2, <2>3, <2>4
<1>13. QED
  BY <1>5, <1>6, <1>7, <1>8, <1>9, <1>10, <1>11, <1>12
     DEF TurnStep, HandlerStep, HandlersDone, JobStops

(* Draining a module, and giving it free, keep the types.                  *)
LEMMA DrainTypes ==
    ASSUME ManagementTypeOK, NEW m \in Modules
    PROVE  /\ EndDraining(m) => draining' \in SUBSET Modules /\ drained' \in SUBSET draining'
           /\ \A others \in SUBSET Modules :
                 Drain(m, others) => draining' \in SUBSET Modules /\ drained' \in SUBSET draining'
BY DEF ManagementTypeOK, EndDraining, Drain

(* An operation that has the lock and drains its module is a proper one.   *)
LEMMA TakeTypes ==
    ASSUME ManagementTypeOK, NEW m \in Modules, NEW todo \in SUBSET Modules,
           NEW op \in {"reload", "update", "uninstall", "turn_off", "all"}, Take(op, m, todo)
    PROVE  mgr' \in MgrType /\ draining' \in SUBSET Modules /\ drained' \in SUBSET draining'
<1>1. mgr' \in MgrType
  BY DEF Take, Idle, MgrType
<1>2. draining \in SUBSET Modules
  BY DEF ManagementTypeOK
<1>3. QED
  BY <1>1, <1>2, DrainTypes DEF Take

(* So is one on all the plugins.                                           *)
LEMMA TakeAllTypes ==
    ASSUME ManagementTypeOK, TakeAll
    PROVE  /\ mgr' \in MgrType /\ draining' \in SUBSET Modules /\ drained' \in SUBSET draining'
           /\ UNCHANGED leases
<1>1. CASE Bound = {} /\ mgr' = [Idle EXCEPT !.pc = "loading", !.op = "all"] /\ UNCHANGED drains
  <2>1. mgr' \in MgrType
    BY <1>1 DEF Idle, MgrType
  <2>2. QED
    BY <1>1, <2>1 DEF ManagementTypeOK, drains
<1>2. CASE \E m \in Bound : Take("all", m, Bound \ {m})
  <2>1. PICK m \in Bound : Take("all", m, Bound \ {m})
    BY <1>2
  <2>2. m \in Modules /\ Bound \ {m} \in SUBSET Modules
    BY DEF Bound
  <2>3. QED
    BY <2>1, <2>2, TakeTypes DEF Take, Drain
<1>3. QED
  BY <1>1, <1>2 DEF TakeAll

(* A plugin that is unbound is a plugin still.                             *)
LEMMA UnboundTypes ==
    ASSUME Typed, NEW m \in Modules
    PROVE  Unbound(m) \in [Modules -> PluginType]
BY DEF Typed, Unbound, PluginType

(* The steps that begin an operation keep the types.                       *)
LEMMA BeginTypes ==
    ASSUME ManagementTypeOK,
           \/ \E m \in Modules, op \in {"reload", "update", "uninstall", "turn_off"} : Begin(op, m)
           \/ BeginAll \/ \E m \in Modules : Install(m) \/ ReloadFailed(m) \/ UninstallFailed(m)
    PROVE  ManagementTypeOK'
<1>0. Typed
  BY TypedIsTypeOK
<1>1. CASE \E m \in Modules, op \in {"reload", "update", "uninstall", "turn_off"} : Begin(op, m)
  <2>1. PICK m \in Modules, op \in {"reload", "update", "uninstall", "turn_off"} : Begin(op, m)
    BY <1>1
  <2>2. mgr' \in MgrType /\ draining' \in SUBSET Modules /\ drained' \in SUBSET draining'
    BY <2>1, TakeTypes DEF Begin
  <2>3. ops \in Nat /\ ops' = ops + 1 /\ UNCHANGED <<registry, off, leases, turn, on, shut>>
    BY <1>0, <2>1, Zenon DEF Typed, Begin, Take, Drain
  <2>4. QED
    BY <1>0, <2>2, <2>3, TypedIsTypeOK DEF Typed, registry
<1>2. CASE BeginAll
  BY <1>0, <1>2, TakeAllTypes, TypedIsTypeOK DEF Typed, BeginAll, registry
<1>3. CASE \E m \in Modules : Install(m) \/ ReloadFailed(m)
  <2>1. PICK m \in Modules, op \in {"install", "reload_failed"} :
           Fetch(op, m) /\ (plugin' = plugin \/ plugin' = Unbound(m))
    BY <1>3 DEF Install, ReloadFailed
  <2>2. mgr' \in MgrType
    BY <2>1 DEF Fetch, Idle, MgrType
  <2>3. plugin' \in [Modules -> PluginType]
    <3>1. plugin \in [Modules -> PluginType] /\ Unbound(m) \in [Modules -> PluginType]
      BY <1>0, UnboundTypes, Zenon DEF Typed
    <3>2. QED
      BY <2>1, <3>1
  <2>4. /\ ops \in Nat /\ ops' = ops + 1
        /\ UNCHANGED <<folder, failed, off, leases, draining, drained, turn, on, shut>>
    BY <1>0, <2>1, Zenon DEF Typed, Fetch, drains
  <2>5. QED
    BY <1>0, <2>2, <2>3, <2>4, TypedIsTypeOK DEF Typed
<1>4. CASE \E m \in Modules : UninstallFailed(m)
  <2>1. PICK m \in Modules : UninstallFailed(m)
    BY <1>4
  <2>2. plugin' \in [Modules -> PluginType]
    BY <1>0, <2>1, UnboundTypes DEF UninstallFailed
  <2>3. /\ ops \in Nat /\ ops' = ops + 1
        /\ folder' \in SUBSET Modules /\ failed' \in SUBSET Modules
        /\ UNCHANGED <<off, leases, draining, drained, turn, mgr, on, shut>>
    BY <1>0, <2>1 DEF Typed, UninstallFailed, drains
  <2>4. QED
    BY <1>0, <2>2, <2>3, TypedIsTypeOK DEF Typed
<1>5. QED
  BY <1>1, <1>2, <1>3, <1>4

(* So do the steps that switch a plugin on.                                *)
LEMMA TurnOnTypes ==
    ASSUME ManagementTypeOK, NEW m \in Modules, TurnOn(m) \/ TurnOnWrites(m) \/ TurnOnReloads(m)
    PROVE  ManagementTypeOK'
<1>1. Typed
  BY TypedIsTypeOK
<1>2. CASE TurnOn(m)
  <2>1. on' \in [Modules -> OnType]
    BY <1>1, <1>2 DEF Typed, TurnOn, OnType
  <2>2. QED
    BY <1>1, <1>2, <2>1, TypedIsTypeOK DEF Typed, TurnOn, registry, drains
<1>3. CASE TurnOnWrites(m)
  <2>1. on' \in [Modules -> OnType] /\ off' \in SUBSET Modules
    BY <1>1, <1>3 DEF Typed, TurnOnWrites, OnType
  <2>2. QED
    BY <1>1, <1>3, <2>1, TypedIsTypeOK DEF Typed, TurnOnWrites, registry, drains
<1>4. CASE TurnOnReloads(m)
  <2>1. on' \in [Modules -> OnType]
    BY <1>1, <1>4 DEF Typed, TurnOnReloads, OnType
  <2>2. /\ mgr' \in MgrType /\ draining' \in SUBSET Modules /\ drained' \in SUBSET draining'
        /\ UNCHANGED leases
    BY <1>4, TakeTypes, TakeAllTypes DEF TurnOnReloads, Take, Drain
  <2>3. QED
    BY <1>1, <1>4, <2>1, <2>2, TypedIsTypeOK DEF Typed, TurnOnReloads, registry
<1>5. QED
  BY <1>2, <1>3, <1>4

(* So do the manager's own.                                                *)
LEMMA ManageTypes ==
    ASSUME ManagementTypeOK, WorksOnDrained, LoadsTheDead, Manage
    PROVE  ManagementTypeOK'
<1>1. Typed
  BY TypedIsTypeOK
<1>2. mgr \in MgrType /\ mgr.copy \in SUBSET Modules
  BY <1>1 DEF Typed, MgrType
<1>3. Idle \in MgrType
  BY DEF Idle, MgrType
<1>4. CASE Drained
  <2>1. mgr' \in MgrType
    BY <1>2, <1>4 DEF Drained, MgrType
  <2>2. QED
    BY <1>1, <1>4, <2>1, TypedIsTypeOK DEF Typed, Drained, MgrFrame, registry, drains
<1>5. CASE DrainTimesOut \/ WorkFails
  <2>1. mgr.mod \in Modules
    BY <1>5 DEF WorksOnDrained, DrainTimesOut, WorkFails
  <2>2. draining' \in SUBSET Modules /\ drained' \in SUBSET draining' /\ UNCHANGED leases
    BY <1>5, <2>1, DrainTypes DEF DrainTimesOut, WorkFails, EndDraining
  <2>3. QED
    BY <1>1, <1>3, <1>5, <2>2, TypedIsTypeOK
       DEF Typed, DrainTimesOut, WorkFails, MgrFrame, registry
<1>6. \A m \in Modules : Unbound(m) \in [Modules -> PluginType]
  BY <1>1, UnboundTypes
<1>7. CASE Reloaded \/ Updated
  <2>1. mgr.mod \in Modules
    BY <1>7 DEF WorksOnDrained, Reloaded, Updated
  <2>2. [mgr EXCEPT !.pc = "loading"] \in MgrType
    BY <1>2 DEF MgrType
  <2>3. plugin' \in [Modules -> PluginType] /\ mgr' \in MgrType
    BY <1>1, <1>6, <1>7, <2>1, <2>2 DEF Typed, Reloaded, Updated
  <2>4. draining' \in SUBSET Modules /\ drained' \in SUBSET draining' /\ UNCHANGED leases
    BY <1>1, <1>7, <2>1, DrainTypes DEF Typed, Reloaded, Updated, EndDraining, drains
  <2>5. UNCHANGED <<folder, failed, off, turn, on, shut, ops>>
    BY <1>7 DEF Reloaded, Updated, MgrFrame
  <2>6. QED
    BY <1>1, <2>3, <2>4, <2>5, TypedIsTypeOK DEF Typed
<1>8. CASE ReloadedAll
  <2>1. mgr.mod \in Modules /\ mgr.todo \in SUBSET Modules /\ draining \in SUBSET Modules
    BY <1>1, <1>2, <1>8 DEF Typed, WorksOnDrained, ReloadedAll, MgrType
  <2>2. /\ \A n \in mgr.todo :
              [mgr EXCEPT !.pc = "draining", !.mod = n, !.todo = mgr.todo \ {n}] \in MgrType
        /\ [mgr EXCEPT !.pc = "loading"] \in MgrType
    BY <1>2, <2>1 DEF MgrType
  <2>3. draining \ {mgr.mod} \in SUBSET Modules
    BY <2>1
  <2>4. mgr' \in MgrType /\ draining' \in SUBSET Modules /\ drained' \in SUBSET draining'
        /\ UNCHANGED leases
    <3>1. CASE mgr.todo = {} /\ mgr' = [mgr EXCEPT !.pc = "loading"] /\ EndDraining(mgr.mod)
      BY <2>1, <2>2, <3>1, DrainTypes DEF EndDraining
    <3>2. CASE \E n \in mgr.todo :
             /\ mgr' = [mgr EXCEPT !.pc = "draining", !.mod = n, !.todo = mgr.todo \ {n}]
             /\ Drain(n, draining \ {mgr.mod})
      <4>1. PICK n \in mgr.todo :
               /\ mgr' = [mgr EXCEPT !.pc = "draining", !.mod = n, !.todo = mgr.todo \ {n}]
               /\ Drain(n, draining \ {mgr.mod})
        BY <3>2
      <4>2. n \in Modules /\ mgr' \in MgrType
        BY <2>1, <2>2, <4>1
      <4>3. draining' \in SUBSET Modules /\ drained' \in SUBSET draining'
        BY <2>3, <4>1, <4>2, DrainTypes
      <4>4. QED
        BY <4>1, <4>2, <4>3 DEF Drain
    <3>3. QED
      BY <1>8, <3>1, <3>2 DEF ReloadedAll
  <2>5. plugin' \in [Modules -> PluginType]
    BY <1>6, <1>8, <2>1 DEF ReloadedAll
  <2>6. UNCHANGED <<folder, failed, off, turn, on, shut, ops>>
    BY <1>8 DEF ReloadedAll, MgrFrame
  <2>7. QED
    BY <1>1, <2>4, <2>5, <2>6, TypedIsTypeOK DEF Typed
<1>9. CASE Uninstalled \/ TurnedOff
  <2>1. mgr.mod \in Modules
    BY <1>9 DEF WorksOnDrained, Uninstalled, TurnedOff
  <2>2. [mgr EXCEPT !.pc = "reading"] \in MgrType
    BY <1>2 DEF MgrType
  <2>3. [plugin EXCEPT ![mgr.mod].active = FALSE] \in [Modules -> PluginType]
    BY <1>1, <2>1 DEF Typed, PluginType
  <2>4. /\ plugin' \in [Modules -> PluginType] /\ mgr' \in MgrType
        /\ folder' \in SUBSET Modules
    BY <1>1, <1>3, <1>6, <1>9, <2>1, <2>2, <2>3 DEF Typed, Uninstalled, TurnedOff
  <2>5. draining' \in SUBSET Modules /\ drained' \in SUBSET draining' /\ UNCHANGED leases
    BY <1>9, <2>1, DrainTypes DEF Uninstalled, TurnedOff, EndDraining
  <2>6. UNCHANGED <<failed, off, turn, on, shut, ops>>
    BY <1>9 DEF Uninstalled, TurnedOff, MgrFrame
  <2>7. QED
    BY <1>1, <2>4, <2>5, <2>6, TypedIsTypeOK DEF Typed
<1>10. CASE ReadOff
  <2>1. off \in SUBSET Modules
    BY <1>1 DEF Typed
  <2>2. mgr' \in MgrType
    BY <1>2, <1>10, <2>1 DEF ReadOff, MgrType
  <2>3. QED
    BY <1>1, <1>10, <2>2, TypedIsTypeOK DEF Typed, ReadOff, MgrFrame, registry, drains
<1>11. CASE WriteOff
  <2>1. mgr.mod \in Modules /\ off' \in SUBSET Modules
    BY <1>2, <1>11 DEF WorksOnDrained, WriteOff
  <2>2. QED
    BY <1>1, <1>3, <1>11, <2>1, TypedIsTypeOK DEF Typed, WriteOff, MgrFrame, registry, drains
<1>12. CASE LoadBegins
  <2>1. PICK todo \in SUBSET Modules :
           mgr' = [mgr EXCEPT !.copy = off, !.pc = "loads", !.todo = todo]
    BY <1>1, <1>12 DEF LoadBegins, Typed
  <2>2. off \in SUBSET Modules
    BY <1>1 DEF Typed
  <2>3. [mgr EXCEPT !.copy = off, !.pc = "loads", !.todo = todo] \in MgrType
    BY <1>2, <2>2 DEF MgrType
  <2>4. QED
    BY <1>1, <1>12, <2>1, <2>3, TypedIsTypeOK DEF Typed, LoadBegins, MgrFrame, registry, drains
<1>13. CASE LoadEnds
  <2>1. failed' \in SUBSET Modules
    BY <1>1, <1>13 DEF Typed, LoadEnds
  <2>2. draining' \in SUBSET Modules /\ drained' \in SUBSET draining' /\ UNCHANGED leases
    BY <1>1, <1>13 DEF Typed, LoadEnds, EndDraining, drains
  <2>3. mgr' \in MgrType /\ UNCHANGED <<plugin, folder, off, turn, on, shut, ops>>
    BY <1>3, <1>13 DEF LoadEnds, MgrFrame
  <2>4. QED
    BY <1>1, <2>1, <2>2, <2>3, TypedIsTypeOK DEF Typed
<1>14. CASE Fetched \/ FetchFails
  <2>1. mgr.mod \in Modules
    BY <1>14 DEF WorksOnDrained, Fetched, FetchFails
  <2>2. [mgr EXCEPT !.pc = "loading"] \in MgrType
    BY <1>2 DEF MgrType
  <2>3. mgr' \in MgrType /\ folder' \in SUBSET Modules /\ failed' \in SUBSET Modules
    BY <1>1, <1>3, <1>14, <2>1, <2>2 DEF Typed, Fetched, FetchFails
  <2>4. UNCHANGED <<plugin, off, leases, draining, drained, turn, on, shut, ops>>
    BY <1>14 DEF Fetched, FetchFails, MgrFrame, drains
  <2>5. QED
    BY <1>1, <2>3, <2>4, TypedIsTypeOK DEF Typed
<1>15. CASE Started \/ StartFails
  <2>1. mgr.mod \in Modules
    BY <1>15 DEF WorksOnDrained, Started, StartFails
  <2>2. [mgr EXCEPT !.pc = "loads"] \in MgrType
    BY <1>2 DEF MgrType
  <2>3. mgr' \in MgrType /\ plugin' \in [Modules -> PluginType] /\ failed' \in SUBSET Modules
    BY <1>1, <1>6, <1>15, <2>1, <2>2 DEF Typed, Started, StartFails, CleanedUp, registry
  <2>4. UNCHANGED <<folder, off, leases, draining, drained, turn, on, shut, ops>>
    BY <1>15 DEF Started, StartFails, MgrFrame, registry, drains
  <2>5. QED
    BY <1>1, <2>3, <2>4, TypedIsTypeOK DEF Typed
<1>16. CASE \E m \in Modules : ImportFails(m)
  <2>1. PICK m \in Modules : ImportFails(m)
    BY <1>16
  <2>2. [mgr EXCEPT !.todo = mgr.todo \ {m}] \in MgrType
    BY <1>2 DEF MgrType
  <2>3. mgr' \in MgrType /\ plugin' \in [Modules -> PluginType] /\ failed' \in SUBSET Modules
    BY <1>1, <1>6, <2>1, <2>2 DEF Typed, ImportFails, CleanedUp
  <2>4. UNCHANGED <<folder, off, leases, draining, drained, turn, on, shut, ops>>
    BY <2>1 DEF ImportFails, MgrFrame, drains
  <2>5. QED
    BY <1>1, <2>3, <2>4, TypedIsTypeOK DEF Typed
<1>17. CASE \E m \in Modules : Bind(m)
  <2>1. PICK m \in Modules : Bind(m)
    BY <1>17
  <2>2. [mgr EXCEPT !.pc = "starts", !.mod = m, !.todo = mgr.todo \ {m}] \in MgrType
    BY <1>2 DEF MgrType
  <2>3. [bound |-> TRUE, active |-> m \notin mgr.copy,
         ver |-> IF plugin[m].bound THEN plugin[m].ver ELSE plugin[m].ver + 1] \in PluginType
    BY <1>1 DEF Typed, PluginType
  <2>4. mgr' \in MgrType /\ plugin' \in [Modules -> PluginType]
    BY <1>1, <2>1, <2>2, <2>3 DEF Typed, Bind
  <2>5. UNCHANGED <<folder, failed, off, leases, draining, drained, turn, on, shut, ops>>
    BY <2>1 DEF Bind, MgrFrame, drains
  <2>6. QED
    BY <1>1, <2>4, <2>5, TypedIsTypeOK DEF Typed
<1>18. QED
  BY <1>4, <1>5, <1>7, <1>8, <1>9, <1>10, <1>11, <1>12, <1>13, <1>14, <1>15, <1>16, <1>17
     DEF Manage, OwnStep

-----------------------------------------------------------------------------
(* Leases.                                                                 *)

(* A lease on a set of modules of a turn that had none adds one to each.   *)
LEMMA LeaseCounts ==
    ASSUME Typed, LeasesCounted, NEW t \in Turns, ~turn[t].lease, turn'[t].lease,
           turn'[t].mods = turn[t].mods, \A u \in Turns \ {t} : turn'[u] = turn[u],
           Lease(turn[t].mods)
    PROVE  LeasesCounted'
<1>1. SUFFICES ASSUME NEW m \in Modules
               PROVE  leases'[m] = Cardinality(Leased(m)')
  BY DEF LeasesCounted
<1>2. IsFiniteSet(Leased(m)) /\ leases[m] = Cardinality(Leased(m)) /\ leases[m] \in Nat
  BY TurnsAssumption, FS_Subset DEF Leased, LeasesCounted, Typed
<1>3. CASE m \in turn[t].mods
  <2>1. Leased(m)' = Leased(m) \cup {t} /\ t \notin Leased(m)
    BY <1>3 DEF Leased
  <2>2. Cardinality(Leased(m) \cup {t}) = Cardinality(Leased(m)) + 1
    BY <1>2, <2>1, FS_AddElement
  <2>3. QED
    BY <1>2, <1>3, <2>1, <2>2 DEF Lease
<1>4. CASE m \notin turn[t].mods
  <2>1. Leased(m)' = Leased(m)
    BY <1>4 DEF Leased
  <2>2. QED
    BY <1>2, <1>4, <2>1 DEF Lease
<1>5. QED
  BY <1>3, <1>4

(* What a turn that ends returns is what it had.                           *)
LEMMA LeaveCounts ==
    ASSUME Typed, LeasesCounted, NEW t \in Turns, Leave(t)
    PROVE  LeasesCounted'
<1>1. SUFFICES ASSUME NEW m \in Modules
               PROVE  leases'[m] = Cardinality(Leased(m)')
  BY DEF LeasesCounted
<1>2. IsFiniteSet(Leased(m)) /\ leases[m] = Cardinality(Leased(m)) /\ leases[m] \in Nat
  BY TurnsAssumption, FS_Subset DEF Leased, LeasesCounted, Typed
<1>3. /\ ~turn'[t].lease /\ \A u \in Turns \ {t} : turn'[u] = turn[u]
      /\ leases' = Returned(IF turn[t].lease THEN turn[t].mods ELSE {})
  <2>1. turn[t] \in PluginTurns /\ turn \in [Turns -> PluginTurns]
    BY DEF Typed
  <2>2. ~[turn[t] EXCEPT !.pc = "over", !.lease = FALSE, !.cur = None, !.left = {}].lease
    BY <2>1 DEF PluginTurns
  <2>3. QED
    BY <2>1, <2>2 DEF Leave
<1>4. Leased(m)' = Leased(m) \ {t}
  BY <1>3 DEF Leased
<1>5. CASE t \in Leased(m)
  <2>1. Cardinality(Leased(m) \ {t}) = Cardinality(Leased(m)) - 1
    BY <1>2, <1>5, FS_RemoveElement
  <2>2. Cardinality(Leased(m)) # 0
    BY <1>2, <1>5, FS_EmptySet
  <2>3. leases'[m] = leases[m] - 1
    BY <1>2, <1>3, <1>5, <2>2 DEF Leased, Returned
  <2>4. QED
    BY <1>2, <1>4, <2>1, <2>3
<1>6. CASE t \notin Leased(m)
  <2>1. Leased(m)' = Leased(m) /\ leases'[m] = leases[m]
    BY <1>3, <1>4, <1>6 DEF Leased, Returned
  <2>2. QED
    BY <1>2, <2>1
<1>7. QED
  BY <1>5, <1>6

(* A step that leaves the leases of every turn leaves the counts.          *)
LEMMA SameCounts ==
    ASSUME LeasesCounted, UNCHANGED leases,
           \A t \in Turns : turn'[t].lease = turn[t].lease
                            /\ (turn[t].lease => turn'[t].mods = turn[t].mods)
    PROVE  LeasesCounted'
<1>1. ASSUME NEW m \in Modules PROVE Leased(m)' = Leased(m)
  BY DEF Leased
<1>2. QED
  BY <1>1 DEF LeasesCounted

(* What a turn's step does to its leases: it takes them when it launches   *)
(* its job, returns them when the job ends, and keeps them in between.     *)
LEMMA TurnLeases ==
    ASSUME Typed, LeaseHolders, NEW t \in Turns, TurnStep(t)
    PROVE  /\ \A u \in Turns \ {t} : turn'[u] = turn[u]
           /\ turn'[t].lease => turn'[t].pc \in {"launched", "job", "over"}
           /\ \/ /\ Launch(t) /\ ~turn[t].lease /\ turn'[t].lease /\ turn'[t].mods = turn[t].mods
                 /\ Available(turn[t].mods) /\ Lease(turn[t].mods) /\ UNCHANGED drained
              \/ Leave(t)
              \/ /\ turn'[t].lease = turn[t].lease
                 /\ turn[t].lease => turn'[t].mods = turn[t].mods
                 /\ UNCHANGED <<leases, drained>>
<1>1. turn[t] \in PluginTurns /\ turn \in [Turns -> PluginTurns]
  BY DEF Typed
<1>2. \A r : turn' = [turn EXCEPT ![t] = r]
                => turn'[t] = r /\ \A u \in Turns \ {t} : turn'[u] = turn[u]
  BY <1>1
<1>3. turn[t].lease => turn[t].pc \in {"launched", "job", "over"}
  BY DEF LeaseHolders
<1>4. CASE Discover(t)
  <2>1. PICK ms \in (SUBSET {m \in Modules : Live(m)}) \ {{}} :
          turn' = [turn EXCEPT ![t] = [turn[t] EXCEPT
                      !.pc = "found", !.mods = ms, !.seen = [m \in Modules |-> plugin[m].ver]]]
    BY <1>4 DEF Discover
  <2>2. [turn[t] EXCEPT !.pc = "found", !.mods = ms,
                        !.seen = [m \in Modules |-> plugin[m].ver]].lease = turn[t].lease
    BY <1>1 DEF PluginTurns
  <2>3. ~turn[t].lease
    BY <1>3, <1>4 DEF Discover
  <2>4. QED
    BY <1>2, <1>4, <2>1, <2>2, <2>3 DEF Discover
<1>5. CASE Check(t)
  <2>1. PICK kept \in SUBSET turn[t].mods :
          turn' = [turn EXCEPT ![t] = [turn[t] EXCEPT
                      !.pc = IF kept = {} THEN "over" ELSE "checked", !.mods = kept]]
    BY <1>5 DEF Check
  <2>2. [turn[t] EXCEPT !.pc = IF kept = {} THEN "over" ELSE "checked", !.mods = kept].lease
           = turn[t].lease
    BY <1>1 DEF PluginTurns
  <2>3. ~turn[t].lease
    BY <1>3, <1>5 DEF Check
  <2>4. QED
    BY <1>2, <1>5, <2>1, <2>2, <2>3 DEF Check
<1>6. CASE Launch(t)
  <2>1. ~turn[t].lease
    BY <1>3, <1>6 DEF Launch
  <2>2. CASE /\ Available(turn[t].mods) /\ Lease(turn[t].mods)
             /\ turn' = [turn EXCEPT ![t] = [turn[t] EXCEPT
                            !.pc = "launched", !.left = turn[t].mods, !.lease = TRUE]]
    <3>1. LET r == [turn[t] EXCEPT !.pc = "launched", !.left = turn[t].mods, !.lease = TRUE]
          IN  r.pc = "launched" /\ r.mods = turn[t].mods /\ r.lease
      BY <1>1 DEF PluginTurns
    <3>2. turn'[t].pc = "launched" /\ turn'[t].mods = turn[t].mods /\ turn'[t].lease
          /\ \A u \in Turns \ {t} : turn'[u] = turn[u]
      BY <1>2, <2>2, <3>1
    <3>3. UNCHANGED drained
      BY <1>6 DEF Launch
    <3>4. QED
      BY <1>6, <2>1, <2>2, <3>2, <3>3
  <2>3. CASE turn' = [turn EXCEPT ![t] = [turn[t] EXCEPT !.pc = "over"]] /\ UNCHANGED leases
    <3>1. [turn[t] EXCEPT !.pc = "over"].lease = turn[t].lease
      BY <1>1 DEF PluginTurns
    <3>2. QED
      BY <1>2, <1>6, <2>1, <2>3, <3>1 DEF Launch
  <2>4. QED
    BY <1>6, <2>2, <2>3 DEF Launch
<1>7. CASE RunDirectly(t)
  <2>1. [turn[t] EXCEPT !.pc = "direct", !.left = turn[t].mods].lease = turn[t].lease
    BY <1>1 DEF PluginTurns
  <2>2. QED
    BY <1>2, <1>3, <1>7, <2>1 DEF RunDirectly
<1>8. CASE JobBegins(t)
  <2>1. LET r == [turn[t] EXCEPT !.pc = "job"]
        IN  r.pc = "job" /\ r.lease = turn[t].lease /\ r.mods = turn[t].mods
    BY <1>1 DEF PluginTurns
  <2>2. QED
    BY <1>2, <1>8, <2>1 DEF JobBegins
<1>9. CASE Invoke(t)
  <2>1. PICK m \in turn[t].left :
          turn' = [turn EXCEPT ![t] = [turn[t] EXCEPT
                      !.left = turn[t].left \ {m},
                      !.cur  = IF plugin[m].bound THEN m ELSE None]]
    BY <1>9 DEF Invoke
  <2>2. LET r == [turn[t] EXCEPT !.left = turn[t].left \ {m},
                                 !.cur  = IF plugin[m].bound THEN m ELSE None]
        IN  r.pc = turn[t].pc /\ r.lease = turn[t].lease /\ r.mods = turn[t].mods
    BY <1>1 DEF PluginTurns
  <2>3. QED
    BY <1>2, <1>3, <1>9, <2>1, <2>2 DEF Invoke
<1>10. CASE HandlerEnds(t)
  <2>1. PICK rest \in {turn[t].left, {}} :
          turn' = [turn EXCEPT ![t] = [turn[t] EXCEPT !.cur = None, !.left = rest]]
    BY <1>10 DEF HandlerEnds
  <2>2. LET r == [turn[t] EXCEPT !.cur = None, !.left = rest]
        IN  r.pc = turn[t].pc /\ r.lease = turn[t].lease /\ r.mods = turn[t].mods
    BY <1>1 DEF PluginTurns
  <2>3. QED
    BY <1>2, <1>3, <1>10, <2>1, <2>2 DEF HandlerEnds
<1>11. CASE Leave(t)
  <2>1. [turn[t] EXCEPT !.pc = "over", !.lease = FALSE, !.cur = None, !.left = {}].pc = "over"
    BY <1>1 DEF PluginTurns
  <2>2. QED
    BY <1>2, <1>11, <2>1 DEF Leave
<1>12. QED
  BY <1>4, <1>5, <1>6, <1>7, <1>8, <1>9, <1>10, <1>11
     DEF TurnStep, HandlerStep, HandlersDone, JobStops

-----------------------------------------------------------------------------
(* The steps keep the invariant.                                           *)

(* A turn's step: it leases nothing that is drained, and what it wakes has *)
(* no lease left.                                                          *)
LEMMA TurnKeeps ==
    ASSUME IInv, NEW t \in Turns, TurnStep(t)
    PROVE  IInv'
<1>1. Typed /\ ManagementTypeOK'
  BY TypedIsTypeOK, TurnTypes DEF IInv
<1>2. UNCHANGED <<plugin, folder, draining, mgr>>
  BY DEF TurnStep, HandlerStep, Discover, Check, Launch, RunDirectly, JobBegins, Invoke, HandlerEnds,
         HandlersDone, JobStops, TurnFrame, registry
<1>3. /\ \A u \in Turns \ {t} : turn'[u] = turn[u]
      /\ turn'[t].lease => turn'[t].pc \in {"launched", "job", "over"}
  BY <1>1, TurnLeases DEF IInv
<1>4. LeaseHolders'
  BY <1>3 DEF IInv, LeaseHolders
<1>5. LeasesCounted' /\ DrainedIsFree' /\ drained \subseteq drained'
  <2>1. CASE /\ Launch(t) /\ ~turn[t].lease /\ turn'[t].lease /\ turn'[t].mods = turn[t].mods
             /\ Available(turn[t].mods) /\ Lease(turn[t].mods) /\ UNCHANGED drained
    <3>1. LeasesCounted'
      BY <1>1, <1>3, <2>1, LeaseCounts DEF IInv
    <3>2. \A m \in drained : m \in Modules /\ leases'[m] = leases[m]
      BY <1>1, <2>1 DEF Typed, Available, Lease
    <3>3. QED
      BY <2>1, <3>1, <3>2 DEF IInv, MgrInv, DrainedIsFree
  <2>2. CASE Leave(t)
    <3>1. LeasesCounted'
      BY <1>1, <2>2, LeaveCounts DEF IInv
    <3>2. PICK ms : leases' = Returned(ms) /\ drained' = Woken(ms)
      BY <2>2 DEF Leave
    <3>3. \A m \in drained : m \in Modules /\ Returned(ms)[m] = 0
      BY <1>1 DEF Typed, IInv, MgrInv, DrainedIsFree, Returned
    <3>4. QED
      BY <3>1, <3>2, <3>3 DEF DrainedIsFree, Woken
  <2>3. CASE /\ turn'[t].lease = turn[t].lease
             /\ turn[t].lease => turn'[t].mods = turn[t].mods
             /\ UNCHANGED <<leases, drained>>
    <3>1. LeasesCounted'
      BY <1>3, <2>3, SameCounts DEF IInv
    <3>2. QED
      BY <2>3, <3>1 DEF IInv, MgrInv, DrainedIsFree
  <2>4. QED
    BY <1>1, <2>1, <2>2, <2>3, TurnLeases DEF IInv
<1>6. OnlyManagersDrain' /\ WorksOnDrained' /\ LoadsTheDead' /\ BoundIsInstalled'
  BY <1>2, <1>5 DEF IInv, MgrInv, OnlyManagersDrain, WorksOnDrained, LoadsTheDead, BoundIsInstalled,
                    Bound, Live
<1>7. QED
  BY <1>1, <1>4, <1>5, <1>6 DEF IInv, MgrInv

(* CloseRuntime leaves every lease as it is.                               *)
LEMMA ShutdownKeeps ==
    ASSUME IInv, CloseRuntime
    PROVE  IInv'
<1>1. Typed
  BY TypedIsTypeOK DEF IInv
<1>2. ASSUME NEW t \in Turns
      PROVE  /\ turn'[t] \in PluginTurns
             /\ turn'[t].lease = turn[t].lease /\ turn'[t].mods = turn[t].mods
             /\ turn'[t].pc \in {turn[t].pc, "over"}
  <2>1. turn[t] \in PluginTurns
    BY <1>1 DEF Typed
  <2>2. LET r == [turn[t] EXCEPT !.pc = "over"]
        IN  r \in PluginTurns /\ r.lease = turn[t].lease /\ r.mods = turn[t].mods /\ r.pc = "over"
    BY <2>1 DEF PluginTurns
  <2>3. turn'[t] = IF turn[t].pc = "launched" THEN [turn[t] EXCEPT !.pc = "over"] ELSE turn[t]
    BY DEF CloseRuntime
  <2>4. QED
    BY <2>1, <2>2, <2>3
<1>3. turn' \in [Turns -> PluginTurns]
  BY <1>2 DEF CloseRuntime
<1>4. ManagementTypeOK'
  BY <1>1, <1>3, TypedIsTypeOK DEF Typed, CloseRuntime, registry, drains
<1>5. LeasesCounted'
  BY <1>2, SameCounts DEF IInv, CloseRuntime, drains
<1>6. LeaseHolders'
  BY <1>2 DEF IInv, LeaseHolders
<1>7. MgrInv'
  BY DEF IInv, MgrInv, OnlyManagersDrain, DrainedIsFree, WorksOnDrained, LoadsTheDead,
         BoundIsInstalled, Bound, Live, CloseRuntime, registry, drains
<1>8. QED
  BY <1>4, <1>5, <1>6, <1>7 DEF IInv

(* A step that leaves turns and counts alone keeps what is said of leases. *)
LEMMA LeasesStay ==
    ASSUME IInv, UNCHANGED <<turn, leases>>
    PROVE  LeasesCounted' /\ LeaseHolders'
BY SameCounts DEF IInv, LeaseHolders

(* The lock was free, so nothing was drained; now one module is.           *)
LEMMA TakeKeeps ==
    ASSUME Typed, MgrInv, NEW m \in Modules, NEW todo,
           NEW op \in {"reload", "update", "uninstall", "turn_off", "all"},
           op = "all" => Bound = todo \cup {m} /\ m \notin todo,
           Take(op, m, todo), UNCHANGED <<plugin, folder>>
    PROVE  MgrInv'
<1>1. draining = {}
  BY DEF MgrInv, OnlyManagersDrain, WorksOnDrained, Take
<1>2. mgr'.pc = "draining" /\ mgr'.op = op /\ mgr'.mod = m /\ mgr'.todo = todo
  BY DEF Take, Idle
<1>3. draining' = {m} /\ drained' = (IF leases[m] = 0 THEN {m} ELSE {}) /\ leases' = leases
  BY <1>1 DEF Take, Drain, Typed
<1>4. QED
  BY <1>2, <1>3 DEF MgrInv, OnlyManagersDrain, DrainedIsFree, WorksOnDrained, LoadsTheDead,
                    BoundIsInstalled, Bound

(* An operation on all the plugins starts with all of them to do.          *)
LEMMA TakeAllKeeps ==
    ASSUME Typed, MgrInv, TakeAll, UNCHANGED <<plugin, folder>>
    PROVE  MgrInv'
<1>1. CASE \E m \in Bound : Take("all", m, Bound \ {m})
  <2>1. PICK m \in Bound : Take("all", m, Bound \ {m})
    BY <1>1
  <2>2. m \in Modules /\ Bound = (Bound \ {m}) \cup {m} /\ m \notin Bound \ {m}
    BY DEF Bound
  <2>3. QED
    BY <2>1, <2>2, TakeKeeps
<1>2. CASE /\ Bound = {} /\ mgr.pc = "idle"
           /\ mgr' = [Idle EXCEPT !.pc = "loading", !.op = "all"] /\ UNCHANGED drains
  <2>1. draining = {} /\ drained = {}
    BY <1>2 DEF Typed, MgrInv, OnlyManagersDrain, WorksOnDrained
  <2>2. mgr'.pc = "loading" /\ mgr'.op = "all"
    BY <1>2 DEF Idle
  <2>3. QED
    BY <1>2, <2>1, <2>2
       DEF MgrInv, OnlyManagersDrain, DrainedIsFree, WorksOnDrained, LoadsTheDead, BoundIsInstalled,
           Bound, drains
<1>3. QED
  BY <1>1, <1>2 DEF TakeAll

(* Taking a plugin out of the registries unbinds it, and no other.         *)
LEMMA UnboundIsBound ==
    ASSUME Typed, NEW m \in Modules, plugin' = Unbound(m)
    PROVE  Bound' = Bound \ {m} /\ ~Live(m)' /\ \A n \in Modules \ {m} : plugin'[n] = plugin[n]
<1>1. ASSUME NEW n \in Modules
      PROVE  /\ plugin'[n].bound <=> plugin[n].bound /\ n # m
             /\ n # m => plugin'[n] = plugin[n]
  BY DEF Typed, PluginType, Unbound
<1>2. QED
  BY <1>1 DEF Bound, Live

(* The steps that begin an operation, and those that switch a plugin on.   *)
LEMMA OperationsKeep ==
    ASSUME IInv,
           \/ \E m \in Modules, op \in {"reload", "update", "uninstall", "turn_off"} : Begin(op, m)
           \/ BeginAll
           \/ \E m \in Modules : Install(m) \/ ReloadFailed(m) \/ UninstallFailed(m)
           \/ \E m \in Modules : TurnOn(m) \/ TurnOnWrites(m) \/ TurnOnReloads(m)
    PROVE  IInv'
<1>1. ManagementTypeOK' /\ Typed /\ MgrInv
  BY BeginTypes, TurnOnTypes, TypedIsTypeOK DEF IInv
<1>2. SUFFICES MgrInv' /\ UNCHANGED <<turn, leases>>
  BY <1>1, LeasesStay DEF IInv
<1>3. CASE \E m \in Modules, op \in {"reload", "update", "uninstall", "turn_off"} : Begin(op, m)
  <2>1. PICK m \in Modules, op \in {"reload", "update", "uninstall", "turn_off"} : Begin(op, m)
    BY <1>3
  <2>2. Take(op, m, {}) /\ UNCHANGED <<plugin, folder, turn>>
    BY <2>1 DEF Begin, registry
  <2>3. MgrInv'
    BY <1>1, <2>2, TakeKeeps
  <2>4. QED
    BY <2>2, <2>3 DEF Take, Drain
<1>4. CASE BeginAll
  <2>1. TakeAll /\ UNCHANGED <<plugin, folder, turn>>
    BY <1>4 DEF BeginAll, registry
  <2>2. QED
    BY <1>1, <2>1, TakeAllKeeps, TakeAllTypes DEF IInv
<1>5. CASE \E m \in Modules : Install(m) \/ ReloadFailed(m)
  <2>1. PICK m \in Modules, op \in {"install", "reload_failed"} :
           /\ Fetch(op, m)
           /\ (m \notin folder /\ UNCHANGED plugin) \/ plugin' = Unbound(m)
    BY <1>5 DEF Install, ReloadFailed
  <2>2. draining = {} /\ drained = {}
    BY <1>1, <2>1 DEF Typed, MgrInv, OnlyManagersDrain, WorksOnDrained, Fetch
  <2>3. mgr'.pc = "fetching" /\ mgr'.op = op /\ mgr'.mod = m
    BY <2>1 DEF Fetch, Idle
  <2>4. UNCHANGED <<folder, leases, draining, drained, turn>>
    BY <2>1 DEF Fetch, drains
  <2>5. ~Live(m)' /\ Bound' \subseteq Bound
    BY <1>1, <2>1, UnboundIsBound DEF MgrInv, BoundIsInstalled, Bound, Live
  <2>6. QED
    BY <1>1, <2>2, <2>3, <2>4, <2>5
       DEF MgrInv, OnlyManagersDrain, DrainedIsFree, WorksOnDrained, LoadsTheDead, BoundIsInstalled
<1>6. CASE \E m \in Modules : UninstallFailed(m)
  <2>1. PICK m \in Modules : UninstallFailed(m)
    BY <1>6
  <2>2. Bound' = Bound \ {m}
    BY <1>1, <2>1, UnboundIsBound DEF UninstallFailed
  <2>3. /\ folder' \in {folder, folder \ {m}} /\ mgr.pc = "idle"
        /\ UNCHANGED <<mgr, leases, draining, drained, turn>>
    BY <2>1 DEF UninstallFailed, drains
  <2>4. mgr.op = "none"
    BY <1>1, <2>3 DEF MgrInv, WorksOnDrained
  <2>5. QED
    BY <1>1, <2>2, <2>3, <2>4
       DEF MgrInv, OnlyManagersDrain, DrainedIsFree, WorksOnDrained, LoadsTheDead, BoundIsInstalled
<1>7. CASE \E m \in Modules : TurnOn(m) \/ TurnOnWrites(m)
  BY <1>1, <1>7 DEF MgrInv, OnlyManagersDrain, DrainedIsFree, WorksOnDrained, LoadsTheDead, Bound,
                    BoundIsInstalled, Live, TurnOn, TurnOnWrites, registry, drains
<1>8. CASE \E m \in Modules : TurnOnReloads(m)
  <2>1. PICK m \in Modules : TurnOnReloads(m)
    BY <1>8
  <2>2. (Take("reload", m, {}) \/ TakeAll) /\ UNCHANGED <<plugin, folder, turn>>
    BY <2>1 DEF TurnOnReloads, registry
  <2>3. QED
    BY <1>1, <2>2, TakeKeeps, TakeAllKeeps, TakeAllTypes DEF IInv, Take, Drain
<1>9. QED
  BY <1>3, <1>4, <1>5, <1>6, <1>7, <1>8

(* The manager's own steps: it blocks only its module, and gives it free   *)
(* when it ends; what it goes on to load is unbound or switched off.       *)
LEMMA ManageKeeps ==
    ASSUME IInv, Manage
    PROVE  IInv'
<1>1. ManagementTypeOK' /\ Typed /\ MgrInv /\ mgr \in MgrType
  BY ManageTypes, TypedIsTypeOK DEF IInv, MgrInv, Typed
<1>2. UNCHANGED <<turn, leases>>
  BY DEF Manage, OwnStep, Drained, DrainTimesOut, WorkFails, Fetched, FetchFails, Reloaded, Updated,
         ReloadedAll, Uninstalled, TurnedOff, ReadOff, WriteOff, LoadBegins, ImportFails, Bind, Started,
         StartFails, LoadEnds, MgrFrame, EndDraining, Drain, registry, drains
<1>3. SUFFICES MgrInv'
  BY <1>1, <1>2, LeasesStay DEF IInv
<1>0. ASSUME NEW m \in Modules, plugin' = Unbound(m), UNCHANGED folder
      PROVE  BoundIsInstalled'
  BY <1>0, <1>1, UnboundIsBound DEF MgrInv, BoundIsInstalled
<1>4. Idle.pc = "idle" /\ Idle.op = "none"
  BY DEF Idle
<1>5. CASE Drained
  <2>1. mgr'.pc = "working" /\ mgr'.op = mgr.op /\ mgr'.mod = mgr.mod /\ mgr'.todo = mgr.todo
    BY <1>1, <1>5 DEF MgrType, Drained
  <2>2. UNCHANGED <<plugin, folder, drains>>
    BY <1>5 DEF Drained, registry
  <2>3. QED
    BY <1>1, <1>5, <2>1, <2>2 DEF MgrInv, OnlyManagersDrain, DrainedIsFree, WorksOnDrained,
                                  LoadsTheDead, BoundIsInstalled, Bound, Drained, drains
<1>6. CASE DrainTimesOut \/ WorkFails \/ Uninstalled
  <2>1. mgr' = Idle /\ EndDraining(mgr.mod) /\ mgr.pc \in {"draining", "working"}
    BY <1>6 DEF DrainTimesOut, WorkFails, Uninstalled
  <2>2. draining' = {} /\ drained' = {}
    BY <1>1, <2>1, TypedIsTypeOK DEF MgrInv, OnlyManagersDrain, EndDraining, Typed
  <2>3. BoundIsInstalled'
    <3>1. CASE Uninstalled
      <4>1. mgr.mod \in Modules
        BY <1>1, <2>1 DEF MgrInv, WorksOnDrained
      <4>2. Bound' = Bound \ {mgr.mod} /\ folder' \in {folder, folder \ {mgr.mod}}
        BY <1>1, <3>1, <4>1, UnboundIsBound DEF Uninstalled
      <4>3. QED
        BY <1>1, <4>2 DEF MgrInv, BoundIsInstalled
    <3>2. CASE DrainTimesOut \/ WorkFails
      BY <1>1, <3>2 DEF MgrInv, BoundIsInstalled, Bound, DrainTimesOut, WorkFails, registry
    <3>3. QED
      BY <1>6, <3>1, <3>2
  <2>4. QED
    BY <1>4, <2>1, <2>2, <2>3
       DEF MgrInv, OnlyManagersDrain, DrainedIsFree, WorksOnDrained, LoadsTheDead
<1>7. CASE Reloaded
  <2>1. mgr'.pc = "loading" /\ mgr'.op = "reload" /\ mgr'.mod = mgr.mod
    BY <1>1, <1>7 DEF MgrType, Reloaded
  <2>2. mgr.mod \in Modules /\ draining' = {} /\ drained' = {}
    BY <1>1, <1>7 DEF MgrInv, OnlyManagersDrain, WorksOnDrained, EndDraining, Typed, Reloaded
  <2>3. ~Live(mgr.mod)'
    BY <1>1, <1>7, <2>2 DEF Typed, PluginType, Reloaded, Unbound, Live
  <2>4. BoundIsInstalled'
    BY <1>0, <1>1, <1>7, <2>2 DEF MgrInv, BoundIsInstalled, Bound, Reloaded
  <2>5. QED
    BY <2>1, <2>2, <2>3, <2>4
       DEF MgrInv, OnlyManagersDrain, DrainedIsFree, WorksOnDrained, LoadsTheDead, Live
<1>8. CASE Updated
  <2>1. mgr'.pc = "loading" /\ mgr'.op = "update" /\ mgr'.mod = mgr.mod
    BY <1>1, <1>8 DEF MgrType, Updated
  <2>2. mgr.mod \in Modules /\ UNCHANGED drains
    BY <1>1, <1>8 DEF MgrInv, WorksOnDrained, Updated
  <2>3. ~Live(mgr.mod)'
    BY <1>1, <1>8, <2>2 DEF Typed, PluginType, Updated, Unbound, Live
  <2>4. BoundIsInstalled'
    BY <1>0, <1>1, <1>8, <2>2 DEF MgrInv, BoundIsInstalled, Bound, Updated
  <2>5. QED
    BY <1>1, <1>8, <2>1, <2>2, <2>3, <2>4 DEF MgrInv, OnlyManagersDrain, DrainedIsFree, WorksOnDrained,
                                        LoadsTheDead, Live, Updated, drains
<1>9. CASE ReloadedAll
  <2>1. mgr.mod \in Modules /\ mgr.pc = "working" /\ mgr.op = "all" /\ draining \subseteq {mgr.mod}
    BY <1>1, <1>9 DEF MgrInv, OnlyManagersDrain, WorksOnDrained, ReloadedAll
  <2>2. Bound = mgr.todo \cup {mgr.mod} /\ mgr.mod \notin mgr.todo
    BY <1>1, <2>1 DEF MgrInv, LoadsTheDead
  <2>3. Bound' = Bound \ {mgr.mod} /\ BoundIsInstalled'
    BY <1>0, <1>1, <1>9, <2>1, UnboundIsBound DEF ReloadedAll
  <2>4. CASE mgr.todo = {} /\ mgr' = [mgr EXCEPT !.pc = "loading"] /\ EndDraining(mgr.mod)
    <3>1. mgr'.pc = "loading" /\ mgr'.op = "all"
      BY <1>1, <2>1, <2>4 DEF MgrType
    <3>2. draining' = {} /\ drained' = {} /\ Bound' = {}
      BY <1>1, <2>1, <2>2, <2>3, <2>4 DEF EndDraining, Typed
    <3>3. QED
      BY <2>3, <3>1, <3>2 DEF MgrInv, OnlyManagersDrain, DrainedIsFree, WorksOnDrained, LoadsTheDead
  <2>5. CASE \E n \in mgr.todo :
                /\ mgr' = [mgr EXCEPT !.pc = "draining", !.mod = n, !.todo = mgr.todo \ {n}]
                /\ Drain(n, draining \ {mgr.mod})
    <3>1. PICK n \in mgr.todo :
             /\ mgr' = [mgr EXCEPT !.pc = "draining", !.mod = n, !.todo = mgr.todo \ {n}]
             /\ Drain(n, draining \ {mgr.mod})
      BY <2>5
    <3>2. mgr'.pc = "draining" /\ mgr'.op = "all" /\ mgr'.mod = n /\ mgr'.todo = mgr.todo \ {n}
      BY <1>1, <2>1, <3>1 DEF MgrType
    <3>3. n \in Modules
      BY <2>2, <3>1 DEF Bound
    <3>4. draining' = {n} /\ drained' = (IF leases[n] = 0 THEN {n} ELSE {}) /\ leases' = leases
      BY <2>1, <3>1 DEF Drain
    <3>5. Bound' = mgr'.todo \cup {n} /\ n \notin mgr'.todo
      BY <2>2, <2>3, <3>1, <3>2
    <3>6. QED
      BY <2>3, <3>2, <3>3, <3>4, <3>5
         DEF MgrInv, OnlyManagersDrain, DrainedIsFree, WorksOnDrained, LoadsTheDead
  <2>6. QED
    BY <1>9, <2>4, <2>5 DEF ReloadedAll
<1>10. CASE TurnedOff
  <2>1. mgr'.pc = "reading" /\ mgr'.op = "turn_off" /\ mgr'.mod = mgr.mod
    BY <1>1, <1>10 DEF MgrType, TurnedOff
  <2>2. mgr.mod \in Modules /\ draining' = {} /\ drained' = {}
    BY <1>1, <1>10 DEF MgrInv, OnlyManagersDrain, WorksOnDrained, EndDraining, Typed, TurnedOff
  <2>3. Bound' = Bound /\ UNCHANGED folder
    BY <1>1, <1>10, <2>2 DEF Typed, PluginType, Bound, TurnedOff
  <2>4. QED
    BY <1>1, <2>1, <2>2, <2>3
       DEF MgrInv, OnlyManagersDrain, DrainedIsFree, WorksOnDrained, LoadsTheDead, BoundIsInstalled
<1>11. CASE ReadOff \/ LoadBegins
  <2>1. /\ mgr'.op = mgr.op /\ mgr'.mod = mgr.mod
        /\ \/ mgr'.pc = "writing" /\ mgr.pc = "reading"
           \/ /\ mgr'.pc = "loads" /\ mgr.pc = "loading"
              /\ mgr'.todo = IF mgr.op = "all" THEN folder ELSE folder \cap {mgr.mod}
    BY <1>1, <1>11 DEF MgrType, ReadOff, LoadBegins
  <2>2. UNCHANGED <<plugin, folder, draining, drained, leases>>
    BY <1>11 DEF ReadOff, LoadBegins, registry, drains
  <2>3. LoadsTheDead'
    BY <1>1, <2>1, <2>2 DEF MgrInv, LoadsTheDead, Typed, Bound, Live
  <2>4. QED
    BY <1>1, <2>1, <2>2, <2>3
       DEF MgrInv, OnlyManagersDrain, DrainedIsFree, WorksOnDrained, BoundIsInstalled, Bound
<1>12. CASE WriteOff \/ LoadEnds \/ FetchFails
  <2>1. mgr' = Idle
    BY <1>12 DEF WriteOff, LoadEnds, FetchFails
  <2>2. draining' = {} /\ drained' = {}
    <3>1. CASE mgr.op = "update" /\ EndDraining(mgr.mod)
      BY <1>1, <3>1 DEF MgrInv, OnlyManagersDrain, EndDraining, Typed
    <3>2. CASE mgr.op # "update" /\ UNCHANGED drains
      BY <1>1, <1>12, <3>2
         DEF MgrInv, OnlyManagersDrain, WorksOnDrained, Typed, WriteOff, LoadEnds, FetchFails, drains
    <3>3. QED
      BY <1>1, <1>12, <3>1, <3>2 DEF MgrInv, WorksOnDrained, WriteOff, LoadEnds, FetchFails
  <2>3. UNCHANGED plugin /\ folder \subseteq folder'
    BY <1>12 DEF WriteOff, LoadEnds, FetchFails, registry
  <2>4. QED
    BY <1>1, <1>4, <2>1, <2>2, <2>3
       DEF MgrInv, OnlyManagersDrain, DrainedIsFree, WorksOnDrained, LoadsTheDead, BoundIsInstalled, Bound
<1>13. CASE Fetched
  <2>1. /\ mgr.pc = "fetching" /\ mgr'.pc = "loading" /\ mgr'.op = mgr.op /\ mgr'.mod = mgr.mod
        /\ mgr.op \in {"install", "reload_failed"}
    BY <1>1, <1>13 DEF MgrType, MgrInv, WorksOnDrained, Fetched
  <2>2. UNCHANGED <<plugin, draining, drained, leases>> /\ folder \subseteq folder'
    BY <1>13 DEF Fetched, drains
  <2>3. QED
    BY <1>1, <2>1, <2>2 DEF MgrInv, OnlyManagersDrain, DrainedIsFree, WorksOnDrained, LoadsTheDead,
                            BoundIsInstalled, Bound, Live
<1>14. CASE \E m \in Modules : ImportFails(m) \/ Bind(m)
  <2>1. PICK m \in Modules : ImportFails(m) \/ Bind(m)
    BY <1>14
  <2>2. /\ mgr.pc = "loads" /\ m \in mgr.todo /\ mgr'.op = mgr.op /\ mgr'.todo = mgr.todo \ {m}
        /\ \/ mgr'.pc = "loads" /\ mgr'.mod = mgr.mod
           \/ mgr'.pc = "starts" /\ mgr'.mod = m
    BY <1>1, <2>1 DEF MgrType, ImportFails, Bind
  <2>3. /\ mgr.todo \subseteq folder /\ \A n \in mgr.todo : ~Live(n)
        /\ mgr.op # "all" => m = mgr.mod /\ mgr'.todo = {}
    BY <1>1, <2>2 DEF MgrInv, LoadsTheDead
  <2>4. UNCHANGED <<folder, draining, drained, leases>>
    BY <2>1 DEF ImportFails, Bind, drains
  <2>5. Bound' \subseteq Bound \cup {m} /\ \A n \in Modules \ {m} : plugin'[n] = plugin[n]
    <3>1. CASE ImportFails(m)
      BY <1>1, <3>1, UnboundIsBound DEF ImportFails, CleanedUp
    <3>2. CASE Bind(m)
      BY <1>1, <3>2 DEF Typed, Bind, Bound
    <3>3. QED
      BY <2>1, <3>1, <3>2
  <2>6. LoadsTheDead'
    BY <1>1, <2>2, <2>3, <2>4, <2>5 DEF LoadsTheDead, Typed, Live
  <2>7. QED
    BY <1>1, <2>2, <2>3, <2>4, <2>5, <2>6
       DEF MgrInv, OnlyManagersDrain, DrainedIsFree, WorksOnDrained, BoundIsInstalled
<1>15. CASE Started \/ StartFails
  <2>1. /\ mgr.pc = "starts" /\ mgr'.pc = "loads" /\ mgr'.op = mgr.op /\ mgr'.mod = mgr.mod
        /\ mgr'.todo = mgr.todo /\ mgr.mod \in Modules
    BY <1>1, <1>15 DEF MgrType, MgrInv, WorksOnDrained, Started, StartFails
  <2>2. UNCHANGED <<folder, draining, drained, leases>>
    BY <1>15 DEF Started, StartFails, registry, drains
  <2>3. UNCHANGED plugin \/ plugin' = Unbound(mgr.mod)
    BY <1>15 DEF Started, StartFails, CleanedUp, registry
  <2>4. Bound' \subseteq Bound /\ \A n \in Modules : Live(n)' => Live(n)
    BY <1>1, <2>1, <2>3, UnboundIsBound DEF Bound, Live
  <2>5. LoadsTheDead'
    BY <1>1, <2>1, <2>2, <2>4 DEF MgrInv, LoadsTheDead, Typed
  <2>6. QED
    BY <1>1, <2>1, <2>2, <2>4, <2>5
       DEF MgrInv, OnlyManagersDrain, DrainedIsFree, WorksOnDrained, BoundIsInstalled
<1>16. QED
  BY <1>5, <1>6, <1>7, <1>8, <1>9, <1>10, <1>11, <1>12, <1>13, <1>14, <1>15 DEF Manage, OwnStep

-----------------------------------------------------------------------------
LEMMA InitInv == ManagementInit => IInv
<1>1. SUFFICES ASSUME ManagementInit PROVE IInv
  OBVIOUS
<1>2. ManagementTypeOK
  BY <1>1, TypeInit
<1>3. \A m \in Modules : Leased(m) = {}
  BY <1>1 DEF ManagementInit, Leased
<1>4. LeasesCounted
  BY <1>1, <1>3, FS_EmptySet DEF ManagementInit, LeasesCounted
<1>5. LeaseHolders
  BY <1>1 DEF ManagementInit, LeaseHolders
<1>6. MgrInv
  BY <1>1 DEF ManagementInit, Idle, MgrInv, OnlyManagersDrain, DrainedIsFree, WorksOnDrained,
              LoadsTheDead, BoundIsInstalled, Bound
<1>7. QED
  BY <1>2, <1>4, <1>5, <1>6 DEF IInv

(* Every step keeps the inductive invariant.                               *)
LEMMA StepInv == IInv /\ [ManagementNext]_managementVars => IInv'
<1>1. SUFFICES ASSUME IInv, [ManagementNext]_managementVars PROVE IInv'
  OBVIOUS
<1>2. CASE UNCHANGED managementVars
  BY <1>1, <1>2, TypedIsTypeOK
     DEF managementVars, IInv, Typed, LeasesCounted, Leased, LeaseHolders, MgrInv, OnlyManagersDrain,
         DrainedIsFree, WorksOnDrained, LoadsTheDead, BoundIsInstalled, Bound, Live, registry, drains
<1>3. QED
  BY <1>1, <1>2, TurnKeeps, ShutdownKeeps, OperationsKeep, ManageKeeps DEF ManagementNext

LEMMA Inductive == ManagementSpec => []IInv
<1>1. QED
  BY InitInv, StepInv, PTL DEF ManagementSpec

-----------------------------------------------------------------------------
(* Types.                                                                  *)
THEOREM TypeCorrect == ManagementSpec => []ManagementTypeOK
<1>1. IInv => ManagementTypeOK
  BY DEF IInv
<1>2. QED
  BY <1>1, Inductive, PTL

(* The lease counts are the leases that are out, whatever is reloaded,     *)
(* shut down or fails meanwhile.                                           *)
THEOREM CountsAreRight == ManagementSpec => []LeasesCounted
<1>1. IInv => LeasesCounted
  BY DEF IInv
<1>2. QED
  BY <1>1, Inductive, PTL

(* No module stays blocked for new jobs behind the operation that drained  *)
(* it.                                                                     *)
THEOREM NothingStaysBlocked == ManagementSpec => []OnlyManagersDrain
<1>1. IInv => OnlyManagersDrain
  BY DEF IInv, MgrInv
<1>2. QED
  BY <1>1, Inductive, PTL

(* What is leased is not what the manager works on.                        *)
LEMMA LeasedIsNotWorkedOn ==
    ASSUME IInv, mgr.pc = "working", NEW t \in Turns, NEW m \in Modules,
           turn[t].lease, m \in turn[t].mods
    PROVE  mgr.mod \in Modules /\ m # mgr.mod
<1>1. mgr.mod \in Modules /\ leases[mgr.mod] = 0
  BY DEF IInv, MgrInv, WorksOnDrained, DrainedIsFree
<1>2. IsFiniteSet(Leased(mgr.mod)) /\ Cardinality(Leased(mgr.mod)) = 0
  BY <1>1, TurnsAssumption, FS_Subset DEF IInv, LeasesCounted, Leased
<1>3. Leased(mgr.mod) = {}
  BY <1>2, FS_EmptySet
<1>4. QED
  BY <1>1, <1>3 DEF Leased

(* No plugin is unbound or switched off under a job that leases it, but    *)
(* for the two that are cleaned up without a drain.                        *)
THEOREM LeasesPin == ManagementSpec => LeasePins
<1>1. ASSUME IInv, [ManagementNext]_managementVars, NEW t \in Turns, NEW m \in Modules,
             turn[t].lease, m \in turn[t].mods, Live(m), ~Undrained(m)
      PROVE  plugin'[m].bound /\ plugin'[m].active
  <2>1. SUFFICES plugin'[m] = plugin[m]
    BY <1>1 DEF Live
  <2>2. Typed
    BY <1>1, TypedIsTypeOK DEF IInv
  <2>3. CASE Reloaded \/ Updated \/ ReloadedAll \/ Uninstalled \/ TurnedOff
    <3>1. mgr.mod \in Modules /\ m # mgr.mod
      BY <1>1, <2>3, LeasedIsNotWorkedOn DEF Reloaded, Updated, ReloadedAll, Uninstalled, TurnedOff
    <3>2. QED
      BY <1>1, <2>2, <2>3, <3>1
         DEF Typed, Reloaded, Updated, ReloadedAll, Uninstalled, TurnedOff, Unbound
  <2>4. CASE \E n \in Modules : ImportFails(n) \/ Bind(n)
    <3>1. PICK n \in Modules : ImportFails(n) \/ Bind(n)
      BY <2>4
    <3>2. n # m
      BY <1>1, <3>1 DEF IInv, MgrInv, LoadsTheDead, ImportFails, Bind
    <3>3. QED
      BY <2>2, <3>1, <3>2 DEF Typed, ImportFails, Bind, CleanedUp, Unbound
  <2>5. CASE StartFails
    <3>1. mgr.mod # m
      BY <1>1, <2>5 DEF Undrained, StartFails
    <3>2. QED
      BY <2>2, <2>5, <3>1 DEF Typed, StartFails, CleanedUp, Unbound
  <2>6. CASE \E n \in Modules : ReloadFailed(n) \/ UninstallFailed(n)
    <3>1. PICK n \in Modules : ReloadFailed(n) \/ UninstallFailed(n)
      BY <2>6
    <3>2. n # m
      BY <1>1, <3>1 DEF Undrained, ReloadFailed, UninstallFailed, Fetch
    <3>3. QED
      BY <2>2, <3>1, <3>2 DEF Typed, ReloadFailed, UninstallFailed, Unbound
  <2>7. CASE UNCHANGED plugin
    BY <2>7
  <2>8. QED
    BY <1>1, <2>3, <2>4, <2>5, <2>6, <2>7
       DEF ManagementNext, managementVars, registry, TurnStep, HandlerStep, Discover, Check, Launch,
           RunDirectly, JobBegins, Invoke, HandlerEnds, HandlersDone, JobStops, TurnFrame, Begin,
           BeginAll, Install, TurnOn, TurnOnWrites, TurnOnReloads, CloseRuntime, Manage, OwnStep,
           Drained, DrainTimesOut, WorkFails, Fetched, FetchFails, ReadOff, WriteOff, LoadBegins,
           Started, LoadEnds
<1>2. IInv /\ [ManagementNext]_managementVars =>
         [\A t \in Turns, m \in Modules :
             turn[t].lease /\ turn'[t].lease /\ m \in turn[t].mods /\ Live(m) /\ ~Undrained(m)
             => plugin'[m].bound /\ plugin'[m].active]_managementVars
  BY <1>1
<1>3. QED
  BY <1>2, Inductive, PTL DEF ManagementSpec, LeasePins

=============================================================================
