------------------------ MODULE PaintGovernanceProofs ------------------------
(* The line of paint plans, what it was made from, who paid for it, and the *)
(* tables it lies in, for any number of generations, keys, images, reviews, *)
(* region sets and plans; and the polygons of a region set, of any size.    *)
EXTENDS Workbench, PlanHistory, Geometry, SequenceTheorems, WellFoundedInduction, TLAPS

-----------------------------------------------------------------------------
(* The inductive invariant.  A review has a verdict, and a region set a     *)
(* lifecycle, as soon as there is one.                                      *)
VersionsAreSettled ==
    /\ review.verdict # "none" <=> review.version > 0
    /\ regions.lifecycle # "none" <=> regions.version > 0

(* Where a generation stands tells what it has read, what its key's         *)
(* invocation is, and whose the claim is that it works under.               *)
ReadsFitRequests ==
    \A g \in Generations :
        pc[g] \in {"invoking", "calling", "freeing", "persisting"} =>
            (read[g].parent = 0 <=> g \notin Regenerations)

CallsAreRunning ==
    /\ \A g \in Generations :
          /\ pc[g] = "calling" => invocation[KeyOf[g]] = [status |-> "running", sent |-> read[g]]
          /\ pc[g] = "persisting" => invocation[KeyOf[g]].status = "succeeded"
          /\ pc[g] = "freeing" => g \in Paid /\ invocation[KeyOf[g]].status = "failed"
    /\ \A g, h \in Generations :
          pc[g] = "calling" /\ pc[h] = "calling" /\ KeyOf[g] = KeyOf[h] => g = h

ClaimsAreHeld ==
    /\ \A g \in Generations :
          pc[g] = "freeing" \/ (pc[g] = "calling" /\ g \in Paid) => claim[read[g].parent] = g
    /\ \A g \in Paid : Spent(KeyOf[g]) =>
          LET holder == claim[invocation[KeyOf[g]].sent.parent]
          IN  holder \in Generations /\ KeyOf[holder] = KeyOf[g]

(* A plan names the sources its invocation was sent, and while no later     *)
(* region set exists they are the approved one: a fact a plan does not      *)
(* record, on which every step on it relies.                                *)
PlansAreSourced ==
    \A v \in DOMAIN plans :
        /\ invocation[plans[v].key].status = "succeeded"
        /\ ProvenanceOf(invocation[plans[v].key].sent) = plans[v].source
        /\ plans[v].source.regions <= regions.version
        /\ plans[v].source.regions = regions.version =>
              regions.lifecycle = "approved" /\ regions.of = plans[v].source.images

(* A lineage begins with a generated plan and grows by edits of its last.   *)
LineagesGrow ==
    \A v \in DOMAIN plans :
        /\ plans[v].lineage <= v /\ plans[v].revision <= v
        /\ plans[v].kind # "edited" => plans[v].lineage = v /\ plans[v].revision = 1
        /\ plans[v].kind = "edited" =>
              /\ v > 1
              /\ plans[v].lineage = plans[v - 1].lineage
              /\ plans[v].revision = plans[v - 1].revision + 1
              /\ plans[v].source = plans[v - 1].source /\ plans[v].key = plans[v - 1].key
        /\ plans[plans[v].lineage].lineage = plans[v].lineage
        /\ plans[v].lifecycle # "superseded" =>
              plans[v].reviews = LatestReviewOf[plans[v].lifecycle]

GInv ==
    /\ TypeOK /\ VersionsAreSettled /\ ReadsFitRequests /\ CallsAreRunning
    /\ ClaimsAreHeld /\ PlansAreSourced /\ PlansAreLinear /\ LineagesGrow

-----------------------------------------------------------------------------
(* Types, variable by variable.                                             *)
SourcesTyped ==
    /\ images \in Fingerprints
    /\ review \in [version : 0..MaxReviews, of : Fingerprints,
                   verdict : {"none", "ready", "not_ready"}]
    /\ review.verdict = "ready" => Complete(review.of)
    /\ regions \in [version : 0..MaxSets, of : Fingerprints,
                    lifecycle : {"none", "draft", "submitted", "approved",
                                 "changes_requested"}]
    /\ regions.lifecycle # "none" => Complete(regions.of)

PlansTyped == plans \in Seq(Plans) /\ Len(plans) <= MaxPlans

Statuses == {"none", "running", "succeeded", "failed", "outcome_unknown"}
Places == {"start", "reading", "invoking", "calling", "freeing", "persisting", "done"}

GenerationsTyped ==
    /\ command \in [Keys -> 0..MaxPlans]
    /\ invocation \in [Keys -> [status : Statuses, sent : Reads]]
    /\ claim \in [0..MaxPlans -> Generations \cup {Nobody}]
    /\ pc \in [Generations -> Places]
    /\ read \in [Generations -> Reads]

LEMMA TypesByPart == TypeOK <=> SourcesTyped /\ PlansTyped /\ GenerationsTyped
  BY DEF TypeOK, SourcesTyped, PlansTyped, GenerationsTyped, Statuses, Places

LEMMA Bounds ==
    ASSUME PaintAssumption
    PROVE  /\ MaxRevisions \in Nat /\ MaxReviews \in Nat /\ MaxSets \in Nat
           /\ MaxPlans \in Nat /\ MaxHistory \in Nat
  BY DEF PaintAssumption

LEMMA EachPlanIsTyped ==
    ASSUME PaintAssumption, PlansTyped, NEW v \in DOMAIN plans
    PROVE  /\ plans[v] \in Plans
           /\ Len(plans) \in Nat /\ DOMAIN plans = 1..Len(plans) /\ v \in 1..MaxPlans
           /\ plans[v].key \in Keys
           /\ plans[v].lineage \in 1..MaxPlans /\ plans[v].revision \in 1..MaxPlans
           /\ plans[v].source.regions \in 1..MaxSets
<1>1. plans[v] \in Plans
  BY DEF PlansTyped
<1>2. Len(plans) \in Nat /\ DOMAIN plans = 1..Len(plans)
  BY DEF PlansTyped
<1>3. v \in 1..MaxPlans
  BY <1>2, Bounds DEF PlansTyped
<1>4. /\ plans[v].key \in Keys /\ plans[v].lineage \in 1..MaxPlans
      /\ plans[v].revision \in 1..MaxPlans /\ plans[v].source.regions \in 1..MaxSets
  BY <1>1 DEF Plans
<1> QED
  BY <1>1, <1>2, <1>3, <1>4

LEMMA NothingIsTyped ==
    ASSUME PaintAssumption
    PROVE  /\ Incomplete \in Fingerprints /\ NothingRead \in Reads
           /\ 0 \in 0..MaxPlans
  BY Bounds DEF Incomplete, Fingerprints, NothingRead, Reads

LEMMA Initially == ASSUME PaintAssumption, Init PROVE GInv
<1> USE NothingIsTyped, Bounds DEF Init
<1>1. SourcesTyped
  BY DEF SourcesTyped
<1>2. PlansTyped
  BY DEF PlansTyped
<1>3. GenerationsTyped
  BY DEF GenerationsTyped, NoInvocation, Statuses, Places
<1>4. \A g \in Generations : pc[g] \in {"start", "done"}
  OBVIOUS
<1>5. \A g \in Generations : KeyOf[g] \in Keys
  BY DEF PaintAssumption
<1>6. \A g \in Paid : ~Spent(KeyOf[g])
  BY <1>5 DEF Spent, NoInvocation, PaintAssumption
<1>7. VersionsAreSettled /\ PlansAreSourced /\ PlansAreLinear /\ LineagesGrow
  BY DEF VersionsAreSettled, PlansAreSourced, PlansAreLinear, LineagesGrow
<1>8. ReadsFitRequests /\ CallsAreRunning /\ ClaimsAreHeld
  BY <1>4, <1>6 DEF ReadsFitRequests, CallsAreRunning, ClaimsAreHeld
<1> QED
  BY <1>1, <1>2, <1>3, <1>7, <1>8, TypesByPart DEF GInv

-----------------------------------------------------------------------------
(* The commands on images, reviews and regions.                             *)
SourceCommand ==
    \/ UploadImage \/ StoreChanges
    \/ \E v \in {"ready", "not_ready"} : ReviewReadiness(v)
    \/ SaveDraft \/ ForkDraft \/ SubmitSet
    \/ \E v \in {"approved", "changes_requested"} : ReviewSet(v)

LEMMA NewSets ==
    ASSUME PaintAssumption, SourcesTyped, VersionsAreSettled, Complete(images),
           NEW l \in {"draft", "submitted"}, NewSet(l)
    PROVE  SourcesTyped' /\ VersionsAreSettled' /\ regions'.version > regions.version
  BY Bounds DEF SourcesTyped, VersionsAreSettled, NewSet, Complete

(* A source command leaves plans and generations alone, and an approved     *)
(* region set stays as it is until there is a later one.                    *)
LEMMA SourceCommands ==
    ASSUME PaintAssumption, SourcesTyped, VersionsAreSettled, SourceCommand
    PROVE  /\ SourcesTyped' /\ VersionsAreSettled'
           /\ UNCHANGED <<plans, generating>>
           /\ \/ regions' = regions
              \/ regions'.version > regions.version
              \/ regions'.version = regions.version /\ regions.lifecycle # "approved"
<1> USE Bounds
<1>1. CASE UploadImage
  BY <1>1 DEF UploadImage, SourcesTyped, VersionsAreSettled, Fingerprints, Complete
<1>2. CASE StoreChanges
  BY <1>2 DEF StoreChanges, SourcesTyped, VersionsAreSettled, Fingerprints, Complete
<1>3. ASSUME NEW v \in {"ready", "not_ready"}, ReviewReadiness(v)
      PROVE  /\ SourcesTyped' /\ VersionsAreSettled'
             /\ UNCHANGED <<regions, plans, generating>>
  BY <1>3 DEF ReviewReadiness, CanMarkReady, SourcesTyped, VersionsAreSettled, Complete
<1>4. ImageSetReady => Complete(images)
  BY DEF ImageSetReady
<1>5. CASE SaveDraft
  BY <1>4, <1>5, NewSets DEF SaveDraft, CanSave, NewSet
<1>6. CASE ForkDraft
  BY <1>4, <1>6, NewSets DEF ForkDraft, CanFork, NewSet
<1>7. CASE SubmitSet
  BY <1>4, <1>7, NewSets DEF SubmitSet, CanSubmitSet, RegionsStale, NewSet
<1>8. ASSUME NEW v \in {"approved", "changes_requested"}, ReviewSet(v)
      PROVE  /\ SourcesTyped' /\ VersionsAreSettled'
             /\ UNCHANGED <<plans, generating>>
             /\ regions'.version = regions.version /\ regions.lifecycle # "approved"
  BY <1>8 DEF ReviewSet, CanReviewSet, SourcesTyped, VersionsAreSettled, Complete
<1> QED
  BY <1>1, <1>2, <1>3, <1>5, <1>6, <1>7, <1>8
     DEF SourceCommand, UploadImage, StoreChanges

LEMMA SourceCommandsKeep ==
    ASSUME PaintAssumption, GInv, SourceCommand PROVE GInv'
<1>1. SourcesTyped /\ PlansTyped /\ GenerationsTyped /\ VersionsAreSettled
  BY TypesByPart DEF GInv
<1>2. SourcesTyped' /\ VersionsAreSettled'
  BY <1>1, SourceCommands
<1>3. UNCHANGED <<plans, command, invocation, claim, pc, read>>
  BY <1>1, SourceCommands DEF generating
<1>4. TypeOK'
  BY <1>1, <1>2, <1>3, TypesByPart DEF TypeOK, SourcesTyped, PlansTyped, GenerationsTyped, Statuses, Places
<1>5. ReadsFitRequests' /\ CallsAreRunning' /\ ClaimsAreHeld'
  BY <1>3 DEF GInv, ReadsFitRequests, CallsAreRunning, ClaimsAreHeld, Spent
<1>6. PlansAreLinear' /\ LineagesGrow'
  BY <1>3 DEF GInv, PlansAreLinear, LineagesGrow
<1>7. \A v \in DOMAIN plans : plans[v].source.regions \in Nat
  BY <1>1, Bounds, EachPlanIsTyped
<1>8. PlansAreSourced'
  <2>1. regions.version \in Nat /\ regions'.version \in Nat
    BY <1>1, <1>2, Bounds DEF SourcesTyped
  <2>2. \/ regions' = regions
        \/ regions'.version > regions.version
        \/ regions'.version = regions.version /\ regions.lifecycle # "approved"
    BY <1>1, SourceCommands
  <2>3. PlansAreSourced
    BY DEF GInv
  <2> QED
    BY <1>3, <1>7, <2>1, <2>2, <2>3 DEF PlansAreSourced
<1> QED
  BY <1>2, <1>4, <1>5, <1>6, <1>8 DEF GInv

-----------------------------------------------------------------------------
(* The steps of a generation.  The quiet ones write nothing that another    *)
(* reads: they only end the request or carry it to its invocation.          *)
Quiet(g) ==
    ReadImages(g) \/ ReadRegions(g) \/ Refused(g) \/ NothingPersisted(g) \/ Crash(g)

LEMMA KeysOfGenerations ==
    ASSUME PaintAssumption, NEW g \in Generations PROVE KeyOf[g] \in Keys
  BY DEF PaintAssumption

LEMMA QuietSteps ==
    ASSUME PaintAssumption, TypeOK, NEW g \in Generations, Quiet(g)
    PROVE  /\ UNCHANGED <<sources, plans, command, invocation, claim>>
           /\ pc' \in [Generations -> Places] /\ read' \in [Generations -> Reads]
           /\ \A h \in Generations \ {g} : pc'[h] = pc[h] /\ read'[h] = read[h]
           /\ pc'[g] \in {"reading", "invoking", "done"}
           /\ pc'[g] = "invoking" => (read'[g].parent = 0 <=> g \notin Regenerations)
<1> USE Bounds, NothingIsTyped
<1>0. SourcesTyped /\ PlansTyped /\ GenerationsTyped
  BY TypesByPart
<1>1. CASE ReadImages(g)
  <2>1. [NothingRead EXCEPT !.images = review.of, !.review = review.version] \in Reads
    BY <1>0 DEF SourcesTyped, Reads, NothingRead
  <2> QED
    BY <1>0, <1>1, <2>1 DEF ReadImages, GenerationsTyped, Places
<1>2. CASE ReadRegions(g)
  <2> DEFINE base == IF g \in Regenerations THEN Len(plans) ELSE 0
  <2>1. Len(plans) \in Nat /\ (plans = <<>> <=> Len(plans) = 0)
    BY <1>0 DEF PlansTyped
  <2>2. base \in 0..MaxPlans /\ (base = 0 <=> g \notin Regenerations)
    BY <1>0, <1>2, <2>1 DEF ReadRegions, RegionsMatch, PlansTyped
  <2>3. read[g] \in Reads /\ regions.version \in 0..MaxSets
    BY <1>0 DEF GenerationsTyped, SourcesTyped
  <2>4. read' = [read EXCEPT ![g].regions = regions.version, ![g].parent = base]
    BY <1>2 DEF ReadRegions
  <2> HIDE DEF base
  <2>5. [read[g] EXCEPT !.regions = regions.version, !.parent = base] \in Reads
    BY <2>2, <2>3 DEF Reads
  <2>6. /\ read' \in [Generations -> Reads] /\ read'[g].parent = base
        /\ \A h \in Generations \ {g} : read'[h] = read[h]
    BY <1>0, <2>3, <2>4, <2>5 DEF GenerationsTyped, Reads
  <2> QED
    BY <1>0, <1>2, <2>2, <2>6 DEF ReadRegions, GenerationsTyped, Places
<1>3. CASE Refused(g)
  BY <1>0, <1>3 DEF Refused, Finish, GenerationsTyped, Places
<1>4. CASE NothingPersisted(g)
  BY <1>0, <1>4 DEF NothingPersisted, Finish, GenerationsTyped, Places
<1>5. CASE Crash(g)
  BY <1>0, <1>5 DEF Crash, Finish, GenerationsTyped, Places
<1> QED
  BY <1>1, <1>2, <1>3, <1>4, <1>5 DEF Quiet

(* What a step leaves alone, a plan's sources rest on.                      *)
Standing ==
    /\ UNCHANGED <<sources, plans, command>>
    /\ \A k \in Keys : invocation[k].status = "succeeded" => invocation'[k] = invocation[k]

Kept == GenerationsTyped' /\ ReadsFitRequests' /\ CallsAreRunning' /\ ClaimsAreHeld'

LEMMA StandingKeeps ==
    ASSUME PaintAssumption, GInv, Standing, Kept PROVE GInv'
<1>1. SourcesTyped /\ PlansTyped /\ UNCHANGED <<images, review, regions, plans, command>>
  BY TypesByPart DEF GInv, Standing, sources
<1>2. TypeOK'
  BY <1>1, TypesByPart
     DEF Kept, TypeOK, SourcesTyped, PlansTyped, GenerationsTyped, Statuses, Places
<1>3. VersionsAreSettled' /\ PlansAreLinear' /\ LineagesGrow'
  BY <1>1 DEF GInv, VersionsAreSettled, PlansAreLinear, LineagesGrow
<1>4. \A v \in DOMAIN plans : plans[v].key \in Keys
  BY <1>1, EachPlanIsTyped
<1>5. PlansAreSourced'
  BY <1>1, <1>4 DEF GInv, Standing, PlansAreSourced
<1> QED
  BY <1>2, <1>3, <1>5 DEF GInv, Kept

LEMMA QuietKeeps ==
    ASSUME PaintAssumption, GInv, NEW g \in Generations, Quiet(g) PROVE GInv'
<1> USE KeysOfGenerations
<1>0. TypeOK /\ GenerationsTyped
  BY TypesByPart DEF GInv
<1>1. /\ UNCHANGED <<sources, plans, command, invocation, claim>>
      /\ pc' \in [Generations -> Places] /\ read' \in [Generations -> Reads]
      /\ \A h \in Generations \ {g} : pc'[h] = pc[h] /\ read'[h] = read[h]
      /\ pc'[g] \in {"reading", "invoking", "done"}
      /\ pc'[g] = "invoking" => (read'[g].parent = 0 <=> g \notin Regenerations)
  BY <1>0, QuietSteps
<1>2. GenerationsTyped'
  BY <1>0, <1>1 DEF GenerationsTyped
<1>3. ReadsFitRequests'
  BY <1>1 DEF GInv, ReadsFitRequests
<1>4. CallsAreRunning'
  BY <1>1 DEF GInv, CallsAreRunning
<1>5. ClaimsAreHeld'
  BY <1>1 DEF GInv, ClaimsAreHeld, Spent
<1>6. Standing
  BY <1>1 DEF Standing
<1> QED
  BY <1>2, <1>3, <1>4, <1>5, <1>6, StandingKeeps DEF Kept

-----------------------------------------------------------------------------
LEMMA RowsAreTyped ==
    ASSUME PaintAssumption, NEW status \in Statuses, NEW named \in Reads
    PROVE  /\ Row(status, named) \in [status : Statuses, sent : Reads]
           /\ Row(status, named).status = status
           /\ status # "failed" => Row(status, named) = [status |-> status, sent |-> named]
  BY NothingIsTyped DEF Row

LEMMA KeysInUse ==
    ASSUME CallsAreRunning, NEW h \in Generations,
           pc[h] \in {"calling", "freeing", "persisting"}
    PROVE  /\ pc[h] = "calling" => /\ invocation[KeyOf[h]].status = "running"
                                   /\ invocation[KeyOf[h]].sent = read[h]
           /\ invocation[KeyOf[h]].status \in {"running", "failed", "succeeded"}
           /\ pc[h] # "calling" => invocation[KeyOf[h]].status # "running"
<1>1. CASE pc[h] = "calling"
  <2>1. invocation[KeyOf[h]] = [status |-> "running", sent |-> read[h]]
    BY <1>1 DEF CallsAreRunning
  <2>2. /\ invocation[KeyOf[h]].status = "running"
        /\ invocation[KeyOf[h]].sent = read[h]
    BY <2>1
  <2> QED
    BY <1>1, <2>2
<1>2. CASE pc[h] # "calling"
  BY <1>2 DEF CallsAreRunning
<1> QED
  BY <1>1, <1>2

LEMMA InvokePaidKeeps ==
    ASSUME PaintAssumption, GInv, NEW g \in Generations, InvokePaid(g) PROVE GInv'
<1> USE KeysOfGenerations
<1> DEFINE k == KeyOf[g]
           p == read[g].parent
<1>0. GenerationsTyped /\ g \in Paid /\ Nobody \notin Generations
  BY TypesByPart DEF GInv, InvokePaid, PaintAssumption
<1>1. read[g] \in Reads /\ p \in 0..MaxPlans
  BY <1>0 DEF GenerationsTyped, Reads
<1>2. /\ pc[g] = "invoking" /\ invocation[k].status = "none"
      /\ UNCHANGED <<sources, plans, command>>
  BY DEF InvokePaid
<1>3. \A h \in Generations : KeyOf[h] = k =>
         pc[h] \notin {"calling", "freeing", "persisting"}
  BY <1>2, KeysInUse DEF GInv
<1>4. CASE CanClaim(g)
  <2>1. /\ claim' = [claim EXCEPT ![p] = g] /\ claim[p] = Nobody
        /\ invocation' = [invocation EXCEPT ![k] = [status |-> "running", sent |-> read[g]]]
        /\ pc' = [pc EXCEPT ![g] = "calling"] /\ read' = read
    BY <1>1, <1>4, RowsAreTyped DEF InvokePaid, CanClaim, Sends, Goto, Statuses
  <2>2. GenerationsTyped'
    BY <1>0, <1>1, <1>2, <2>1 DEF GenerationsTyped, Statuses, Places
  <2>3. ReadsFitRequests'
    BY <1>0, <1>2, <2>1 DEF GInv, ReadsFitRequests, GenerationsTyped
  <2>4. /\ \A j \in Keys : j # k => invocation'[j] = invocation[j]
        /\ invocation'[k] = [status |-> "running", sent |-> read[g]]
        /\ \A h \in Generations : h # g => pc'[h] = pc[h]
        /\ pc'[g] = "calling"
        /\ \A s \in 0..MaxPlans : s # p => claim'[s] = claim[s]
        /\ claim'[p] = g
    BY <1>0, <1>1, <2>1 DEF GenerationsTyped
  <2>5. CallsAreRunning'
    BY <1>0, <1>2, <1>3, <2>1, <2>4 DEF GInv, CallsAreRunning
  <2>6. \A h \in Generations : read[h].parent \in 0..MaxPlans
    BY <1>0 DEF GenerationsTyped, Reads
  <2>7. \A h \in Generations :
           pc'[h] = "freeing" \/ (pc'[h] = "calling" /\ h \in Paid) => claim'[read'[h].parent] = h
    BY <1>0, <1>2, <2>1, <2>4, <2>6 DEF GInv, ClaimsAreHeld
  <2>8. ASSUME NEW h \in Paid, Spent(KeyOf[h])'
        PROVE  LET holder == claim'[invocation'[KeyOf[h]].sent.parent]
               IN  holder \in Generations /\ KeyOf[holder] = KeyOf[h]
    <3>1. h \in Generations
      BY DEF PaintAssumption
    <3>2. CASE KeyOf[h] = k
      BY <2>4, <3>2
    <3>3. CASE KeyOf[h] # k
      <4> DEFINE s == invocation[KeyOf[h]].sent.parent
      <4>1. invocation'[KeyOf[h]] = invocation[KeyOf[h]]
        BY <2>4, <3>1, <3>3
      <4>2. Spent(KeyOf[h]) /\ s \in 0..MaxPlans
        BY <1>0, <2>8, <3>1, <4>1 DEF Spent, GenerationsTyped, Reads
      <4>3. claim[s] \in Generations /\ KeyOf[claim[s]] = KeyOf[h]
        BY <4>2 DEF GInv, ClaimsAreHeld
      <4>4. claim'[s] = claim[s]
        BY <1>0, <2>1, <2>4, <4>2, <4>3
      <4> QED
        BY <4>1, <4>3, <4>4
    <3> QED
      BY <3>2, <3>3
  <2>9. ClaimsAreHeld'
    BY <2>7, <2>8 DEF ClaimsAreHeld
  <2>10. Standing
    BY <1>2, <2>4 DEF Standing
  <2> QED
    BY <2>2, <2>3, <2>5, <2>9, <2>10, StandingKeeps DEF Kept
<1>5. CASE ~CanClaim(g)
  <2>1. /\ claim' = claim
        /\ invocation' = [invocation EXCEPT ![k] = Row("failed", read[g])]
        /\ pc' = [pc EXCEPT ![g] = "done"] /\ read' = [read EXCEPT ![g] = NothingRead]
    BY <1>5 DEF InvokePaid, Sends, Finish
  <2>2. Row("failed", read[g]).status = "failed"
    BY <1>1, RowsAreTyped DEF Statuses
  <2>3. GenerationsTyped'
    BY <1>0, <1>1, <1>2, <2>1, RowsAreTyped, NothingIsTyped DEF GenerationsTyped, Statuses, Places
  <2>4. /\ \A j \in Keys : j # k => invocation'[j] = invocation[j]
        /\ invocation'[k].status = "failed"
        /\ \A h \in Generations : h # g => pc'[h] = pc[h] /\ read'[h] = read[h]
        /\ pc'[g] = "done"
    BY <1>0, <2>1, <2>2 DEF GenerationsTyped
  <2>5. ReadsFitRequests'
    BY <2>4 DEF GInv, ReadsFitRequests
  <2>6. CallsAreRunning'
    BY <1>3, <2>4 DEF GInv, CallsAreRunning
  <2>7. \A h \in Paid : KeyOf[h] \in Keys /\ h \in Generations
    BY DEF PaintAssumption
  <2>8. ASSUME NEW h \in Paid, Spent(KeyOf[h])'
        PROVE  LET holder == claim'[invocation'[KeyOf[h]].sent.parent]
               IN  holder \in Generations /\ KeyOf[holder] = KeyOf[h]
    <3>1. invocation'[KeyOf[h]] = invocation[KeyOf[h]]
      BY <2>4, <2>7, <2>8 DEF Spent
    <3>2. Spent(KeyOf[h])
      BY <2>8, <3>1 DEF Spent
    <3> QED
      BY <2>1, <3>1, <3>2 DEF GInv, ClaimsAreHeld
  <2>9. \A h \in Generations :
           pc'[h] = "freeing" \/ (pc'[h] = "calling" /\ h \in Paid) => claim'[read'[h].parent] = h
    BY <2>1, <2>4 DEF GInv, ClaimsAreHeld
  <2>10. ClaimsAreHeld'
    BY <2>8, <2>9 DEF ClaimsAreHeld
  <2>11. Standing
    BY <1>2, <2>4 DEF Standing
  <2> QED
    BY <2>3, <2>5, <2>6, <2>10, <2>11, StandingKeeps DEF Kept
<1> QED
  BY <1>4, <1>5

LEMMA InvokeFixtureKeeps ==
    ASSUME PaintAssumption, GInv, NEW g \in Generations, InvokeFixture(g) PROVE GInv'
<1> USE KeysOfGenerations
<1> DEFINE k == KeyOf[g]
<1>0. GenerationsTyped /\ g \notin Paid
  BY TypesByPart DEF GInv, InvokeFixture
<1>1. read[g] \in Reads
  BY <1>0 DEF GenerationsTyped
<1>2. pc[g] = "invoking" /\ UNCHANGED <<sources, plans, command, claim, read>>
  BY DEF InvokeFixture, Goto
<1>3. \A h \in Paid : h \in Generations /\ KeyOf[h] # k
  BY <1>0 DEF PaintAssumption
<1>4. CASE invocation[k].status = "none"
  <2>1. \A h \in Generations : KeyOf[h] = k =>
           pc[h] \notin {"calling", "freeing", "persisting"}
    BY <1>4, KeysInUse DEF GInv
  <2>2. /\ invocation' = [invocation EXCEPT ![k] = [status |-> "running", sent |-> read[g]]]
        /\ pc' = [pc EXCEPT ![g] = "calling"]
    BY <1>1, <1>4, RowsAreTyped DEF InvokeFixture, Sends, Goto, Statuses
  <2>3. GenerationsTyped'
    BY <1>0, <1>1, <1>2, <2>2 DEF GenerationsTyped, Statuses, Places
  <2>4. /\ \A j \in Keys : j # k => invocation'[j] = invocation[j]
        /\ invocation'[k] = [status |-> "running", sent |-> read[g]]
        /\ \A h \in Generations : h # g => pc'[h] = pc[h]
        /\ pc'[g] = "calling"
    BY <1>0, <2>2 DEF GenerationsTyped
  <2>5. ReadsFitRequests'
    BY <1>2, <2>4 DEF GInv, ReadsFitRequests
  <2>6. CallsAreRunning'
    BY <1>2, <2>1, <2>4 DEF GInv, CallsAreRunning
  <2>7. \A h \in Generations : pc'[h] = "freeing" => h \in Paid
    BY <2>4 DEF GInv, CallsAreRunning
  <2>8. ClaimsAreHeld'
    BY <1>0, <1>2, <1>3, <2>4, <2>7 DEF GInv, ClaimsAreHeld, Spent
  <2>9. Standing
    BY <1>2, <1>4, <2>4 DEF Standing
  <2> QED
    BY <2>3, <2>5, <2>6, <2>8, <2>9, StandingKeeps DEF Kept
<1>5. CASE invocation[k].status # "none"
  <2>1. /\ invocation' = invocation /\ invocation[k].status = "succeeded"
        /\ pc' = [pc EXCEPT ![g] = "persisting"]
    BY <1>5 DEF InvokeFixture, Goto
  <2>2. GenerationsTyped'
    BY <1>0, <1>2, <2>1 DEF GenerationsTyped, Places
  <2>3. ReadsFitRequests'
    BY <1>0, <1>2, <2>1 DEF GInv, ReadsFitRequests, GenerationsTyped
  <2>4. CallsAreRunning'
    BY <1>0, <1>2, <2>1 DEF GInv, CallsAreRunning, GenerationsTyped
  <2>5. ClaimsAreHeld'
    BY <1>0, <1>2, <2>1 DEF GInv, ClaimsAreHeld, Spent, GenerationsTyped
  <2>6. Standing
    BY <1>2, <2>1 DEF Standing
  <2> QED
    BY <2>2, <2>3, <2>4, <2>5, <2>6, StandingKeeps DEF Kept
<1> QED
  BY <1>4, <1>5

LEMMA ProviderAnswersKeeps ==
    ASSUME PaintAssumption, GInv, NEW g \in Generations,
           NEW status \in {"succeeded", "failed", "outcome_unknown"},
           ProviderAnswers(g, status)
    PROVE  GInv'
<1> USE KeysOfGenerations
<1> DEFINE k == KeyOf[g]
<1>0. GenerationsTyped
  BY TypesByPart DEF GInv
<1>1. /\ pc[g] = "calling" /\ UNCHANGED <<sources, plans, command, claim>>
      /\ invocation[k] = [status |-> "running", sent |-> read[g]]
  BY DEF ProviderAnswers, GInv, CallsAreRunning
<1>2. read[g] \in Reads /\ status \in Statuses
  BY <1>0 DEF GenerationsTyped, Statuses
<1>3. invocation' = [invocation EXCEPT ![k] = Row(status, read[g])]
  BY <1>0, <1>1 DEF ProviderAnswers, GenerationsTyped
<1>4. \A h \in Generations \ {g} : KeyOf[h] = k =>
         pc[h] \notin {"calling", "freeing", "persisting"}
  <2>1. \A h \in Generations \ {g} : KeyOf[h] = k => pc[h] # "calling"
    BY <1>1 DEF GInv, CallsAreRunning
  <2>2. invocation[k].status = "running" /\ CallsAreRunning
    BY <1>1 DEF GInv
  <2> QED
    BY <2>1, <2>2, KeysInUse
<1>5. \/ /\ status = "succeeded" /\ pc' = [pc EXCEPT ![g] = "persisting"] /\ read' = read
      \/ /\ status = "failed" /\ g \in Paid
         /\ pc' = [pc EXCEPT ![g] = "freeing"] /\ read' = read
      \/ /\ status # "succeeded"
         /\ pc' = [pc EXCEPT ![g] = "done"] /\ read' = [read EXCEPT ![g] = NothingRead]
  BY DEF ProviderAnswers, AfterAnswer, Goto, Finish
<1>6. GenerationsTyped'
  <2>1. invocation' \in [Keys -> [status : Statuses, sent : Reads]]
    BY <1>0, <1>2, <1>3, RowsAreTyped DEF GenerationsTyped
  <2>2. pc' \in [Generations -> Places]
    BY <1>0, <1>5 DEF GenerationsTyped, Places
  <2>3. read' \in [Generations -> Reads]
    BY <1>0, <1>5, NothingIsTyped DEF GenerationsTyped
  <2> QED
    BY <1>0, <1>1, <2>1, <2>2, <2>3 DEF GenerationsTyped
<1>7. /\ \A j \in Keys : j # k => invocation'[j] = invocation[j]
      /\ invocation'[k].status = status
      /\ status # "failed" => invocation'[k].sent = read[g]
      /\ \A h \in Generations : h # g => pc'[h] = pc[h] /\ read'[h] = read[h]
      /\ pc'[g] = "persisting" => status = "succeeded"
      /\ pc'[g] = "freeing" => status = "failed" /\ g \in Paid
      /\ pc'[g] \in {"persisting", "freeing", "done"}
      /\ pc'[g] # "done" => read'[g] = read[g]
  BY <1>0, <1>2, <1>3, <1>5, RowsAreTyped DEF GenerationsTyped
<1>8. ReadsFitRequests'
  BY <1>1, <1>7 DEF GInv, ReadsFitRequests
<1>9. CallsAreRunning'
  BY <1>1, <1>4, <1>7 DEF GInv, CallsAreRunning
<1>10. \A h \in Generations :
          pc'[h] = "freeing" \/ (pc'[h] = "calling" /\ h \in Paid) => claim'[read'[h].parent] = h
  BY <1>1, <1>7 DEF GInv, ClaimsAreHeld
<1>11. ASSUME NEW h \in Paid, Spent(KeyOf[h])'
       PROVE  LET holder == claim'[invocation'[KeyOf[h]].sent.parent]
              IN  holder \in Generations /\ KeyOf[holder] = KeyOf[h]
  <2>1. h \in Generations
    BY DEF PaintAssumption
  <2>2. Spent(KeyOf[h]) /\ invocation'[KeyOf[h]].sent.parent = invocation[KeyOf[h]].sent.parent
    BY <1>1, <1>7, <1>11, <2>1 DEF Spent
  <2> QED
    BY <1>1, <2>2 DEF GInv, ClaimsAreHeld
<1>12. ClaimsAreHeld'
  BY <1>10, <1>11 DEF ClaimsAreHeld
<1>13. Standing
  BY <1>1, <1>7 DEF Standing
<1> QED
  BY <1>6, <1>8, <1>9, <1>12, <1>13, StandingKeeps DEF Kept

LEMMA FreeClaimKeeps ==
    ASSUME PaintAssumption, GInv, NEW g \in Generations, FreeClaim(g) PROVE GInv'
<1> USE KeysOfGenerations
<1> DEFINE p == read[g].parent
<1>0. GenerationsTyped
  BY TypesByPart DEF GInv
<1>1. /\ pc[g] = "freeing" /\ UNCHANGED <<sources, plans, command, invocation>>
      /\ claim' = [claim EXCEPT ![p] = Nobody]
      /\ pc' = [pc EXCEPT ![g] = "done"] /\ read' = [read EXCEPT ![g] = NothingRead]
  BY DEF FreeClaim, Finish
<1>2. p \in 0..MaxPlans /\ \A h \in Generations : read[h].parent \in 0..MaxPlans
  BY <1>0 DEF GenerationsTyped, Reads
<1>3. claim[p] = g /\ g \in Paid /\ invocation[KeyOf[g]].status = "failed"
  BY <1>1 DEF GInv, CallsAreRunning, ClaimsAreHeld
<1>4. GenerationsTyped'
  BY <1>0, <1>1, <1>2, NothingIsTyped DEF GenerationsTyped, Places
<1>5. /\ \A h \in Generations : h # g => pc'[h] = pc[h] /\ read'[h] = read[h]
      /\ pc'[g] = "done"
      /\ \A s \in 0..MaxPlans : s # p => claim'[s] = claim[s]
  BY <1>0, <1>1, <1>2 DEF GenerationsTyped
<1>6. ReadsFitRequests' /\ CallsAreRunning'
  BY <1>1, <1>5 DEF GInv, ReadsFitRequests, CallsAreRunning
<1>7. \A h \in Generations :
         pc'[h] = "freeing" \/ (pc'[h] = "calling" /\ h \in Paid) => claim'[read'[h].parent] = h
  BY <1>2, <1>3, <1>5 DEF GInv, ClaimsAreHeld
<1>8. ASSUME NEW h \in Paid, Spent(KeyOf[h])'
      PROVE  LET holder == claim'[invocation'[KeyOf[h]].sent.parent]
             IN  holder \in Generations /\ KeyOf[holder] = KeyOf[h]
  <2> DEFINE s == invocation[KeyOf[h]].sent.parent
  <2>1. h \in Generations
    BY DEF PaintAssumption
  <2>2. Spent(KeyOf[h]) /\ s \in 0..MaxPlans
    BY <1>0, <1>1, <1>8, <2>1 DEF Spent, GenerationsTyped, Reads
  <2>3. claim[s] \in Generations /\ KeyOf[claim[s]] = KeyOf[h]
    BY <2>2 DEF GInv, ClaimsAreHeld
  <2>4. s # p
    BY <1>3, <2>2, <2>3 DEF Spent
  <2> QED
    BY <1>1, <1>5, <2>2, <2>3, <2>4
<1>9. ClaimsAreHeld'
  BY <1>7, <1>8 DEF ClaimsAreHeld
<1>10. Standing
  BY <1>1 DEF Standing
<1> QED
  BY <1>4, <1>6, <1>9, <1>10, StandingKeeps DEF Kept

-----------------------------------------------------------------------------
(* The commands on plans: what AddPlan and a transition do to each version. *)
SameBut(p, q) ==
    /\ p.kind = q.kind /\ p.parent = q.parent /\ p.key = q.key
    /\ p.lineage = q.lineage /\ p.revision = q.revision /\ p.source = q.source

LEMMA PlansGrow ==
    ASSUME PaintAssumption, PlansTyped, NEW plan \in Plans, AddPlan(plan)
    PROVE  /\ PlansTyped'
           /\ Len(plans) \in Nat /\ DOMAIN plans = 1..Len(plans)
           /\ Len(plans') = Len(plans) + 1 /\ DOMAIN plans' = 1..(Len(plans) + 1)
           /\ plans'[Len(plans) + 1] = plan
           /\ \A v \in DOMAIN plans :
                 SameBut(plans'[v], plans[v]) /\ plans'[v].lifecycle = "superseded"
<1> DEFINE old == [v \in DOMAIN plans |-> [plans[v] EXCEPT !.lifecycle = "superseded"]]
<1>1. Len(plans) \in Nat /\ DOMAIN plans = 1..Len(plans)
  BY DEF PlansTyped
<1>2. \A v \in DOMAIN plans : plans[v] \in Plans
  BY EachPlanIsTyped
<1>3. ASSUME NEW v \in DOMAIN plans
      PROVE  /\ old[v] \in Plans /\ SameBut(old[v], plans[v])
             /\ old[v].lifecycle = "superseded"
  BY <1>2 DEF Plans, SameBut
<1>4. old \in [1..Len(plans) -> Plans]
  BY <1>1, <1>3
<1>5. old \in Seq(Plans) /\ Len(old) = Len(plans)
  BY <1>1, <1>4, SeqDef
<1>6. plans' = Append(old, plan) /\ Len(plans) < MaxPlans
  BY DEF AddPlan
<1> HIDE DEF old
<1>7. /\ plans' \in Seq(Plans) /\ Len(plans') = Len(plans) + 1
      /\ plans'[Len(plans) + 1] = plan
      /\ \A v \in 1..Len(plans) : plans'[v] = old[v]
  BY <1>1, <1>5, <1>6
<1>8. DOMAIN plans' = 1..(Len(plans) + 1)
  BY <1>7
<1>9. PlansTyped'
  BY <1>1, <1>6, <1>7, Bounds DEF PlansTyped
<1> QED
  BY <1>1, <1>3, <1>7, <1>8, <1>9

LEMMA PairOf ==
    ASSUME NEW s, s \in Seq({"submit", "decide"}), Len(s) = 2, s[1] = "submit", s[2] = "decide"
    PROVE  s = <<"submit", "decide">>
<1> DEFINE t == <<"submit", "decide">>
<1>1. t \in Seq({"submit", "decide"}) /\ Len(t) = 2 /\ t[1] = "submit" /\ t[2] = "decide"
  OBVIOUS
<1> HIDE DEF t
<1>2. \A i \in 1..2 : i = 1 \/ i = 2
  OBVIOUS
<1>3. \A i \in 1..Len(s) : s[i] = t[i]
  BY <1>1, <1>2
<1> QED
  BY <1>1, <1>3, SeqEqual DEF t

LEMMA PlansMove ==
    ASSUME PaintAssumption, PlansTyped, LineagesGrow, NEW action \in {"submit", "decide"},
           Transition(action)
    PROVE  /\ PlansTyped'
           /\ Len(plans) \in Nat /\ DOMAIN plans = 1..Len(plans)
           /\ Len(plans') = Len(plans) /\ DOMAIN plans' = DOMAIN plans
           /\ Len(plans) > 0
           /\ \A v \in DOMAIN plans : SameBut(plans'[v], plans[v])
           /\ \A v \in DOMAIN plans : v # Len(plans) => plans'[v] = plans[v]
           /\ plans'[Len(plans)].lifecycle \in {"under_review", "decided"}
           /\ plans'[Len(plans)].reviews = LatestReviewOf[plans'[Len(plans)].lifecycle]
<1> DEFINE n == Len(plans)
           p == plans[n]
           q == [p EXCEPT !.lifecycle = LifecycleOf(action), !.reviews = Append(@, action)]
<1>1. n \in Nat /\ DOMAIN plans = 1..n /\ n > 0
  BY DEF PlansTyped, Transition
<1>2. p \in Plans /\ n \in DOMAIN plans
  BY <1>1, EachPlanIsTyped
<1>3. p.lifecycle # "superseded" => p.reviews = LatestReviewOf[p.lifecycle]
  BY <1>2 DEF LineagesGrow
<1>4. CanReviewPlan(action) /\ plans' = [plans EXCEPT ![n] = q]
  BY <1>1, <1>2 DEF Transition, Plans
<1>5. /\ action = "submit" => p.lifecycle \in {"generated", "edited"}
      /\ action = "decide" => p.lifecycle = "under_review"
  BY <1>4 DEF CanReviewPlan, Current
<1>6. /\ action = "submit" => p.reviews = <<>>
      /\ action = "decide" => p.reviews = <<"submit">>
  BY <1>3, <1>5 DEF LatestReviewOf
<1>7. /\ q.lifecycle = LifecycleOf(action) /\ q.reviews = Append(p.reviews, action)
      /\ SameBut(q, p)
  BY <1>2 DEF Plans, SameBut
<1>8. \A l \in {"under_review", "decided"}, r \in {<<"submit">>, <<"submit", "decide">>} :
         [p EXCEPT !.lifecycle = l, !.reviews = r] \in Plans
  BY <1>2 DEF Plans
<1> HIDE DEF q
<1>9. /\ q.lifecycle \in {"under_review", "decided"}
      /\ q.reviews = LatestReviewOf[q.lifecycle]
      /\ q.reviews \in {<<"submit">>, <<"submit", "decide">>}
  <2>1. Append(<<>>, "submit") = <<"submit">>
    <3>1. <<>> \in Seq({"submit"})
      OBVIOUS
    <3>2. /\ Append(<<>>, "submit") \in Seq({"submit"}) /\ Len(Append(<<>>, "submit")) = 1
          /\ Append(<<>>, "submit")[1] = "submit"
      BY <3>1
    <3> QED
      BY <3>2
  <2>4. Append(<<"submit">>, "decide") = <<"submit", "decide">>
    <3>1. <<"submit">> \in Seq({"submit", "decide"}) /\ Len(<<"submit">>) = 1
      OBVIOUS
    <3>2. /\ Append(<<"submit">>, "decide") \in Seq({"submit", "decide"})
          /\ Len(Append(<<"submit">>, "decide")) = 2
          /\ Append(<<"submit">>, "decide")[1] = "submit"
          /\ Append(<<"submit">>, "decide")[2] = "decide"
      BY <3>1
    <3> QED
      BY <3>2, PairOf
  <2>2. CASE action = "submit"
    <3>1. q.lifecycle = "under_review" /\ q.reviews = <<"submit">>
      BY <1>6, <1>7, <2>1, <2>2 DEF LifecycleOf
    <3> QED
      BY <3>1 DEF LatestReviewOf
  <2>3. CASE action = "decide"
    <3>1. q.lifecycle = "decided" /\ q.reviews = <<"submit", "decide">>
      BY <1>6, <1>7, <2>3, <2>4 DEF LifecycleOf
    <3> QED
      BY <3>1 DEF LatestReviewOf
  <2> QED
    BY <2>2, <2>3
<1>10. q \in Plans
  BY <1>7, <1>8, <1>9 DEF q
<1>11. /\ plans' \in Seq(Plans) /\ Len(plans') = n /\ DOMAIN plans' = DOMAIN plans
       /\ plans'[n] = q /\ \A v \in DOMAIN plans : v # n => plans'[v] = plans[v]
  BY <1>1, <1>4, <1>10 DEF PlansTyped
<1>12. \A v \in DOMAIN plans : SameBut(plans'[v], plans[v])
  BY <1>7, <1>11 DEF SameBut
<1>13. PlansTyped'
  BY <1>11 DEF PlansTyped
<1> QED
  BY <1>1, <1>9, <1>11, <1>12, <1>13

(* A plan that is added keeps the line when it names the last one as its    *)
(* parent, what it is sourced on is current, and its lineage is right.      *)
Successor(plan) ==
    /\ plan \in Plans /\ plan.parent = Len(plans)
    /\ plan.lifecycle \in {"generated", "edited"} /\ plan.reviews = <<>>
    /\ invocation[plan.key].status = "succeeded"
    /\ ProvenanceOf(invocation[plan.key].sent) = plan.source
    /\ plan.source = Provenance /\ regions.lifecycle = "approved" /\ regions.of = images

Begins(plan) ==
    /\ plan.kind = IF Len(plans) = 0 THEN "generated" ELSE "regenerated"
    /\ plan.lineage = Len(plans) + 1 /\ plan.revision = 1
    /\ command[plan.key] = 0 /\ command' = [command EXCEPT ![plan.key] = Len(plans) + 1]

Revises(plan) ==
    /\ Len(plans) > 0 /\ plan.kind = "edited" /\ command' = command
    /\ plan.lineage = Current.lineage /\ plan.revision = Current.revision + 1
    /\ plan.source = Current.source /\ plan.key = Current.key

LEMMA AddedPlansKeep ==
    ASSUME PaintAssumption, GInv, NEW plan, Successor(plan), AddPlan(plan),
           Begins(plan) \/ Revises(plan),
           UNCHANGED <<sources, invocation>>
    PROVE  /\ PlansTyped' /\ PlansAreSourced' /\ PlansAreLinear' /\ LineagesGrow'
           /\ command' \in [Keys -> 0..MaxPlans]
<1> DEFINE n == Len(plans)
<1>0. /\ PlansTyped /\ SourcesTyped /\ GenerationsTyped /\ plan \in Plans
      /\ UNCHANGED <<images, review, regions, invocation>>
  BY TypesByPart DEF GInv, Successor, sources
<1>1. /\ PlansTyped' /\ n \in Nat /\ DOMAIN plans = 1..n
      /\ Len(plans') = n + 1 /\ DOMAIN plans' = 1..(n + 1)
      /\ plans'[n + 1] = plan
      /\ \A v \in DOMAIN plans :
            SameBut(plans'[v], plans[v]) /\ plans'[v].lifecycle = "superseded"
  BY <1>0, PlansGrow
<1>2. \A v \in 1..(n + 1) : v # n + 1 => v \in 1..n
  BY <1>1
<1>3. plan.key \in Keys /\ plan.source.regions = regions.version /\ plan.source.images = images
  BY <1>0 DEF Successor, Provenance, Plans
<1>4. command' \in [Keys -> 0..MaxPlans]
  <2>1. n + 1 \in 0..MaxPlans
    BY <1>0, <1>1, Bounds DEF AddPlan
  <2> QED
    BY <1>0, <2>1 DEF GenerationsTyped, Begins, Revises
<1>5. PlansAreSourced'
  <2>1. ASSUME NEW v \in 1..(n + 1)
        PROVE  /\ invocation[plans'[v].key].status = "succeeded"
               /\ ProvenanceOf(invocation[plans'[v].key].sent) = plans'[v].source
               /\ plans'[v].source.regions <= regions.version
               /\ plans'[v].source.regions = regions.version =>
                     regions.lifecycle = "approved" /\ regions.of = plans'[v].source.images
    <3>1. CASE v = n + 1
      <4>1. regions.version \in Nat
        BY <1>0, Bounds DEF SourcesTyped
      <4> QED
        BY <1>1, <1>3, <3>1, <4>1 DEF Successor
    <3>2. CASE v # n + 1
      <4>1. v \in DOMAIN plans /\ SameBut(plans'[v], plans[v])
        BY <1>1, <1>2, <3>2
      <4> QED
        BY <4>1 DEF GInv, PlansAreSourced, SameBut
    <3> QED
      BY <3>1, <3>2
  <2> QED
    BY <1>0, <1>1, <2>1 DEF PlansAreSourced, ProvenanceOf
<1>6. ASSUME NEW v \in 1..(n + 1)
      PROVE  /\ plans'[v].parent = v - 1
             /\ plans'[v].lifecycle = "superseded" <=> v < n + 1
             /\ plans'[v].kind = "generated" <=> v = 1
             /\ plans'[v].kind # "edited" => command'[plans'[v].key] = v
  <2>1. CASE v = n + 1
    BY <1>0, <1>1, <1>3, <2>1 DEF Successor, Begins, Revises, GenerationsTyped
  <2>2. CASE v # n + 1
    <3>1. /\ v \in DOMAIN plans /\ v \in 1..n /\ SameBut(plans'[v], plans[v])
          /\ plans'[v].lifecycle = "superseded"
      BY <1>1, <1>2, <2>2
    <3>2. /\ plans[v].parent = v - 1
          /\ plans[v].kind = "generated" <=> v = 1
          /\ plans[v].kind # "edited" => command[plans[v].key] = v
      BY <3>1 DEF GInv, PlansAreLinear
    <3>3. plans[v].key \in Keys
      BY <1>0, <3>1, EachPlanIsTyped
    <3>4. command[plans[v].key] = v => command'[plans[v].key] = v
      BY <1>0, <1>3, <3>1, <3>3 DEF Begins, Revises, GenerationsTyped
    <3> QED
      BY <1>1, <3>1, <3>2, <3>4 DEF SameBut
  <2> QED
    BY <2>1, <2>2
<1>7. ASSUME NEW k \in Keys, command'[k] # 0
      PROVE  command'[k] \in 1..(n + 1) /\ plans'[command'[k]].key = k
  <2>1. CASE command'[k] = command[k]
    <3>1. command[k] \in DOMAIN plans /\ plans[command[k]].key = k
      BY <1>7, <2>1 DEF GInv, PlansAreLinear
    <3> QED
      BY <1>1, <2>1, <3>1 DEF SameBut
  <2>2. CASE command'[k] # command[k]
    <3>1. command'[k] = n + 1 /\ k = plan.key
      BY <1>0, <2>2 DEF Begins, Revises, GenerationsTyped
    <3> QED
      BY <1>1, <3>1
  <2> QED
    BY <2>1, <2>2
<1>8. PlansAreLinear'
  BY <1>1, <1>6, <1>7 DEF PlansAreLinear
<1>9. ASSUME NEW v \in 1..(n + 1)
      PROVE  /\ plans'[v].lineage <= v /\ plans'[v].revision <= v
             /\ plans'[v].kind # "edited" => plans'[v].lineage = v /\ plans'[v].revision = 1
             /\ plans'[v].kind = "edited" =>
                   /\ v > 1
                   /\ plans'[v].lineage = plans'[v - 1].lineage
                   /\ plans'[v].revision = plans'[v - 1].revision + 1
                   /\ plans'[v].source = plans'[v - 1].source
                   /\ plans'[v].key = plans'[v - 1].key
             /\ plans'[plans'[v].lineage].lineage = plans'[v].lineage
             /\ plans'[v].lifecycle # "superseded" =>
                   plans'[v].reviews = LatestReviewOf[plans'[v].lifecycle]
  <2>1. \A w \in 1..n : w \in DOMAIN plans /\ SameBut(plans'[w], plans[w])
    BY <1>1
  <2>2. \A w \in 1..n : /\ plans[w].lineage \in 1..w /\ plans[w].lineage \in 1..n
                        /\ plans[w].revision <= w /\ plans[w].revision \in Nat
    <3> TAKE w \in 1..n
    <3>1. w \in DOMAIN plans /\ plans[w].lineage \in 1..MaxPlans /\ plans[w].revision \in 1..MaxPlans
      BY <1>0, <1>1, EachPlanIsTyped
    <3>2. plans[w].lineage <= w /\ plans[w].revision <= w
      BY <3>1 DEF GInv, LineagesGrow
    <3> QED
      BY <1>1, <3>1, <3>2, Bounds
  <2>3. CASE v = n + 1
    <3>1. plans'[v] = plan
      BY <1>1, <2>3
    <3>2. plan.reviews = LatestReviewOf[plan.lifecycle]
      BY DEF Successor, LatestReviewOf
    <3>3. CASE Begins(plan)
      <4>1. plan.kind # "edited" /\ plan.lineage = v /\ plan.revision = 1
        BY <2>3, <3>3 DEF Begins
      <4> QED
        BY <1>1, <2>3, <3>1, <3>2, <4>1
    <3>4. CASE Revises(plan)
      <4>1. n \in 1..n /\ v - 1 = n /\ n > 0
        BY <1>1, <2>3, <3>4 DEF Revises
      <4>2. /\ plan.lineage = plans[n].lineage /\ plan.revision = plans[n].revision + 1
            /\ plan.source = plans[n].source /\ plan.key = plans[n].key /\ plan.kind = "edited"
        BY <3>4 DEF Revises, Current
      <4>3. SameBut(plans'[n], plans[n])
        BY <2>1, <4>1
      <4>4. plans[n].lineage \in 1..n /\ plans[n].revision <= n /\ plans[n].revision \in Nat
        BY <2>2, <4>1
      <4>5. plans[plans[n].lineage].lineage = plans[n].lineage
        BY <2>1, <4>1 DEF GInv, LineagesGrow
      <4>6. plans'[plans[n].lineage].lineage = plans[n].lineage
        BY <2>1, <4>4, <4>5 DEF SameBut
      <4>7. /\ plan.lineage <= v /\ plan.revision <= v /\ v > 1
            /\ plan.lineage = plans'[v - 1].lineage
            /\ plan.revision = plans'[v - 1].revision + 1
            /\ plan.source = plans'[v - 1].source /\ plan.key = plans'[v - 1].key
            /\ plans'[plan.lineage].lineage = plan.lineage
        BY <1>1, <2>3, <4>1, <4>2, <4>3, <4>4, <4>6 DEF SameBut
      <4> QED
        BY <3>1, <3>2, <4>2, <4>7
    <3> QED
      BY <3>3, <3>4
  <2>4. CASE v # n + 1
    <3>1. v \in 1..n /\ plans'[v].lifecycle = "superseded"
      BY <1>1, <1>2, <2>4
    <3>2. /\ plans[v].lineage <= v /\ plans[v].revision <= v
          /\ plans[v].kind # "edited" => plans[v].lineage = v /\ plans[v].revision = 1
          /\ plans[v].kind = "edited" =>
                /\ v > 1
                /\ plans[v].lineage = plans[v - 1].lineage
                /\ plans[v].revision = plans[v - 1].revision + 1
                /\ plans[v].source = plans[v - 1].source /\ plans[v].key = plans[v - 1].key
          /\ plans[plans[v].lineage].lineage = plans[v].lineage
      BY <2>1, <3>1 DEF GInv, LineagesGrow
    <3>3. v > 1 => v - 1 \in 1..n
      BY <1>1, <3>1
    <3> QED
      BY <2>1, <2>2, <3>1, <3>2, <3>3, ZenonT(40) DEF SameBut
  <2> QED
    BY <2>3, <2>4
<1>10. LineagesGrow'
  BY <1>1, <1>9 DEF LineagesGrow, LatestReviewOf
<1> QED
  BY <1>1, <1>4, <1>5, <1>8, <1>10

LEMMA GenerationsStay ==
    ASSUME GInv, UNCHANGED <<invocation, claim, pc, read>>
    PROVE  ReadsFitRequests' /\ CallsAreRunning' /\ ClaimsAreHeld'
  BY DEF GInv, ReadsFitRequests, CallsAreRunning, ClaimsAreHeld, Spent

(* The sources of a plan that is not stale are the current ones, and its    *)
(* regions are approved, although the plan does not record that.            *)
LEMMA FreshPlansAreGrounded ==
    ASSUME PaintAssumption, GInv, NEW v \in DOMAIN plans, ~PlanStale(plans[v])
    PROVE  /\ ImageSetReady /\ plans[v].source = Provenance
           /\ regions.lifecycle = "approved" /\ regions.of = images
           /\ invocation[plans[v].key].status = "succeeded"
           /\ ProvenanceOf(invocation[plans[v].key].sent) = Provenance
<1>1. ImageSetReady /\ plans[v].source = Provenance
  BY DEF PlanStale
<1>2. plans[v].source.regions = regions.version /\ plans[v].source.images = images
  BY <1>1 DEF Provenance
<1> QED
  BY <1>1, <1>2 DEF GInv, PlansAreSourced

LEMMA ProvenanceIsTyped ==
    ASSUME PaintAssumption, SourcesTyped, VersionsAreSettled, SourceReady
    PROVE  Provenance \in [images : Fingerprints, review : 1..MaxReviews,
                           regions : 1..MaxSets]
  BY Bounds
     DEF SourcesTyped, VersionsAreSettled, SourceReady, RegionsStale, ImageSetReady, Provenance

LEMMA EditKeeps ==
    ASSUME PaintAssumption, GInv, Edit PROVE GInv'
<1> DEFINE n == Len(plans)
           plan == [lifecycle |-> "edited", parent |-> Len(plans), key |-> Current.key,
                    kind |-> "edited",
                    lineage |-> Current.lineage, revision |-> Current.revision + 1,
                    source |-> Current.source, reviews |-> <<>>]
<1>0. PlansTyped /\ SourcesTyped /\ GenerationsTyped
  BY TypesByPart DEF GInv
<1>1. /\ AddPlan(plan) /\ ~PlanStale(Current)
      /\ UNCHANGED <<images, review, regions, command, invocation, claim, pc, read>>
  BY DEF Edit, sources, generating
<1>2. n \in Nat /\ n > 0 /\ n < MaxPlans /\ n \in DOMAIN plans
  BY <1>0, <1>1 DEF PlansTyped, Edit, AddPlan
<1>3. Current \in Plans /\ Current.revision <= n
  BY <1>0, <1>2, EachPlanIsTyped DEF GInv, LineagesGrow, Current
<1>4. plan \in Plans
  <2>1. n \in 0..MaxPlans /\ Current.revision + 1 \in 1..MaxPlans
    BY <1>2, <1>3, Bounds DEF Plans
  <2> HIDE DEF Current
  <2> QED
    BY <1>3, <2>1 DEF Plans
<1>5. Successor(plan)
  <2>1. /\ Current.source = Provenance /\ regions.lifecycle = "approved" /\ regions.of = images
        /\ invocation[Current.key].status = "succeeded"
        /\ ProvenanceOf(invocation[Current.key].sent) = Current.source
    BY <1>1, <1>2, FreshPlansAreGrounded DEF Current
  <2> HIDE DEF Current
  <2> QED
    BY <1>4, <2>1 DEF Successor
<1>6. Revises(plan)
  BY <1>1, <1>2 DEF Revises
<1> HIDE DEF plan
<1>7. /\ PlansTyped' /\ PlansAreSourced' /\ PlansAreLinear' /\ LineagesGrow'
  BY <1>1, <1>5, <1>6, AddedPlansKeep DEF sources
<1>8. SourcesTyped' /\ VersionsAreSettled' /\ GenerationsTyped'
  BY <1>0, <1>1 DEF GInv, SourcesTyped, VersionsAreSettled, GenerationsTyped
<1>9. TypeOK'
  BY <1>7, <1>8 DEF TypeOK, SourcesTyped, PlansTyped, GenerationsTyped, Statuses, Places
<1> QED
  BY <1>1, <1>7, <1>8, <1>9, GenerationsStay DEF GInv

LEMMA PersistKeeps ==
    ASSUME PaintAssumption, GInv, NEW g \in Generations, Persist(g) PROVE GInv'
<1> USE KeysOfGenerations
<1> DEFINE n == Len(plans)
           k == KeyOf[g]
           kind == IF g \in Regenerations THEN "regenerated" ELSE "generated"
           plan == [lifecycle |-> "generated", parent |-> read[g].parent, key |-> KeyOf[g],
                    kind |-> kind, lineage |-> Len(plans) + 1, revision |-> 1,
                    source |-> Provenance, reviews |-> <<>>]
<1>0. PlansTyped /\ SourcesTyped /\ GenerationsTyped
  BY TypesByPart DEF GInv
<1>1. /\ pc[g] = "persisting" /\ CanPersist(g) /\ AddPlan(plan)
      /\ command' = [command EXCEPT ![k] = n + 1]
      /\ pc' = [pc EXCEPT ![g] = "done"] /\ read' = [read EXCEPT ![g] = NothingRead]
      /\ UNCHANGED <<images, review, regions, invocation, claim>>
  BY DEF Persist, Finish, sources
<1>2. n \in Nat /\ n < MaxPlans /\ read[g].parent = n
  BY <1>0, <1>1 DEF PlansTyped, AddPlan, CanPersist
<1>3. kind = IF n = 0 THEN "generated" ELSE "regenerated"
  BY <1>1, <1>2 DEF GInv, ReadsFitRequests
<1>4. /\ SourceReady /\ command[k] = 0 /\ ProvenanceOf(invocation[k].sent) = Provenance
      /\ invocation[k].status = "succeeded"
  BY <1>1 DEF CanPersist, NotCompleted, GInv, CallsAreRunning
<1>5. plan \in Plans
  <2>1. Provenance \in [images : Fingerprints, review : 1..MaxReviews, regions : 1..MaxSets]
    BY <1>0, <1>4, ProvenanceIsTyped DEF GInv
  <2>2. /\ n \in 0..MaxPlans /\ n + 1 \in 1..MaxPlans /\ 1 \in 1..MaxPlans /\ k \in Keys
        /\ kind \in {"generated", "edited", "regenerated"}
    BY <1>2, Bounds
  <2> HIDE DEF kind
  <2> QED
    BY <1>2, <2>1, <2>2 DEF Plans
<1>6. Successor(plan)
  BY <1>2, <1>4, <1>5 DEF Successor, SourceReady, RegionsStale
<1>7. Begins(plan)
  BY <1>1, <1>2, <1>3, <1>4 DEF Begins
<1> HIDE DEF plan
<1>8. /\ PlansTyped' /\ PlansAreSourced' /\ PlansAreLinear' /\ LineagesGrow'
      /\ command' \in [Keys -> 0..MaxPlans]
  BY <1>1, <1>6, <1>7, AddedPlansKeep DEF sources
<1>9. /\ \A h \in Generations : h # g => pc'[h] = pc[h] /\ read'[h] = read[h]
      /\ pc'[g] = "done"
  BY <1>0, <1>1 DEF GenerationsTyped
<1>10. ReadsFitRequests' /\ CallsAreRunning' /\ ClaimsAreHeld'
  BY <1>1, <1>9 DEF GInv, ReadsFitRequests, CallsAreRunning, ClaimsAreHeld, Spent
<1>11. SourcesTyped' /\ VersionsAreSettled'
  BY <1>0, <1>1 DEF GInv, SourcesTyped, VersionsAreSettled
<1>12. GenerationsTyped'
  BY <1>0, <1>1, <1>8, NothingIsTyped DEF GenerationsTyped, Places
<1>13. TypeOK'
  BY <1>8, <1>11, <1>12 DEF TypeOK, SourcesTyped, PlansTyped, GenerationsTyped, Statuses, Places
<1> QED
  BY <1>8, <1>10, <1>11, <1>13 DEF GInv

LEMMA TransitionKeeps ==
    ASSUME PaintAssumption, GInv, NEW action \in {"submit", "decide"}, Transition(action)
    PROVE  GInv'
<1> DEFINE n == Len(plans)
<1>0. PlansTyped /\ SourcesTyped /\ GenerationsTyped
  BY TypesByPart DEF GInv
<1>1. /\ PlansTyped' /\ n \in Nat /\ DOMAIN plans = 1..n
      /\ Len(plans') = n /\ DOMAIN plans' = DOMAIN plans /\ n > 0
      /\ \A v \in DOMAIN plans : SameBut(plans'[v], plans[v])
      /\ \A v \in DOMAIN plans : v # n => plans'[v] = plans[v]
      /\ plans'[n].lifecycle \in {"under_review", "decided"}
      /\ plans'[n].reviews = LatestReviewOf[plans'[n].lifecycle]
  BY <1>0, PlansMove DEF GInv
<1>2. UNCHANGED <<images, review, regions, command, invocation, claim, pc, read>>
  BY DEF Transition, sources, generating
<1>3. PlansAreSourced'
  BY <1>1, <1>2 DEF GInv, PlansAreSourced, SameBut, ProvenanceOf
<1>4. PlansAreLinear'
  <2>1. ASSUME NEW v \in DOMAIN plans
        PROVE  /\ plans'[v].parent = v - 1
               /\ plans'[v].lifecycle = "superseded" <=> v < n
               /\ plans'[v].kind = "generated" <=> v = 1
               /\ plans'[v].kind # "edited" => command[plans'[v].key] = v
    BY <1>1 DEF GInv, PlansAreLinear, SameBut
  <2>2. ASSUME NEW k \in Keys, command[k] # 0
        PROVE  command[k] \in DOMAIN plans /\ plans'[command[k]].key = k
    BY <1>1, <2>2 DEF GInv, PlansAreLinear, SameBut
  <2> QED
    BY <1>1, <1>2, <2>1, <2>2 DEF PlansAreLinear
<1>5. LineagesGrow'
  <2>1. ASSUME NEW v \in DOMAIN plans
        PROVE  /\ v > 1 => v - 1 \in DOMAIN plans
               /\ plans[v].lineage \in DOMAIN plans
    <3>1. plans[v].lineage \in 1..MaxPlans /\ plans[v].lineage <= v
      BY <1>0, EachPlanIsTyped DEF GInv, LineagesGrow
    <3> QED
      BY <1>1, <3>1, Bounds
  <2>2. ASSUME NEW v \in DOMAIN plans
        PROVE  /\ plans'[v].lineage <= v /\ plans'[v].revision <= v
               /\ plans'[v].kind # "edited" => plans'[v].lineage = v /\ plans'[v].revision = 1
               /\ plans'[v].kind = "edited" =>
                     /\ v > 1
                     /\ plans'[v].lineage = plans'[v - 1].lineage
                     /\ plans'[v].revision = plans'[v - 1].revision + 1
                     /\ plans'[v].source = plans'[v - 1].source
                     /\ plans'[v].key = plans'[v - 1].key
               /\ plans'[plans'[v].lineage].lineage = plans'[v].lineage
    BY <1>1, <2>1, SMTT(30) DEF GInv, LineagesGrow, SameBut
  <2>3. ASSUME NEW v \in DOMAIN plans, plans'[v].lifecycle # "superseded"
        PROVE  plans'[v].reviews = LatestReviewOf[plans'[v].lifecycle]
    BY <1>1, <2>3 DEF GInv, LineagesGrow
  <2> QED
    BY <1>1, <2>2, <2>3 DEF LineagesGrow, LatestReviewOf
<1>6. SourcesTyped' /\ VersionsAreSettled' /\ GenerationsTyped'
  BY <1>0, <1>2 DEF GInv, SourcesTyped, VersionsAreSettled, GenerationsTyped
<1>7. TypeOK'
  BY <1>1, <1>6 DEF TypeOK, SourcesTyped, PlansTyped, GenerationsTyped, Statuses, Places
<1> QED
  BY <1>2, <1>3, <1>4, <1>5, <1>6, <1>7, GenerationsStay DEF GInv

-----------------------------------------------------------------------------
LEMMA GInvIsInductive ==
    ASSUME PaintAssumption, GInv, [Next]_vars PROVE GInv'
<1>1. CASE SourceCommand
  BY <1>1, SourceCommandsKeep
<1>2. ASSUME NEW g \in Generations, Generate(g) \/ Crash(g) PROVE GInv'
  <2>1. CASE Quiet(g)
    BY <2>1, QuietKeeps
  <2>2. CASE InvokePaid(g)
    BY <2>2, InvokePaidKeeps
  <2>3. CASE InvokeFixture(g)
    BY <2>3, InvokeFixtureKeeps
  <2>4. CASE \E s \in {"succeeded", "failed", "outcome_unknown"} : ProviderAnswers(g, s)
    BY <2>4, ProviderAnswersKeeps
  <2>5. CASE FreeClaim(g)
    BY <2>5, FreeClaimKeeps
  <2>6. CASE Persist(g)
    BY <2>6, PersistKeeps
  <2> QED
    BY <1>2, <2>1, <2>2, <2>3, <2>4, <2>5, <2>6 DEF Generate, Quiet
<1>3. CASE Edit
  BY <1>3, EditKeeps
<1>4. CASE SubmitPlan \/ DecidePlan
  BY <1>4, TransitionKeeps DEF SubmitPlan, DecidePlan
<1>5. CASE UNCHANGED vars
  <2>1. UNCHANGED <<images, review, regions, plans, command, invocation, claim, pc, read>>
    BY <1>5 DEF vars
  <2>2. ReadsFitRequests' /\ CallsAreRunning' /\ ClaimsAreHeld'
    BY <2>1, GenerationsStay
  <2>3. TypeOK' /\ VersionsAreSettled' /\ PlansAreLinear' /\ LineagesGrow'
    BY <2>1 DEF GInv, TypeOK, VersionsAreSettled, PlansAreLinear, LineagesGrow
  <2>4. PlansAreSourced'
    BY <2>1 DEF GInv, PlansAreSourced
  <2> QED
    BY <2>2, <2>3, <2>4 DEF GInv
<1> QED
  BY <1>1, <1>2, <1>3, <1>4, <1>5 DEF Next, SourceCommand

LEMMA AlwaysGInv == Spec => []GInv
<1>1. Init => GInv
  BY PaintAssumption, Initially
<1>2. GInv /\ [Next]_vars => GInv'
  BY PaintAssumption, GInvIsInductive
<1> QED
  BY <1>1, <1>2, PTL DEF Spec

-----------------------------------------------------------------------------
(* Concurrent generations, edits and retries leave one line of revisions.   *)
THEOREM RevisionsFormOneLine == Spec => []PlansAreLinear
<1>1. GInv => PlansAreLinear
  BY DEF GInv
<1> QED
  BY <1>1, AlwaysGInv, PTL

LEMMA ClaimsSeparatePayments ==
    ASSUME PaintAssumption, GInv PROVE PaidOncePerRevision
<1> SUFFICES ASSUME NEW g \in Paid, NEW h \in Paid, Spent(KeyOf[g]), Spent(KeyOf[h]),
                    invocation[KeyOf[g]].sent.parent = invocation[KeyOf[h]].sent.parent
             PROVE  KeyOf[g] = KeyOf[h]
  BY DEF PaidOncePerRevision
<1>1. /\ KeyOf[claim[invocation[KeyOf[g]].sent.parent]] = KeyOf[g]
      /\ KeyOf[claim[invocation[KeyOf[h]].sent.parent]] = KeyOf[h]
  BY DEF GInv, ClaimsAreHeld
<1> QED
  BY <1>1

(* Two keys that have spent money on the same revision are one key: the     *)
(* claim on the revision outlives the worker that took it, the invocation   *)
(* that failed to be resolved and the result that could not be persisted.   *)
THEOREM RevisionsArePaidOnce == Spec => []PaidOncePerRevision
<1>1. GInv => PaidOncePerRevision
  BY PaintAssumption, ClaimsSeparatePayments
<1> QED
  BY <1>1, AlwaysGInv, PTL

LEMMA ReadyRegionsGoOn ==
    ASSUME PaintAssumption, GInv PROVE RegionWorkCanContinue
<1>1. CASE regions.lifecycle = "submitted"
  BY <1>1 DEF GInv, VersionsAreSettled, RegionWorkCanContinue, CanFork
<1>2. CASE regions.lifecycle # "submitted"
  BY <1>2 DEF RegionWorkCanContinue, CanSave
<1> QED
  BY <1>1, <1>2

(* A set that was submitted over other images always leaves the fork open.  *)
THEOREM RegionsAreNeverStuck == Spec => []RegionWorkCanContinue
<1>1. GInv => RegionWorkCanContinue
  BY PaintAssumption, ReadyRegionsGoOn
<1> QED
  BY <1>1, AlwaysGInv, PTL

-----------------------------------------------------------------------------
Grounded(key) ==
    /\ invocation[key].status = "succeeded"
    /\ ProvenanceOf(invocation[key].sent) = Provenance
    /\ review.verdict = "ready" /\ review.of = images /\ Complete(images)
    /\ regions.lifecycle = "approved" /\ regions.of = images

(* What an added plan makes of the older ones.                              *)
LEMMA PlansAreSuperseded ==
    ASSUME PaintAssumption, PlansTyped, NEW plan, AddPlan(plan)
    PROVE  /\ Len(plans) \in Nat /\ DOMAIN plans = 1..Len(plans)
           /\ Len(plans') = Len(plans) + 1 /\ DOMAIN plans' = 1..(Len(plans) + 1)
           /\ plans'[Len(plans) + 1] = plan
           /\ \A v \in 1..Len(plans) :
                 plans'[v] = [plans[v] EXCEPT !.lifecycle = "superseded"]
<1> DEFINE old == [v \in DOMAIN plans |-> [plans[v] EXCEPT !.lifecycle = "superseded"]]
           Rows == {old[v] : v \in DOMAIN plans} \cup {plan}
<1>1. Len(plans) \in Nat /\ DOMAIN plans = 1..Len(plans)
  BY DEF PlansTyped
<1>2. old \in [1..Len(plans) -> Rows]
  BY <1>1
<1>3. old \in Seq(Rows) /\ Len(old) = Len(plans) /\ plan \in Rows
  BY <1>1, <1>2, SeqDef
<1>4. plans' = Append(old, plan)
  BY DEF AddPlan
<1>5. \A v \in 1..Len(plans) : old[v] = [plans[v] EXCEPT !.lifecycle = "superseded"]
  BY <1>1
<1> HIDE DEF old, Rows
<1>6. /\ Len(plans') = Len(plans) + 1 /\ plans'[Len(plans) + 1] = plan
      /\ DOMAIN plans' = 1..(Len(plans) + 1)
      /\ \A v \in 1..Len(plans) : plans'[v] = old[v]
  BY <1>1, <1>3, <1>4
<1> QED
  BY <1>1, <1>5, <1>6

LEMMA PlanStepGrounded ==
    ASSUME PaintAssumption, GInv, [Next]_vars, plans' # plans
    PROVE  Grounded(plans'[Len(plans')].key)
<1> DEFINE n == Len(plans)
<1>0. PlansTyped /\ SourcesTyped /\ VersionsAreSettled /\ LineagesGrow
  BY TypesByPart DEF GInv
<1>1. ASSUME NEW v \in DOMAIN plans, ~PlanStale(plans[v]) PROVE Grounded(plans[v].key)
  BY <1>1, FreshPlansAreGrounded DEF Grounded, ImageSetReady
<1>2. n \in Nat /\ DOMAIN plans = 1..n /\ (plans # <<>> => n \in DOMAIN plans)
  BY <1>0 DEF PlansTyped
<1>3. ~SourceCommand
  BY <1>0, SourceCommands
<1>4. \A g \in Generations : Generate(g) \/ Crash(g) => Persist(g)
  BY DEF Generate, Crash, ReadImages, ReadRegions, Refused, InvokePaid, InvokeFixture,
         ProviderAnswers, FreeClaim, NothingPersisted
<1>5. ASSUME NEW g \in Generations, Persist(g) PROVE Grounded(plans'[Len(plans')].key)
  <2>1. Len(plans') = n + 1 /\ plans'[n + 1].key = KeyOf[g]
    BY <1>0, <1>5, PlansAreSuperseded DEF Persist
  <2>2. invocation[KeyOf[g]].status = "succeeded"
    BY <1>5 DEF Persist, GInv, CallsAreRunning
  <2>3. SourceReady /\ ProvenanceOf(invocation[KeyOf[g]].sent) = Provenance
    BY <1>5 DEF Persist, CanPersist
  <2> QED
    BY <2>1, <2>2, <2>3 DEF Grounded, SourceReady, RegionsStale, ImageSetReady
<1>6. CASE Edit
  <2>1. Grounded(Current.key)
    BY <1>1, <1>2, <1>6 DEF Edit, Current
  <2>2. Len(plans') = n + 1 /\ plans'[n + 1].key = Current.key
    BY <1>0, <1>6, PlansAreSuperseded DEF Edit
  <2> QED
    BY <2>1, <2>2
<1>7. ASSUME NEW action \in {"submit", "decide"}, Transition(action)
      PROVE  Grounded(plans'[Len(plans')].key)
  <2>1. Grounded(plans[n].key) /\ n \in DOMAIN plans
    BY <1>1, <1>2, <1>7 DEF Transition, Current
  <2>2. Len(plans') = n /\ SameBut(plans'[n], plans[n])
    BY <1>0, <1>7, <2>1, PlansMove
  <2> QED
    BY <2>1, <2>2 DEF SameBut
<1> QED
  BY <1>3, <1>4, <1>5, <1>6, <1>7 DEF Next, SourceCommand, SubmitPlan, DecidePlan, vars

(* Whoever makes, revises, submits or decides a plan does so over exactly   *)
(* the images, review and regions that were sent for it, while they are     *)
(* current, reviewed and approved.                                          *)
THEOREM PlanStepsStandOnTheirSources == Spec => PlanStepsAreGrounded
<1>1. GInv /\ [Next]_vars =>
         [plans' # plans =>
             LET sent == invocation[plans'[Len(plans')].key]
             IN  /\ sent.status = "succeeded"
                 /\ ProvenanceOf(sent.sent) = Provenance
                 /\ review.verdict = "ready" /\ review.of = images /\ Complete(images)
                 /\ regions.lifecycle = "approved" /\ regions.of = images]_vars
  BY PaintAssumption, PlanStepGrounded DEF Grounded
<1> QED
  BY <1>1, AlwaysGInv, PTL DEF Spec, PlanStepsAreGrounded

-----------------------------------------------------------------------------
(* The workbench of the regions.                                            *)
LEMMA StatusesOfImages ==
    ASSUME SourcesTyped
    PROVE  /\ CurrentImageSet \in {"incomplete", "stale", "not_ready", "ready"}
           /\ CurrentImageSet = "ready" <=> ImageSetReady
           /\ CurrentImageSet = "incomplete" <=> review.verdict = "none"
           /\ ImageSetRead = CurrentImageSet
<1>1. review.verdict \in {"none", "ready", "not_ready"}
  BY DEF SourcesTyped
<1>2. review.verdict = "ready" /\ review.of = images => Complete(images)
  BY DEF SourcesTyped
<1>3. CASE review.verdict = "none"
  BY <1>3 DEF CurrentImageSet, ImageSetRead, ImageSetReady
<1>4. CASE review.verdict # "none" /\ review.of # images
  BY <1>4 DEF CurrentImageSet, ImageSetRead, ImageSetReady
<1>5. CASE review.verdict = "ready" /\ review.of = images
  BY <1>2, <1>5 DEF CurrentImageSet, ImageSetRead, ImageSetReady
<1>6. CASE review.verdict = "not_ready" /\ review.of = images
  BY <1>6 DEF CurrentImageSet, ImageSetRead, ImageSetReady
<1> QED
  BY <1>1, <1>3, <1>4, <1>5, <1>6

LEMMA OffersOfRegions ==
    ASSUME NEW w, NEW role
    PROVE  /\ RegionOffers(w, role) \subseteq {"draw", "start", "submit", "review", "fork"}
           /\ "draw" \in RegionOffers(w, role) <=>
                 /\ role = "owner"
                 /\ IF w.versions = 0 THEN w.can_create_draft
                    ELSE /\ w.versions > 0 /\ ~w.current.stale
                         /\ w.current.effective = "draft"
           /\ "start" \in RegionOffers(w, role) <=>
                 /\ role = "owner" /\ w.status = "ready"
                 /\ w.current.effective \in {"approved", "changes_requested"}
           /\ "submit" \in RegionOffers(w, role) <=>
                 /\ role = "owner" /\ w.versions > 0 /\ ~w.current.stale
                 /\ w.current.effective = "draft"
           /\ "review" \in RegionOffers(w, role) <=>
                 w.versions > 0 /\ ~w.current.stale /\ w.current.effective = "submitted"
           /\ "fork" \in RegionOffers(w, role) <=>
                 role = "owner" /\ w.status = "ready" /\ w.versions > 1
  BY DEF RegionOffers

LEMMA RegionWorkbenchIsCoherent ==
    ASSUME PaintAssumption, GInv PROVE RegionsAreCoherent
<1> DEFINE w == RegionWorkbenchRead
           l == regions.lifecycle
           n == regions.version
<1>0. /\ SourcesTyped /\ n \in Nat /\ (l # "none" <=> n > 0)
      /\ l \in {"none", "draft", "submitted", "approved", "changes_requested"}
  BY TypesByPart, Bounds DEF GInv, SourcesTyped, VersionsAreSettled
<1>1. /\ ImageSetRead = CurrentImageSet
      /\ CurrentImageSet = "ready" <=> ImageSetReady
  BY <1>0, StatusesOfImages
<1>2. /\ w.status = CurrentImageSet /\ w.versions = n
      /\ w.current.effective = l /\ w.current.stale = RegionsStale
      /\ w.can_create_draft = (/\ CurrentImageSet = "ready"
                               /\ n > 0 => l \in {"draft", "approved", "changes_requested"})
  BY DEF RegionWorkbenchRead, RegionSetRead
<1> HIDE DEF w
<1>3. w.can_create_draft <=> CanSave
  BY <1>0, <1>1, <1>2 DEF CanSave
<1>4. RegionsStale \in BOOLEAN /\ (~RegionsStale => ImageSetReady)
  BY DEF RegionsStale
<1>5. ASSUME NEW role \in Roles, NEW o \in RegionOffers(w, role) PROVE CommandAccepts(o)
  <2>1. CASE o = "draw"
    BY <1>0, <1>2, <1>3, <1>4, <1>5, <2>1, OffersOfRegions DEF CommandAccepts, CanSave
  <2>2. CASE o = "start"
    BY <1>0, <1>1, <1>2, <1>5, <2>2, OffersOfRegions DEF CommandAccepts, CanSave
  <2>3. CASE o = "submit"
    BY <1>2, <1>5, <2>3, OffersOfRegions DEF CommandAccepts, CanSubmitSet
  <2>4. CASE o = "review"
    BY <1>2, <1>5, <2>4, OffersOfRegions DEF CommandAccepts, CanReviewSet
  <2>5. CASE o = "fork"
    BY <1>0, <1>1, <1>2, <1>5, <2>5, OffersOfRegions DEF CommandAccepts, CanFork
  <2> QED
    BY <1>5, <2>1, <2>2, <2>3, <2>4, <2>5, OffersOfRegions
<1>6. ASSUME w.status = "ready", ~PageDeadEnd(w)
      PROVE  \E role \in Roles : RegionOffers(w, role) # {}
  <2>0. "owner" \in Roles
    BY DEF Roles
  <2>1. CASE n = 0
    <3>1. ImageSetReady /\ l = "none"
      BY <1>0, <1>1, <1>2, <1>6, <2>1
    <3>2. w.can_create_draft
      BY <1>3, <3>1 DEF CanSave
    <3>3. "draw" \in RegionOffers(w, "owner")
      BY <1>2, <2>1, <3>2, OffersOfRegions
    <3> QED
      BY <2>0, <3>3
  <2>2. CASE l \in {"approved", "changes_requested"}
    <3>1. "start" \in RegionOffers(w, "owner")
      BY <1>2, <1>6, <2>2, OffersOfRegions
    <3> QED
      BY <2>0, <3>1
  <2>3. CASE l \in {"draft", "submitted"} /\ RegionsStale
    <3>1. n > 0 /\ n # 1
      BY <1>0, <1>2, <1>6, <2>3 DEF PageDeadEnd
    <3>2. "fork" \in RegionOffers(w, "owner")
      BY <1>0, <1>2, <1>6, <3>1, OffersOfRegions
    <3> QED
      BY <2>0, <3>2
  <2>4. CASE l = "draft" /\ ~RegionsStale
    <3>1. "submit" \in RegionOffers(w, "owner")
      BY <1>0, <1>2, <2>4, OffersOfRegions
    <3> QED
      BY <2>0, <3>1
  <2>5. CASE l = "submitted" /\ ~RegionsStale
    <3>1. "review" \in RegionOffers(w, "owner")
      BY <1>0, <1>2, <2>5, OffersOfRegions
    <3> QED
      BY <2>0, <3>1
  <2> QED
    BY <1>0, <2>1, <2>2, <2>3, <2>4, <2>5
<1> QED
  BY <1>1, <1>2, <1>3, <1>5, <1>6 DEF RegionsAreCoherent, w

-----------------------------------------------------------------------------
(* The workbench of the plans.                                              *)
LEMMA ReadsOfPlans ==
    ASSUME NEW v \in DOMAIN plans, NEW role \in Roles
    PROVE  LET w == WorkbenchRead(role)
               r == w.history[v]
           IN  /\ DOMAIN w.history = DOMAIN plans
               /\ r.plan = plans[v] /\ r.current = IsCurrent(v)
               /\ r.stale = PlanStale(plans[v])
               /\ r.actions = PlanActions(v, role)
               /\ r.effective = IF ~IsCurrent(v) \/ PlanStale(plans[v]) THEN "superseded"
                                ELSE plans[v].lifecycle
  BY DEF WorkbenchRead, PlanRead

LEMMA CurrentPlanIsLast ==
    ASSUME PlansAreLinear, NEW v \in DOMAIN plans
    PROVE  IsCurrent(v) <=> ~(v < Len(plans))
  BY DEF PlansAreLinear, IsCurrent

LEMMA ActionsAreExpected ==
    ASSUME PaintAssumption, GInv, NEW v \in DOMAIN plans, NEW role \in Roles
    PROVE  PlanActions(v, role) = ExpectedActions(WorkbenchRead(role).history[v], role)
<1> DEFINE r == WorkbenchRead(role).history[v]
           l == plans[v].lifecycle
<1>1. role = "owner" \/ role = "reviewer"
  BY DEF Roles
<1>2. l \in {"generated", "edited", "under_review", "decided", "superseded"}
  <2>1. plans[v] \in Plans
    BY EachPlanIsTyped, TypesByPart DEF GInv
  <2> QED
    BY <2>1 DEF Plans
<1>3. r.effective = IF ~IsCurrent(v) \/ PlanStale(plans[v]) THEN "superseded" ELSE l
  BY ReadsOfPlans
<1> SUFFICES PlanActions(v, role) = ExpectedActions(r, role)
  OBVIOUS
<1> HIDE DEF r
<1>4. CASE ~IsCurrent(v) \/ PlanStale(plans[v])
  BY <1>3, <1>4 DEF PlanActions, ExpectedActions
<1>5. CASE IsCurrent(v) /\ ~PlanStale(plans[v])
  <2>1. r.effective = l /\ l # "superseded"
    BY <1>3, <1>5 DEF IsCurrent
  <2>2. CASE role = "reviewer" /\ l = "under_review"
    BY <1>5, <2>1, <2>2 DEF PlanActions, ExpectedActions
  <2>3. CASE role = "reviewer" /\ l # "under_review"
    BY <1>5, <2>1, <2>3 DEF PlanActions, ExpectedActions
  <2>4. CASE role = "owner" /\ l = "under_review"
    BY <1>5, <2>1, <2>4 DEF PlanActions, ExpectedActions
  <2>5. CASE role = "owner" /\ l = "decided"
    BY <1>5, <2>1, <2>5 DEF PlanActions, ExpectedActions
  <2>6. CASE role = "owner" /\ l \in {"generated", "edited"}
    BY <1>5, <2>1, <2>6 DEF PlanActions, ExpectedActions
  <2> QED
    BY <1>1, <1>2, <2>1, <2>2, <2>3, <2>4, <2>5, <2>6
<1> QED
  BY <1>4, <1>5

LEMMA ActionsAreAccepted ==
    ASSUME PaintAssumption, GInv, NEW v \in DOMAIN plans, NEW role \in Roles,
           NEW action \in PlanActions(v, role)
    PROVE  Accepted(v, action)
<1>1. IsCurrent(v) /\ ~PlanStale(plans[v])
  BY DEF PlanActions
<1>2. SourceReady
  BY <1>1, FreshPlansAreGrounded DEF SourceReady, RegionsStale
<1>3. PlansTyped
  BY TypesByPart DEF GInv
<1>4. v = Len(plans) /\ plans[v] = Current
  <2>1. v \in 1..Len(plans) /\ Len(plans) \in Nat
    BY <1>3, EachPlanIsTyped
  <2>2. ~(v < Len(plans))
    BY <1>1, CurrentPlanIsLast DEF GInv
  <2>3. v = Len(plans)
    BY <2>1, <2>2
  <2> QED
    BY <2>3 DEF Current
<1>5. /\ action \in {"edit", "regenerate", "submit", "decide"}
      /\ action = "submit" => plans[v].lifecycle \in {"generated", "edited"}
      /\ action = "decide" => plans[v].lifecycle = "under_review"
  <2> DEFINE l == plans[v].lifecycle
  <2>1. CASE role = "owner" /\ l \in {"generated", "edited"}
    BY <1>1, <2>1 DEF PlanActions
  <2>2. CASE role = "owner" /\ l = "decided"
    BY <1>1, <2>2 DEF PlanActions
  <2>3. CASE role = "reviewer" /\ l = "under_review"
    BY <1>1, <2>3 DEF PlanActions
  <2>4. CASE ~ \/ role = "owner" /\ l \in {"generated", "edited"}
               \/ role = "owner" /\ l = "decided"
               \/ role = "reviewer" /\ l = "under_review"
    BY <1>1, <2>4 DEF PlanActions
  <2> QED
    BY <2>1, <2>2, <2>3, <2>4
<1>6. CASE action = "edit"
  BY <1>1, <1>4, <1>6 DEF Accepted
<1>7. CASE action = "regenerate"
  BY <1>2, <1>4, <1>7 DEF Accepted
<1>8. CASE action \in {"submit", "decide"}
  BY <1>1, <1>4, <1>5, <1>8 DEF Accepted, CanReviewPlan
<1> QED
  BY <1>5, <1>6, <1>7, <1>8

LEMMA PageAcceptsPlans ==
    ASSUME PaintAssumption, GInv, NEW v \in DOMAIN plans, NEW role \in Roles
    PROVE  IsPaintPlan(WorkbenchRead(role).history[v], v)
<1> DEFINE r == WorkbenchRead(role).history[v]
<1>1. r.plan = plans[v]
  BY ReadsOfPlans
<1> HIDE DEF r
<1>2. PlansTyped /\ v \in 1..Len(plans) /\ Len(plans) \in Nat
  BY TypesByPart, EachPlanIsTyped DEF GInv
<1>3. /\ plans[v].lifecycle # "superseded" =>
            plans[v].reviews = LatestReviewOf[plans[v].lifecycle]
      /\ plans[v].kind # "edited" => plans[v].lineage = v /\ plans[v].revision = 1
      /\ plans[v].kind = "edited" =>
            /\ v > 1 /\ plans[v].lineage = plans[v - 1].lineage
            /\ plans[v].revision = plans[v - 1].revision + 1
  BY DEF GInv, LineagesGrow
<1>4. plans[v].kind = "edited" => plans[v].lineage # v /\ plans[v].revision >= 2
  <2> SUFFICES ASSUME plans[v].kind = "edited"
               PROVE  plans[v].lineage # v /\ plans[v].revision >= 2
    OBVIOUS
  <2>1. v > 1 /\ v - 1 \in DOMAIN plans
    BY <1>2, <1>3, EachPlanIsTyped
  <2>2. plans[v - 1].lineage <= v - 1 /\ plans[v - 1].lineage \in Nat
        /\ plans[v - 1].revision \in Nat /\ plans[v - 1].revision >= 1
    BY <1>2, <2>1, EachPlanIsTyped, Bounds DEF GInv, LineagesGrow
  <2> QED
    BY <1>2, <1>3, <2>2, SMTT(30)
<1>5. plans[v].kind = "generated" <=> plans[v].parent = 0
  <2>1. plans[v].parent = v - 1 /\ (plans[v].kind = "generated" <=> v = 1)
    BY DEF GInv, PlansAreLinear
  <2> QED
    BY <1>2, <2>1
<1> QED
  BY <1>1, <1>3, <1>4, <1>5 DEF IsPaintPlan, r

LEMMA HistoryIsASequence ==
    ASSUME PlansTyped, NEW role
    PROVE  LET h == WorkbenchRead(role).history
           IN  Len(h) = Len(plans) /\ DOMAIN h = 1..Len(plans) /\ (h = <<>> <=> Len(plans) = 0)
<1> DEFINE h == WorkbenchRead(role).history
           n == Len(plans)
           S == {PlanRead(v, role) : v \in 1..n}
<1>1. n \in Nat /\ DOMAIN plans = 1..n
  BY DEF PlansTyped
<1>2. h = [v \in 1..n |-> PlanRead(v, role)]
  BY <1>1 DEF WorkbenchRead
<1> HIDE DEF h, n
<1>3. h \in [1..n -> S]
  BY <1>2
<1> HIDE DEF S
<1>4. h \in Seq(S)
  BY <1>1, <1>3, SeqDef
<1>5. DOMAIN h = 1..n
  BY <1>3
<1>6. Len(h) = n
  BY <1>1, <1>4, <1>5
<1>7. h = <<>> <=> n = 0
  BY <1>4, <1>6
<1> QED
  BY <1>5, <1>6, <1>7 DEF h, n

LEMMA PageAcceptsHistory ==
    ASSUME PaintAssumption, GInv, NEW role \in Roles
    PROVE  LinkedHistory(WorkbenchRead(role).history)
<1> DEFINE h == WorkbenchRead(role).history
           n == Len(plans)
<1>1. PlansTyped /\ n \in Nat /\ DOMAIN plans = 1..n
  BY TypesByPart DEF GInv, PlansTyped
<1>2. h = <<>> <=> n = 0
  BY <1>1, HistoryIsASequence
<1>3. Len(h) = n /\ DOMAIN h = 1..n
  BY <1>1, HistoryIsASequence
<1>4. \A v \in 1..n : h[v].plan = plans[v] /\ h[v].current = IsCurrent(v)
  BY <1>1, ReadsOfPlans
<1> HIDE DEF h
<1>5. \A v \in 1..n : h[v].current <=> v = n
  <2> TAKE v \in 1..n
  <2>1. h[v].current <=> ~(v < n)
    BY <1>1, <1>4, CurrentPlanIsLast DEF GInv
  <2>2. n \in Nat
    BY <1>1
  <2> HIDE DEF n
  <2>3. v = n <=> ~(v < n)
    BY <2>2
  <2> QED
    BY <2>1, <2>3
<1>6. h # <<>> => h[1].plan.kind = "generated" /\ h[Len(h)].current
  <2>1. h # <<>> => n \in 1..n /\ 1 \in 1..n
    BY <1>1, <1>2
  <2>2. \A v \in 1..n : plans[v].kind = "generated" <=> v = 1
    BY <1>1 DEF GInv, PlansAreLinear
  <2> QED
    BY <1>3, <1>4, <1>5, <2>1, <2>2
<1>7. ASSUME NEW v \in 2..n
      PROVE  LET parent == h[h[v].plan.parent].plan
                 plan == h[v].plan
             IN  /\ plan.parent = v - 1
                 /\ plan.kind = "edited" =>
                       /\ plan.lineage = parent.lineage /\ plan.revision = parent.revision + 1
                       /\ plan.source = parent.source /\ plan.key = parent.key
                       /\ h[plan.lineage].plan.lineage = plan.lineage
                 /\ plan.kind = "regenerated" => plan.lineage # parent.lineage
  <2>1. v \in 1..n /\ v - 1 \in 1..n /\ v \in Nat
    BY <1>1
  <2>2. plans[v].lineage \in 1..n /\ plans[v - 1].lineage \in Nat
    BY <1>1, <2>1, EachPlanIsTyped, Bounds, SMTT(30) DEF GInv, LineagesGrow
  <2>3. h[v].plan = plans[v] /\ h[v - 1].plan = plans[v - 1] /\ plans[v].parent = v - 1
    BY <1>1, <1>4, <2>1 DEF GInv, PlansAreLinear
  <2>4. h[plans[v].lineage].plan = plans[plans[v].lineage]
    BY <1>4, <2>2
  <2>5. /\ plans[v].kind # "edited" => plans[v].lineage = v
        /\ plans[v].kind = "edited" =>
              /\ plans[v].lineage = plans[v - 1].lineage
              /\ plans[v].revision = plans[v - 1].revision + 1
              /\ plans[v].source = plans[v - 1].source /\ plans[v].key = plans[v - 1].key
        /\ plans[plans[v].lineage].lineage = plans[v].lineage
        /\ plans[v - 1].lineage <= v - 1
    BY <1>1, <2>1 DEF GInv, LineagesGrow
  <2>6. plans[v].kind = "regenerated" => plans[v].lineage # plans[v - 1].lineage
    BY <2>1, <2>2, <2>5
  <2> QED
    BY <2>3, <2>4, <2>5, <2>6
<1> QED
  BY <1>3, <1>5, <1>6, <1>7 DEF LinkedHistory, h

LEMMA PlanWorkbenchIsCoherent ==
    ASSUME PaintAssumption, GInv, NEW role \in Roles
    PROVE  LET w == WorkbenchRead(role) IN
           /\ IsWorkbench(w, role)
           /\ \A v \in DOMAIN plans : \A action \in w.history[v].actions : Accepted(v, action)
<1> DEFINE w == WorkbenchRead(role)
           n == Len(plans)
<1>1. PlansTyped /\ n \in Nat /\ DOMAIN plans = 1..n
  BY TypesByPart DEF GInv, PlansTyped
<1>2. DOMAIN w.history = DOMAIN plans /\ (w.history = <<>> <=> n = 0)
  BY <1>1, HistoryIsASequence
<1>3. /\ w.status = ImageSetReady /\ w.source = Provenance /\ w.ready = SourceReady
      /\ w.actions = {"read_history"} \cup
            (IF role = "owner" /\ SourceReady
             THEN {"preview", IF \E v \in DOMAIN plans : IsCurrent(v) THEN "regenerate"
                                                                      ELSE "generate"}
             ELSE {})
  BY DEF WorkbenchRead
<1>4. \A v \in DOMAIN plans :
         /\ w.history[v].plan = plans[v] /\ w.history[v].stale = PlanStale(plans[v])
         /\ w.history[v].actions = PlanActions(v, role)
  BY ReadsOfPlans
<1>5. (\E v \in DOMAIN plans : IsCurrent(v)) <=> n # 0
  <2>1. n # 0 => n \in DOMAIN plans /\ ~(n < n)
    BY <1>1
  <2> QED
    BY <1>1, <2>1, CurrentPlanIsLast DEF GInv
<1>6. LinkedHistory(w.history)
  BY PageAcceptsHistory
<1>7. \A v \in DOMAIN plans : /\ IsPaintPlan(w.history[v], v)
                              /\ w.history[v].actions = ExpectedActions(w.history[v], role)
  BY <1>4, PageAcceptsPlans, ActionsAreExpected
<1>8. \A v \in DOMAIN plans :
         ~w.status \/ w.history[v].plan.source # w.source => w.history[v].stale
  <2> HIDE DEF w
  <2>1. ASSUME NEW v \in DOMAIN plans, ~w.status \/ w.history[v].plan.source # w.source
        PROVE  PlanStale(plans[v])
    <3>1. ~ImageSetReady \/ plans[v].source # Provenance
      BY <1>3, <1>4, <2>1
    <3> QED
      BY <3>1 DEF PlanStale
  <2> QED
    BY <1>4, <2>1
<1>9. \A v \in DOMAIN plans : \A action \in w.history[v].actions : Accepted(v, action)
  BY <1>4, ActionsAreAccepted
<1> HIDE DEF w
<1>10. w.actions = {"read_history"} \cup
          (IF role = "owner" /\ w.ready
           THEN {"preview", IF w.history = <<>> THEN "generate" ELSE "regenerate"}
           ELSE {})
  BY <1>2, <1>3, <1>5
<1>11. IsWorkbench(w, role)
  BY <1>2, <1>6, <1>7, <1>8, <1>10 DEF IsWorkbench
<1> QED
  BY <1>9, <1>11 DEF w

-----------------------------------------------------------------------------
(* The previews.                                                            *)
LEMMA NothingBlocksSources ==
    ASSUME PaintAssumption, GInv, NEW sel, sel.set \in 0..regions.version
    PROVE  SourceBlockers(sel) = {} <=>
              /\ ImageSetReady /\ sel.images = images
              /\ regions.lifecycle = "approved" /\ regions.of = images
              /\ sel.set = regions.version
<1>0. SourcesTyped /\ VersionsAreSettled /\ regions.version \in Nat
  BY TypesByPart, Bounds DEF GInv, SourcesTyped
<1>1. CurrentImageSet = "ready" <=> ImageSetReady
  BY <1>0, StatusesOfImages
<1>2. CurrentImageSet = "ready" => review.verdict # "none"
  BY <1>1 DEF ImageSetReady
<1>4. StaleReasons = {} <=> ImageSetReady /\ regions.of = images
  BY <1>1 DEF StaleReasons, Blocker
<1>5. RegionBlockers(sel.set) = {} <=>
         /\ sel.set = regions.version
         /\ regions.lifecycle = "approved" /\ ImageSetReady /\ regions.of = images
  <2>1. CASE sel.set \notin 1..regions.version
    <3>1. sel.set = 0
      BY <1>0, <2>1
    <3>2. RegionBlockers(sel.set) # {}
      BY <2>1 DEF RegionBlockers
    <3>3. regions.lifecycle = "approved" => sel.set # regions.version
      BY <1>0, <3>1 DEF VersionsAreSettled
    <3> QED
      BY <3>2, <3>3
  <2>2. CASE sel.set \in 1..regions.version /\ sel.set # regions.version
    BY <2>2 DEF RegionBlockers
  <2>3. CASE sel.set \in 1..regions.version /\ sel.set = regions.version
    <3>1. RegionBlockers(sel.set) =
             Blocker("region_set_not_approved", regions.lifecycle # "approved")
                \cup StaleReasons
      BY <2>3 DEF RegionBlockers, RegionSetRead
    <3> QED
      BY <1>4, <2>3, <3>1 DEF Blocker
  <2> QED
    BY <2>1, <2>2, <2>3
<1>6. SourceBlockers(sel) = {} <=>
         /\ CurrentImageSet = "ready" /\ review.verdict # "none"
         /\ sel.images = images /\ RegionBlockers(sel.set) = {}
  <2>1. (IF CurrentImageSet = "ready" THEN {} ELSE {ImageSetBlocker[CurrentImageSet]}) = {}
           <=> CurrentImageSet = "ready"
    OBVIOUS
  <2>2. Blocker("readiness_review_missing", review.verdict = "none") = {}
           <=> review.verdict # "none"
    BY DEF Blocker
  <2>3. Blocker("image_set_fingerprint_changed", sel.images # images) = {}
           <=> sel.images = images
    BY DEF Blocker
  <2> QED
    BY <2>1, <2>2, <2>3 DEF SourceBlockers
<1> QED
  BY <1>1, <1>2, <1>5, <1>6

LEMMA PreviewsOfFixtures ==
    ASSUME NEW sel, NEW role, NEW now, sel.provider = "fixture_local",
           now.admits \in BOOLEAN
    PROVE  LET r == Preview(sel, role, now) IN
           /\ IsPreview(r)
           /\ HasAdmissiblePreview(r, sel) <=>
                 role = "owner" /\ now.admits /\ SourceBlockers(sel) = {}
<1> DEFINE B == SourceBlockers(sel)
           r == Preview(sel, role, now)
<1>1. B \cup RoleBlockers(role) = {} <=> B = {} /\ role = "owner"
  BY DEF RoleBlockers, Blocker
<1>2. Blocker("admission_rejected", ~now.admits) = {} <=> now.admits
  BY DEF Blocker
<1>3. /\ r.mode = "fixture_available" /\ r.provider = "fixture_local"
      /\ r.source_ready <=> B = {}
      /\ r.authorized = FALSE
      /\ r.blockers = IF B \cup RoleBlockers(role) # {} THEN B \cup RoleBlockers(role)
                      ELSE Blocker("admission_rejected", ~now.admits)
      /\ r.estimated <=> r.blockers = {}
      /\ r.admissible <=> r.blockers = {}
  BY DEF Preview, FixturePreview
<1> SUFFICES /\ IsPreview(r)
             /\ HasAdmissiblePreview(r, sel) <=> role = "owner" /\ now.admits /\ B = {}
  OBVIOUS
<1> HIDE DEF r, B
<1>4. r.blockers = {} <=> B = {} /\ role = "owner" /\ now.admits
  BY <1>1, <1>2, <1>3
<1> QED
  BY <1>3, <1>4 DEF IsPreview, HasAdmissiblePreview

LEMMA PreviewsOfLiveCalls ==
    ASSUME NEW sel, NEW role, NEW now \in Circumstances,
           sel.provider \in {"zhipu", "openai"}
    PROVE  LET r == Preview(sel, role, now) IN
           /\ IsPreview(r)
           /\ HasAdmissiblePreview(r, sel) <=>
                 /\ role = "owner" /\ now.admits /\ SourceBlockers(sel) = {}
                 /\ sel.provider = "zhipu"
                 /\ now.fits /\ now.priced /\ now.enabled /\ now.live
<1> DEFINE B == SourceBlockers(sel)
           r == Preview(sel, role, now)
           all == B \cup RoleBlockers(role) \cup SelectionReadiness(sel, now)
                    \cup Blocker("pricing_snapshot_invalid", ~now.priced)
                    \cup Gate(sel, now) \cup Blocker("provider_disabled", ~now.enabled)
<1>0. /\ now.admits \in BOOLEAN /\ now.fits \in BOOLEAN /\ now.priced \in BOOLEAN
      /\ now.enabled \in BOOLEAN /\ now.live \in BOOLEAN
  BY DEF Circumstances
<1>1. RoleBlockers(role) = {} <=> role = "owner"
  BY DEF RoleBlockers, Blocker
<1>2. SelectionReadiness(sel, now) = {} <=> B = {} /\ now.fits /\ now.admits
  BY <1>0 DEF SelectionReadiness, Estimated, Blocker
<1>3. /\ Gate(sel, now) = {} <=> sel.provider # "openai" /\ now.live
      /\ Gate(sel, now) # {} => "live_execution_authorization_required" \in Gate(sel, now)
  BY <1>0 DEF Gate, Blocker
<1>4. /\ Blocker("pricing_snapshot_invalid", ~now.priced) = {} <=> now.priced
      /\ Blocker("provider_disabled", ~now.enabled) = {} <=> now.enabled
  BY <1>0 DEF Blocker
<1>5. all = {} <=> /\ B = {} /\ role = "owner" /\ now.fits /\ now.admits /\ now.priced
                   /\ sel.provider # "openai" /\ now.live /\ now.enabled
  BY <1>1, <1>2, <1>3, <1>4
<1>6. Gate(sel, now) # {} => "live_execution_authorization_required" \in all
  BY <1>3
<1>7. /\ r.mode = "live_authorization_required" /\ r.provider = sel.provider
      /\ r.source_ready <=> B = {}
      /\ r.estimated <=> Estimated(sel, now) /\ now.priced
      /\ r.authorized <=> sel.provider = "zhipu" /\ now.live
      /\ r.blockers = all
      /\ r.admissible <=> sel.provider = "zhipu" /\ all = {} /\ now.live
  BY DEF Preview, LivePreview
<1>8. Estimated(sel, now) <=> B = {} /\ now.fits
  BY DEF Estimated
<1> SUFFICES /\ IsPreview(r)
             /\ HasAdmissiblePreview(r, sel) <=>
                   /\ role = "owner" /\ now.admits /\ B = {}
                   /\ sel.provider = "zhipu"
                   /\ now.fits /\ now.priced /\ now.enabled /\ now.live
  OBVIOUS
<1> HIDE DEF r, B, all
<1>9. IsPreview(r)
  BY <1>0, <1>3, <1>5, <1>6, <1>7, <1>8 DEF IsPreview
<1>10. HasAdmissiblePreview(r, sel) <=>
          /\ role = "owner" /\ now.admits /\ B = {}
          /\ sel.provider = "zhipu"
          /\ now.fits /\ now.priced /\ now.enabled /\ now.live
  BY <1>0, <1>5, <1>7 DEF HasAdmissiblePreview
<1> QED
  BY <1>9, <1>10

LEMMA PreviewsAreCoherent ==
    ASSUME PaintAssumption, GInv PROVE PreviewsAreSound
<1>0. SourcesTyped /\ regions.version \in Nat
  BY TypesByPart, Bounds DEF GInv, SourcesTyped
<1>1. SourceReady <=> SourceBlockers([images |-> images, set |-> regions.version]) = {}
  <2> DEFINE sel == [images |-> images, set |-> regions.version]
  <2>1. sel.set \in 0..regions.version /\ sel.set = regions.version /\ sel.images = images
    BY <1>0
  <2> HIDE DEF sel
  <2>2. SourceReady <=> SourceBlockers(sel) = {}
    BY <2>1, NothingBlocksSources DEF SourceReady, RegionsStale
  <2> QED
    BY <2>2 DEF sel
<1>2. ASSUME NEW sel \in Selections, NEW role \in Roles, NEW now \in Circumstances
      PROVE  LET r == Preview(sel, role, now)
             IN  /\ IsPreview(r)
                 /\ HasAdmissiblePreview(r, sel) <=>
                       /\ role = "owner" /\ now.admits
                       /\ ImageSetReady /\ sel.images = images
                       /\ regions.lifecycle = "approved" /\ regions.of = images
                       /\ sel.set = regions.version
                       /\ \/ sel.provider = "fixture_local"
                          \/ /\ sel.provider = "zhipu"
                             /\ now.fits /\ now.priced /\ now.enabled /\ now.live
  <2>1. /\ sel.provider \in {"fixture_local", "zhipu", "openai"}
        /\ sel.set \in 0..regions.version /\ now.admits \in BOOLEAN
    BY DEF Selections, Circumstances
  <2>2. SourceBlockers(sel) = {} <=>
           /\ ImageSetReady /\ sel.images = images
           /\ regions.lifecycle = "approved" /\ regions.of = images
           /\ sel.set = regions.version
    BY <2>1, NothingBlocksSources
  <2>3. CASE sel.provider = "fixture_local"
    BY <2>1, <2>2, <2>3, PreviewsOfFixtures
  <2>4. CASE sel.provider \in {"zhipu", "openai"}
    BY <2>2, <2>4, PreviewsOfLiveCalls
  <2> QED
    BY <2>1, <2>3, <2>4
<1> QED
  BY <1>1, <1>2 DEF PreviewsAreSound

-----------------------------------------------------------------------------
(* The page accepts what the server says of every state, and the commands   *)
(* accept what the page then offers.                                        *)
THEOREM WorkbenchesAgree == Spec => []WorkbenchIsCoherent
<1>1. ASSUME GInv PROVE WorkbenchIsCoherent
  BY <1>1, PaintAssumption, RegionWorkbenchIsCoherent, PreviewsAreCoherent,
     PlanWorkbenchIsCoherent DEF WorkbenchIsCoherent, GInv
<1> QED
  BY <1>1, AlwaysGInv, PTL

-----------------------------------------------------------------------------
(* Induction over the natural numbers, from the well-foundedness of <: for  *)
(* sets of numbers, since a theorem about predicates cannot be instantiated. *)
LEMMA LeastNatural ==
    ASSUME NEW S \in SUBSET Nat, S # {}
    PROVE  \E n \in S : \A m \in S : n <= m
<1> DEFINE R == {p \in Nat \X Nat : p[1] < p[2]}
<1>1. IsWellFoundedOn(R, Nat)
  BY NatLessThanWellFounded DEF OpToRel
<1> HIDE DEF R
<1>2. PICK n \in S : \A m \in S : <<m, n>> \notin R
  BY <1>1, WFMin
<1>3. ASSUME NEW m \in S PROVE n <= m
  <2>1. m < n => <<m, n>> \in R
    BY DEF R
  <2> QED
    BY <1>2, <2>1
<1> QED
  BY <1>3

LEMMA CountUp ==
    ASSUME NEW S \in SUBSET Nat, 0 \in S, \A n \in S : n + 1 \in S
    PROVE  \A n \in Nat : n \in S
<1> SUFFICES ASSUME Nat \ S # {} PROVE FALSE
  OBVIOUS
<1>1. PICK n \in Nat \ S : \A m \in Nat \ S : n <= m
  BY LeastNatural
<1>2. n - 1 \in S
  BY <1>1
<1> QED
  BY <1>1, <1>2

-----------------------------------------------------------------------------
(* Statement by statement: the fold of a script.                            *)
Run(db, script) == FoldLeft(Execute, db, script)

IsFold(f, db, s, n) ==
    f = [T \in SUBSET (1..n) |->
            IF T = {} THEN db ELSE LET x == Max(T) IN Execute(f[T \ {x}], s[x])]

LEMMA MaxIs ==
    ASSUME NEW T \in SUBSET Int, NEW x \in T, \A y \in T : x >= y
    PROVE  Max(T) = x
<1>1. \A y \in T : (\A z \in T : y >= z) <=> y = x
  OBVIOUS
<1>2. x = CHOOSE y \in T : \A z \in T : y >= z
  BY <1>1
<1> QED
  BY <1>2 DEF Max

LEMMA FoldsExist ==
    ASSUME NEW db, NEW s
    PROVE  \A n \in Nat : \E f : IsFold(f, db, s, n)
<1> DEFINE N == {n \in Nat : \E f : IsFold(f, db, s, n)}
<1>1. 0 \in N
  <2> DEFINE f == [T \in SUBSET (1..0) |-> db]
  <2>1. \A T \in SUBSET (1..0) : T = {}
    OBVIOUS
  <2>2. IsFold(f, db, s, 0)
    BY <2>1 DEF IsFold
  <2> QED
    BY <2>2
<1>2. ASSUME NEW n \in N PROVE n + 1 \in N
  <2>1. PICK f : IsFold(f, db, s, n)
    OBVIOUS
  <2> DEFINE g == [T \in SUBSET (1..(n + 1)) |->
                      IF T = {} THEN db
                      ELSE IF n + 1 \in T THEN Execute(f[T \ {n + 1}], s[n + 1]) ELSE f[T]]
  <2>2. f[{}] = db
    BY <2>1 DEF IsFold
  <2>3. \A T \in SUBSET (1..n) : g[T] = f[T]
    <3>1. \A T \in SUBSET (1..n) : T \in SUBSET (1..(n + 1)) /\ n + 1 \notin T
      OBVIOUS
    <3> QED
      BY <2>2, <3>1
  <2>4. ASSUME NEW T \in SUBSET (1..(n + 1)), T # {}
        PROVE  g[T] = Execute(g[T \ {Max(T)}], s[Max(T)])
    <3>1. CASE n + 1 \in T
      <4>1. Max(T) = n + 1
        BY <3>1, MaxIs
      <4>2. T \ {n + 1} \in SUBSET (1..n)
        OBVIOUS
      <4> QED
        BY <2>3, <2>4, <3>1, <4>1, <4>2
    <3>2. CASE n + 1 \notin T
      <4>1. T \in SUBSET (1..n) /\ T \ {Max(T)} \in SUBSET (1..n)
        <5>1. \A i \in T : i \in 1..n
          BY <3>2
        <5> QED
          BY <5>1
      <4>2. f[T] = Execute(f[T \ {Max(T)}], s[Max(T)])
        BY <2>1, <2>4, <4>1 DEF IsFold
      <4> QED
        BY <2>3, <4>1, <4>2
    <3> QED
      BY <3>1, <3>2
  <2>5. g[{}] = db
    OBVIOUS
  <2>6. IsFold(g, db, s, n + 1)
    <3>1. g = [T \in SUBSET (1..(n + 1)) |-> g[T]]
      OBVIOUS
    <3> HIDE DEF g
    <3> QED
      BY <2>4, <2>5, <3>1 DEF IsFold
  <2> QED
    BY <2>6
<1> HIDE DEF N
<1>3. \A n \in Nat : n \in N
  BY <1>1, <1>2, CountUp DEF N
<1> QED
  BY <1>3 DEF N

LEMMA FoldOfScript ==
    ASSUME NEW db, NEW S, NEW s \in Seq(S)
    PROVE  \E f : IsFold(f, db, s, Len(s)) /\ Run(db, s) = f[1..Len(s)]
<1> DEFINE f == CHOOSE h : IsFold(h, db, s, Len(s))
<1>1. IsFold(f, db, s, Len(s))
  BY FoldsExist
<1>2. DOMAIN s = 1..Len(s)
  OBVIOUS
<1>3. Run(db, s) = f[DOMAIN s]
  BY <1>2 DEF Run, FoldLeft, MapThenFoldSet, IsFold
<1> QED
  BY <1>1, <1>2, <1>3

LEMMA FoldOfPrefix ==
    ASSUME NEW db, NEW s, NEW n \in Nat, NEW f, IsFold(f, db, s, n), NEW k \in Nat, k < n
    PROVE  /\ f[1..0] = db
           /\ f[1..(k + 1)] = Execute(f[1..k], s[k + 1])
<1>1. 1..0 = {} /\ {} \in SUBSET (1..n)
  OBVIOUS
<1>2. f[1..0] = db
  BY <1>1 DEF IsFold
<1>3. 1..(k + 1) \in SUBSET (1..n) /\ 1..(k + 1) # {} /\ (1..(k + 1)) \ {k + 1} = 1..k
  OBVIOUS
<1>4. 1..(k + 1) \in SUBSET Int /\ k + 1 \in 1..(k + 1) /\ \A y \in 1..(k + 1) : k + 1 >= y
  OBVIOUS
<1>5. Max(1..(k + 1)) = k + 1
  BY <1>4, MaxIs
<1> QED
  BY <1>2, <1>3, <1>5 DEF IsFold

LEMMA RunEmpty == ASSUME NEW db PROVE Run(db, <<>>) = db
<1>1. <<>> \in Seq({}) /\ Len(<<>>) = 0
  OBVIOUS
<1>2. PICK f : IsFold(f, db, <<>>, 0) /\ Run(db, <<>>) = f[1..0]
  BY <1>1, FoldOfScript
<1>3. 1..0 = {} /\ {} \in SUBSET (1..0)
  OBVIOUS
<1> QED
  BY <1>2, <1>3 DEF IsFold

LEMMA RunAppend ==
    ASSUME NEW db, NEW S, NEW s \in Seq(S), NEW e \in S
    PROVE  Run(db, Append(s, e)) = Execute(Run(db, s), e)
<1> DEFINE n == Len(s)
           t == Append(s, e)
<1>1. /\ n \in Nat /\ t \in Seq(S) /\ Len(t) = n + 1 /\ t[n + 1] = e
      /\ \A i \in 1..n : t[i] = s[i]
  OBVIOUS
<1>2. PICK f : IsFold(f, db, s, n) /\ Run(db, s) = f[1..n]
  BY FoldOfScript
<1>3. PICK g : IsFold(g, db, t, n + 1) /\ Run(db, t) = g[1..(n + 1)]
  BY <1>1, FoldOfScript
<1> DEFINE K == {k \in Nat : k <= n => g[1..k] = f[1..k]}
<1> HIDE DEF t, n
<1>4. 0 \in K
  <2>1. f[{}] = db /\ g[{}] = db
    BY <1>2, <1>3 DEF IsFold
  <2> QED
    BY <2>1
<1>5. ASSUME NEW k \in K PROVE k + 1 \in K
  <2> SUFFICES ASSUME k + 1 <= n PROVE g[1..(k + 1)] = f[1..(k + 1)]
    OBVIOUS
  <2>0. k \in Nat /\ k < n /\ k < n + 1 /\ n + 1 \in Nat /\ k + 1 \in 1..n
    BY <1>1
  <2>1. f[1..(k + 1)] = Execute(f[1..k], s[k + 1])
    BY <1>1, <1>2, <2>0, FoldOfPrefix
  <2>2. g[1..(k + 1)] = Execute(g[1..k], t[k + 1])
    BY <1>3, <2>0, FoldOfPrefix
  <2>3. g[1..k] = f[1..k] /\ t[k + 1] = s[k + 1]
    BY <1>1, <2>0
  <2> QED
    BY <2>1, <2>2, <2>3
<1> HIDE DEF K
<1>6. n \in K
  BY <1>1, <1>4, <1>5, CountUp DEF K
<1>7. g[1..(n + 1)] = Execute(g[1..n], e)
  BY <1>1, <1>3, FoldOfPrefix
<1> QED
  BY <1>1, <1>2, <1>3, <1>6, <1>7 DEF K, t

LEMMA RunConcat ==
    ASSUME NEW db, NEW S, NEW s \in Seq(S), NEW t \in Seq(S)
    PROVE  Run(db, s \o t) = Run(Run(db, s), t)
<1> DEFINE K == {k \in Nat : \A u \in Seq(S) : Len(u) = k => Run(db, s \o u) = Run(Run(db, s), u)}
<1>1. 0 \in K
  <2>1. ASSUME NEW u \in Seq(S), Len(u) = 0 PROVE u = <<>> /\ s \o u = s
    BY <2>1
  <2> QED
    BY <2>1, RunEmpty
<1>2. ASSUME NEW k \in K PROVE k + 1 \in K
  <2> SUFFICES ASSUME NEW u \in Seq(S), Len(u) = k + 1
               PROVE  Run(db, s \o u) = Run(Run(db, s), u)
    OBVIOUS
  <2>1. u # <<>>
    OBVIOUS
  <2>2. PICK v \in Seq(S), e \in S : u = Append(v, e)
    BY <2>1, SequenceEmptyOrAppend
  <2>3. Len(v) = k
    BY <2>2
  <2>4. s \o v \in Seq(S) /\ s \o u = Append(s \o v, e)
    BY <2>2
  <2>5. Run(db, s \o v) = Run(Run(db, s), v)
    BY <2>3
  <2>6. Run(db, Append(s \o v, e)) = Execute(Run(db, s \o v), e)
    <3>1. \A w \in Seq(S) : Run(db, Append(w, e)) = Execute(Run(db, w), e)
      BY <2>2, RunAppend
    <3> QED
      BY <2>4, <3>1
  <2>7. Run(Run(db, s), Append(v, e)) = Execute(Run(Run(db, s), v), e)
    BY RunAppend
  <2> QED
    BY <2>2, <2>4, <2>5, <2>6, <2>7
<1> HIDE DEF K
<1>3. Len(t) \in Nat /\ K \in SUBSET Nat
  BY DEF K
<1>4. Len(t) \in K
  BY <1>1, <1>2, <1>3, CountUp
<1> QED
  BY <1>4 DEF K

-----------------------------------------------------------------------------
(* The scripts that are joined into one.                                    *)
Joins(f, ss, n) == f = [i \in 1..n |-> IF i = 1 THEN ss[i] ELSE f[i - 1] \o ss[i]]

LEMMA JoinsExist ==
    ASSUME NEW ss
    PROVE  \A n \in Nat : \E f : Joins(f, ss, n)
<1> DEFINE N == {n \in Nat : \E f : Joins(f, ss, n)}
<1>1. 0 \in N
  <2> DEFINE f == [i \in 1..0 |-> ss[i]]
  <2>1. Joins(f, ss, 0)
    BY DEF Joins
  <2> QED
    BY <2>1
<1>2. ASSUME NEW n \in N PROVE n + 1 \in N
  <2>1. PICK f : Joins(f, ss, n)
    OBVIOUS
  <2> DEFINE g == [i \in 1..(n + 1) |->
                      IF i = n + 1 THEN IF n = 0 THEN ss[i] ELSE f[n] \o ss[i] ELSE f[i]]
  <2>2. ASSUME NEW i \in 1..(n + 1)
        PROVE  g[i] = IF i = 1 THEN ss[i] ELSE g[i - 1] \o ss[i]
    <3>1. CASE i = n + 1
      BY <3>1
    <3>2. CASE i # n + 1
      <4>1. i \in 1..n /\ (i # 1 => i - 1 \in 1..n)
        BY <3>2
      <4>2. f[i] = IF i = 1 THEN ss[i] ELSE f[i - 1] \o ss[i]
        BY <2>1, <4>1 DEF Joins
      <4>3. g[i] = f[i] /\ (i # 1 => g[i - 1] = f[i - 1])
        BY <4>1
      <4> QED
        BY <4>2, <4>3
    <3> QED
      BY <3>1, <3>2
  <2>3. Joins(g, ss, n + 1)
    <3>1. g = [i \in 1..(n + 1) |-> g[i]]
      OBVIOUS
    <3> HIDE DEF g
    <3> QED
      BY <2>2, <3>1 DEF Joins
  <2> QED
    BY <2>3
<1> HIDE DEF N
<1>3. \A n \in Nat : n \in N
  BY <1>1, <1>2, CountUp DEF N
<1> QED
  BY <1>3 DEF N

LEMMA FlattenIs ==
    ASSUME NEW S, NEW ss \in Seq(S), Len(ss) > 0
    PROVE  \E f : Joins(f, ss, Len(ss)) /\ FlattenSeq(ss) = f[Len(ss)]
<1> DEFINE f == CHOOSE h : Joins(h, ss, Len(ss))
<1>0. Len(ss) \in Nat
  OBVIOUS
<1>1. Joins(f, ss, Len(ss))
  BY <1>0, JoinsExist
<1>2. FlattenSeq(ss) = f[Len(ss)]
  BY DEF FlattenSeq, Joins
<1> QED
  BY <1>1, <1>2

LEMMA FlattenFew ==
    /\ FlattenSeq(<<>>) = <<>>
    /\ \A s : FlattenSeq(<<s>>) = s
    /\ \A s, t : FlattenSeq(<<s, t>>) = s \o t
<1>1. FlattenSeq(<<>>) = <<>>
  BY DEF FlattenSeq
<1>2. ASSUME NEW s PROVE FlattenSeq(<<s>>) = s
  <2>1. PICK f : Joins(f, <<s>>, 1) /\ FlattenSeq(<<s>>) = f[1]
    <3> DEFINE ss == <<s>>
    <3>1. ss \in Seq({s}) /\ Len(ss) = 1 /\ 1 > 0
      OBVIOUS
    <3> HIDE DEF ss
    <3>2. \E f : Joins(f, ss, 1) /\ FlattenSeq(ss) = f[1]
      BY <3>1, FlattenIs
    <3> QED
      BY <3>2 DEF ss
  <2> QED
    BY <2>1 DEF Joins
<1>3. ASSUME NEW s, NEW t PROVE FlattenSeq(<<s, t>>) = s \o t
  <2>1. PICK f : Joins(f, <<s, t>>, 2) /\ FlattenSeq(<<s, t>>) = f[2]
    <3> DEFINE ss == <<s, t>>
    <3>1. ss \in Seq({s, t}) /\ Len(ss) = 2 /\ 2 > 0
      OBVIOUS
    <3> HIDE DEF ss
    <3>2. \E f : Joins(f, ss, 2) /\ FlattenSeq(ss) = f[2]
      BY <3>1, FlattenIs
    <3> QED
      BY <3>2 DEF ss
  <2>2. f[1] = s /\ f[2] = f[1] \o t
    BY <2>1 DEF Joins
  <2> QED
    BY <2>1, <2>2
<1> QED
  BY <1>1, <1>2, <1>3

LEMMA RunOne == ASSUME NEW db, NEW a PROVE Run(db, <<a>>) = Execute(db, a)
<1> DEFINE S == {a}
           s == <<>>
<1>1. s \in Seq(S) /\ <<a>> = Append(s, a) /\ a \in S
  OBVIOUS
<1> HIDE DEF S, s
<1>2. Run(db, Append(s, a)) = Execute(Run(db, s), a)
  BY <1>1, RunAppend
<1> QED
  BY <1>1, <1>2, RunEmpty DEF s

LEMMA RunTwo ==
    ASSUME NEW db, NEW a, NEW b
    PROVE  Run(db, <<a, b>>) = Execute(Execute(db, a), b)
<1> DEFINE S == {a, b}
           s == <<a>>
<1>1. s \in Seq(S) /\ <<a, b>> = Append(s, b) /\ b \in S
  OBVIOUS
<1> HIDE DEF S, s
<1>2. Run(db, Append(s, b)) = Execute(Run(db, s), b)
  BY <1>1, RunAppend
<1> QED
  BY <1>1, <1>2, RunOne DEF s

LEMMA RunThree ==
    ASSUME NEW db, NEW a, NEW b, NEW c
    PROVE  Run(db, <<a, b, c>>) = Execute(Execute(Execute(db, a), b), c)
<1> DEFINE S == {a, b, c}
           s == <<a, b>>
<1>1. s \in Seq(S) /\ <<a, b, c>> = Append(s, c) /\ c \in S
  OBVIOUS
<1> HIDE DEF S, s
<1>2. Run(db, Append(s, c)) = Execute(Run(db, s), c)
  BY <1>1, RunAppend
<1>3. Run(db, s) = Execute(Execute(db, a), b)
  BY RunTwo DEF s
<1> QED
  BY <1>1, <1>2, <1>3

LEMMA TransactIs ==
    ASSUME NEW db, NEW S, NEW s \in Seq(S)
    PROVE  Transact(db, s) = Execute(Run(db, s), Commit)
<1>1. s \in Seq(S \cup {Commit})
  BY SeqMonotonic
<1>2. Run(db, Append(s, Commit)) = Execute(Run(db, s), Commit)
  <2>1. Commit \in S \cup {Commit}
    OBVIOUS
  <2> QED
    BY <1>1, <2>1, RunAppend
<1> QED
  BY <1>2 DEF Transact, Run

-----------------------------------------------------------------------------
(* What each statement does when it is accepted.                            *)
LEMMA InsertAccepted ==
    ASSUME NEW db, db.accepted, NEW v, NEW row, MayInsert(db, v, row)
    PROVE  Execute(db, Insert(v, row)) =
              [db EXCEPT !.rows = Plus(db.rows, v, row), !.events = Plus(db.events, v, <<>>),
                         !.uncounted = db.uncounted \cup {v}]
  BY DEF Execute, Insert

LEMMA UpdateAccepted ==
    ASSUME NEW db, db.accepted, NEW v, NEW l, MayUpdatePlan(db.rows[v].lifecycle, l)
    PROVE  Execute(db, Update(v, l)) =
              [db EXCEPT !.rows[v].lifecycle = l,
                         !.pending = db.pending \cup {[plan |-> v, lifecycle |-> l]}]
  BY DEF Execute, Update

LEMMA RecordAccepted ==
    ASSUME NEW db, db.accepted, NEW v, NEW a,
           MayRecord(db.events[v], a), EventIndexes(db.events[v], a)
    PROVE  Execute(db, Record(v, a)) =
              [db EXCEPT !.events[v] = Append(db.events[v], a),
                         !.pending = db.pending
                             \cup {[plan |-> v, lifecycle |-> LifecycleOf(a)]}]
  BY DEF Execute, Record

LEMMA InstructAccepted ==
    ASSUME NEW db, db.accepted, NEW v \in DOMAIN db.rows
    PROVE  Execute(db, Instruct(v)) =
              [db EXCEPT !.instructed = db.instructed \cup {v},
                         !.uncounted = db.uncounted \cup {v}]
  BY DEF Execute, Instruct

LEMMA CheckAccepted ==
    ASSUME NEW db, db.accepted, Consistent(db)
    PROVE  Execute(db, Check) = [db EXCEPT !.pending = {}]
  BY DEF Execute, Check

LEMMA CommitAccepted ==
    ASSUME NEW db, db.accepted, Consistent(db), Covered(db)
    PROVE  Execute(db, Commit) = [db EXCEPT !.pending = {}, !.uncounted = {}]
  BY DEF Execute, Commit

-----------------------------------------------------------------------------
(* What each statement makes of tables that have accepted all before it.    *)
Db(rows, events, A, U, P) ==
    [rows |-> rows, events |-> events, instructed |-> A, uncounted |-> U,
     pending |-> P, accepted |-> TRUE]

LEMMA TablesAre ==
    ASSUME NEW n
    PROVE  Tables(n) = Db([v \in 1..n |-> PlanRow(v)], [v \in 1..n |-> plans[v].reviews],
                          1..n, {}, {})
  BY DEF Tables, Db

LEMMA FieldsOfDb ==
    ASSUME NEW rows, NEW events, NEW A, NEW U, NEW P
    PROVE  LET db == Db(rows, events, A, U, P)
           IN  /\ db.rows = rows /\ db.events = events /\ db.instructed = A
               /\ db.uncounted = U /\ db.pending = P /\ db.accepted
  BY DEF Db

LEMMA InsertInto ==
    ASSUME NEW rows, NEW events, NEW A, NEW U, NEW P, NEW v, NEW row,
           MayInsert(Db(rows, events, A, U, P), v, row)
    PROVE  Execute(Db(rows, events, A, U, P), Insert(v, row)) =
              Db(Plus(rows, v, row), Plus(events, v, <<>>), A, U \cup {v}, P)
<1> DEFINE db == Db(rows, events, A, U, P)
<1>1. Execute(db, Insert(v, row)) =
         [db EXCEPT !.rows = Plus(rows, v, row), !.events = Plus(events, v, <<>>),
                    !.uncounted = U \cup {v}]
  <2>1. /\ db.rows = rows /\ db.events = events /\ db.uncounted = U /\ db.accepted
        /\ MayInsert(db, v, row)
    BY FieldsOfDb
  <2> HIDE DEF db
  <2>2. Execute(db, Insert(v, row)) =
           [db EXCEPT !.rows = Plus(db.rows, v, row), !.events = Plus(db.events, v, <<>>),
                      !.uncounted = db.uncounted \cup {v}]
    BY <2>1, InsertAccepted
  <2> QED
    BY <2>1, <2>2
<1> QED
  BY <1>1, Zenon DEF Db

LEMMA InstructInto ==
    ASSUME NEW rows, NEW events, NEW A, NEW U, NEW P, NEW v \in DOMAIN rows
    PROVE  Execute(Db(rows, events, A, U, P), Instruct(v)) =
              Db(rows, events, A \cup {v}, U \cup {v}, P)
<1> DEFINE db == Db(rows, events, A, U, P)
<1>1. Execute(db, Instruct(v)) =
         [db EXCEPT !.instructed = A \cup {v}, !.uncounted = U \cup {v}]
  <2>1. db.rows = rows /\ db.instructed = A /\ db.uncounted = U /\ db.accepted
    BY FieldsOfDb
  <2> HIDE DEF db
  <2> QED
    BY <2>1, InstructAccepted
<1> QED
  BY <1>1, Zenon DEF Db

LEMMA UpdateInto ==
    ASSUME NEW rows, NEW events, NEW A, NEW U, NEW P, NEW v, NEW l,
           MayUpdatePlan(rows[v].lifecycle, l)
    PROVE  Execute(Db(rows, events, A, U, P), Update(v, l)) =
              Db([rows EXCEPT ![v].lifecycle = l], events, A, U,
                 P \cup {[plan |-> v, lifecycle |-> l]})
<1> DEFINE db == Db(rows, events, A, U, P)
<1>1. Execute(db, Update(v, l)) =
         [db EXCEPT !.rows = [rows EXCEPT ![v].lifecycle = l],
                    !.pending = P \cup {[plan |-> v, lifecycle |-> l]}]
  <2>1. db.rows = rows /\ db.pending = P /\ db.accepted
    BY FieldsOfDb
  <2> HIDE DEF db
  <2>2. Execute(db, Update(v, l)) =
           [db EXCEPT !.rows[v].lifecycle = l,
                      !.pending = db.pending \cup {[plan |-> v, lifecycle |-> l]}]
    BY <2>1, UpdateAccepted
  <2> QED
    BY <2>1, <2>2
<1> QED
  BY <1>1, Zenon DEF Db

LEMMA RecordInto ==
    ASSUME NEW rows, NEW events, NEW A, NEW U, NEW P, NEW v, NEW a,
           MayRecord(events[v], a), EventIndexes(events[v], a)
    PROVE  Execute(Db(rows, events, A, U, P), Record(v, a)) =
              Db(rows, [events EXCEPT ![v] = Append(events[v], a)], A, U,
                 P \cup {[plan |-> v, lifecycle |-> LifecycleOf(a)]})
<1> DEFINE db == Db(rows, events, A, U, P)
<1>1. Execute(db, Record(v, a)) =
         [db EXCEPT !.events = [events EXCEPT ![v] = Append(events[v], a)],
                    !.pending = P \cup {[plan |-> v, lifecycle |-> LifecycleOf(a)]}]
  <2>1. db.events = events /\ db.pending = P /\ db.accepted
    BY FieldsOfDb
  <2> HIDE DEF db
  <2>2. Execute(db, Record(v, a)) =
           [db EXCEPT !.events[v] = Append(db.events[v], a),
                      !.pending = db.pending
                             \cup {[plan |-> v, lifecycle |-> LifecycleOf(a)]}]
    BY <2>1, RecordAccepted
  <2> QED
    BY <2>1, <2>2
<1> QED
  BY <1>1, Zenon DEF Db

LEMMA CommitDb ==
    ASSUME NEW rows, NEW events, NEW A, NEW U \in SUBSET A, NEW P,
           \A p \in P : Agrees(Db(rows, events, A, U, P), p.plan, p.lifecycle)
    PROVE  Execute(Db(rows, events, A, U, P), Commit) = Db(rows, events, A, {}, {})
<1> DEFINE db == Db(rows, events, A, U, P)
<1>1. Execute(db, Commit) = [db EXCEPT !.pending = {}, !.uncounted = {}]
  <2>1. /\ db.uncounted = U /\ db.instructed = A /\ db.pending = P /\ db.accepted
        /\ \A p \in P : Agrees(db, p.plan, p.lifecycle)
    BY FieldsOfDb
  <2> HIDE DEF db
  <2>2. Consistent(db) /\ Covered(db)
    BY <2>1 DEF Consistent, Covered
  <2> QED
    BY <2>1, <2>2, CommitAccepted
<1> QED
  BY <1>1, Zenon DEF Db

-----------------------------------------------------------------------------
(* What the restore replays.                                                *)
RowAs(v, l) == [PlanRow(v) EXCEPT !.lifecycle = l]

Fresh(v) == IF plans[v].kind = "edited" THEN "edited" ELSE "generated"

Statements ==
    {Insert(v, RowAs(v, Fresh(v))) : v \in Nat}
        \cup [op : {"update"}, plan : Nat,
              lifecycle : {"under_review", "decided", "superseded"}]
        \cup [op : {"record"}, plan : Nat, action : {"submit", "decide"}]
        \cup [op : {"instruct"}, plan : Nat] \cup {Check}

LEMMA StatementsOfPlans ==
    ASSUME NEW v \in Nat, NEW a \in {"submit", "decide"}
    PROVE  /\ Insert(v, RowAs(v, Fresh(v))) \in Statements
           /\ Update(v, LifecycleOf(a)) \in Statements
           /\ Update(v, "superseded") \in Statements
           /\ Record(v, a) \in Statements
           /\ Instruct(v) \in Statements /\ Check \in Statements
  BY DEF Statements, Update, Record, Instruct, LifecycleOf

(* The tables in the middle of a restore: the first plans, the last of them *)
(* with lifecycle l and events e, and the judgements still pending.         *)
Half(v, l, e, P) ==
    Db([w \in 1..v |-> IF w = v THEN RowAs(v, l) ELSE PlanRow(w)],
       [w \in 1..v |-> IF w = v THEN e ELSE plans[w].reviews], {}, 1..v, P)

Whole(v, P) == Db([w \in 1..v |-> PlanRow(w)], [w \in 1..v |-> plans[w].reviews], {}, 1..v, P)

Superseded(w) == [plan |-> w, lifecycle |-> "superseded"]

(* The only judgements pending are that superseded plans have successors.   *)
Successions(P, v) == \A e \in P : \E w \in 1..v : e = Superseded(w)

LEMMA RowsOfPlans ==
    ASSUME NEW v, NEW l, NEW m
    PROVE  /\ PlanRow(v).lifecycle = plans[v].lifecycle
           /\ PlanRow(v).parent = plans[v].parent /\ PlanRow(v).kind = plans[v].kind
           /\ PlanRow(v).lineage = plans[v].lineage /\ PlanRow(v).revision = plans[v].revision
           /\ PlanRow(v).key = plans[v].key /\ PlanRow(v).source = plans[v].source
           /\ RowAs(v, l).lifecycle = l
           /\ RowAs(v, l).parent = plans[v].parent /\ RowAs(v, l).kind = plans[v].kind
           /\ RowAs(v, l).lineage = plans[v].lineage /\ RowAs(v, l).revision = plans[v].revision
           /\ RowAs(v, l).key = plans[v].key /\ RowAs(v, l).source = plans[v].source
           /\ [RowAs(v, l) EXCEPT !.lifecycle = m] = RowAs(v, m)
           /\ RowAs(v, plans[v].lifecycle) = PlanRow(v)
  BY DEF RowAs, PlanRow, Columns

LEMMA HalfIsWhole ==
    ASSUME NEW v, NEW P
    PROVE  Half(v, plans[v].lifecycle, plans[v].reviews, P) = Whole(v, P)
<1>1. RowAs(v, plans[v].lifecycle) = PlanRow(v)
  BY RowsOfPlans
<1> QED
  BY <1>1 DEF Half, Whole

LEMMA UpdateHalf ==
    ASSUME NEW v \in Nat \ {0}, NEW l, NEW e, NEW P, NEW m, MayUpdatePlan(l, m)
    PROVE  Execute(Half(v, l, e, P), Update(v, m)) =
              Half(v, m, e, P \cup {[plan |-> v, lifecycle |-> m]})
<1> DEFINE rows == [w \in 1..v |-> IF w = v THEN RowAs(v, l) ELSE PlanRow(w)]
<1>1. v \in 1..v /\ rows[v] = RowAs(v, l)
  OBVIOUS
<1>2. rows[v].lifecycle = l
  BY <1>1, RowsOfPlans
<1>3. [rows EXCEPT ![v].lifecycle = m] =
         [w \in 1..v |-> IF w = v THEN RowAs(v, m) ELSE PlanRow(w)]
  <2>1. [rows[v] EXCEPT !.lifecycle = m] = RowAs(v, m)
    BY <1>1, RowsOfPlans
  <2>2. [rows EXCEPT ![v].lifecycle = m] =
           [rows EXCEPT ![v] = [rows[v] EXCEPT !.lifecycle = m]]
    OBVIOUS
  <2>3. [rows EXCEPT ![v] = RowAs(v, m)] =
           [w \in 1..v |-> IF w = v THEN RowAs(v, m) ELSE PlanRow(w)]
    BY <1>1
  <2> QED
    BY <2>1, <2>2, <2>3
<1> DEFINE events == [w \in 1..v |-> IF w = v THEN e ELSE plans[w].reviews]
<1>4. Half(v, l, e, P) = Db(rows, events, {}, 1..v, P)
  BY DEF Half
<1> HIDE DEF rows, events
<1>5. Execute(Db(rows, events, {}, 1..v, P), Update(v, m)) =
         Db([rows EXCEPT ![v].lifecycle = m], events, {}, 1..v,
            P \cup {[plan |-> v, lifecycle |-> m]})
  BY <1>2, UpdateInto
<1> QED
  BY <1>3, <1>4, <1>5 DEF Half, events

LEMMA RecordHalf ==
    ASSUME NEW v \in Nat \ {0}, NEW l, NEW e, NEW P, NEW a,
           MayRecord(e, a), EventIndexes(e, a)
    PROVE  Execute(Half(v, l, e, P), Record(v, a)) =
              Half(v, l, Append(e, a), P \cup {[plan |-> v, lifecycle |-> LifecycleOf(a)]})
<1> DEFINE events == [w \in 1..v |-> IF w = v THEN e ELSE plans[w].reviews]
<1>1. v \in 1..v /\ events[v] = e
  OBVIOUS
<1>2. [events EXCEPT ![v] = Append(e, a)] =
         [w \in 1..v |-> IF w = v THEN Append(e, a) ELSE plans[w].reviews]
  BY <1>1
<1> DEFINE rows == [w \in 1..v |-> IF w = v THEN RowAs(v, l) ELSE PlanRow(w)]
<1>3. Half(v, l, e, P) = Db(rows, events, {}, 1..v, P)
  BY DEF Half
<1> HIDE DEF rows, events
<1>4. Execute(Db(rows, events, {}, 1..v, P), Record(v, a)) =
         Db(rows, [events EXCEPT ![v] = Append(events[v], a)], {}, 1..v,
            P \cup {[plan |-> v, lifecycle |-> LifecycleOf(a)]})
  BY <1>1, RecordInto
<1> QED
  BY <1>1, <1>2, <1>3, <1>4 DEF Half, rows

LEMMA PlansOfLine ==
    ASSUME PaintAssumption, GInv
    PROVE  /\ Len(plans) \in Nat /\ DOMAIN plans = 1..Len(plans)
           /\ \A v \in 1..Len(plans) :
                 /\ plans[v].parent = v - 1
                 /\ plans[v].lifecycle = "superseded" <=> v < Len(plans)
                 /\ plans[v].kind = "generated" <=> v = 1
                 /\ plans[v].lifecycle # "superseded" =>
                       plans[v].reviews = LatestReviewOf[plans[v].lifecycle]
                 /\ plans[v].reviews \in {<<>>, <<"submit">>, <<"submit", "decide">>}
                 /\ plans[v].kind \in {"generated", "edited", "regenerated"}
                 /\ plans[v].lifecycle \in {"generated", "edited", "under_review", "decided",
                                            "superseded"}
<1>1. PlansTyped /\ PlansAreLinear /\ LineagesGrow
  BY TypesByPart DEF GInv
<1>2. Len(plans) \in Nat /\ DOMAIN plans = 1..Len(plans)
  BY <1>1 DEF PlansTyped
<1>3. ASSUME NEW v \in 1..Len(plans) PROVE plans[v] \in Plans
  BY <1>1, <1>2, EachPlanIsTyped
<1> QED
  BY <1>1, <1>2, <1>3 DEF PlansAreLinear, LineagesGrow, Plans

(* The version of a plan is its place in its lineage, counted from the      *)
(* plan that began it.                                                      *)
LEMMA PlacesInLineages ==
    ASSUME PaintAssumption, GInv
    PROVE  \A v \in 1..Len(plans) : v = plans[v].lineage + plans[v].revision - 1
<1>1. PlansTyped /\ LineagesGrow /\ Len(plans) \in Nat /\ DOMAIN plans = 1..Len(plans)
  BY TypesByPart, PlansOfLine DEF GInv
<1>2. \A v \in 1..Len(plans) : plans[v].lineage \in Nat /\ plans[v].revision \in Nat
  BY <1>1, EachPlanIsTyped, Bounds
<1> DEFINE N == {v \in Nat : v \in 1..Len(plans) => v = plans[v].lineage + plans[v].revision - 1}
<1>3. 0 \in N
  BY <1>1
<1>4. ASSUME NEW v \in N PROVE v + 1 \in N
  <2> SUFFICES ASSUME v + 1 \in 1..Len(plans)
               PROVE  v + 1 = plans[v + 1].lineage + plans[v + 1].revision - 1
    OBVIOUS
  <2>1. CASE plans[v + 1].kind # "edited"
    BY <1>1, <2>1 DEF LineagesGrow
  <2>2. CASE plans[v + 1].kind = "edited"
    <3>1. /\ v \in 1..Len(plans) /\ (v + 1) - 1 = v
          /\ plans[v + 1].lineage = plans[v].lineage
          /\ plans[v + 1].revision = plans[v].revision + 1
      BY <1>1, <2>2 DEF LineagesGrow
    <3>2. v = plans[v].lineage + plans[v].revision - 1
      BY <3>1
    <3> DEFINE i == plans[v].lineage
               j == plans[v].revision
    <3>3. i \in Nat /\ j \in Nat /\ v \in Nat
      BY <1>2, <3>1
    <3>4. v = i + j - 1 /\ plans[v + 1].lineage = i /\ plans[v + 1].revision = j + 1
      BY <3>1, <3>2
    <3> HIDE DEF i, j
    <3> QED
      BY <3>3, <3>4
  <2> QED
    BY <2>1, <2>2
<1> HIDE DEF N
<1>5. \A v \in Nat : v \in N
  <2>1. N \in SUBSET Nat
    BY DEF N
  <2> QED
    BY <1>3, <1>4, <2>1, CountUp
<1> QED
  BY <1>5 DEF N

LEMMA SuccessionsHold ==
    ASSUME PaintAssumption, GInv, NEW v \in 1..Len(plans), NEW l, NEW e, NEW P, NEW Q,
           Successions(P, v - 1),
           \A q \in Q : Agrees(Half(v, l, e, P \cup Q), q.plan, q.lifecycle)
    PROVE  Consistent(Half(v, l, e, P \cup Q))
<1> DEFINE db == Half(v, l, e, P \cup Q)
<1>1. db.pending = P \cup Q /\ DOMAIN db.rows = 1..v
  BY FieldsOfDb DEF Half
<1>2. ASSUME NEW w \in 1..v PROVE db.rows[w].parent = w - 1
  <2>1. db.rows[w] = IF w = v THEN RowAs(v, l) ELSE PlanRow(w)
    BY FieldsOfDb DEF Half
  <2>2. plans[w].parent = w - 1
    <3>1. w \in 1..Len(plans)
      BY PlansOfLine
    <3> QED
      BY <3>1, PlansOfLine
  <2>3. PlanRow(w).parent = plans[w].parent /\ RowAs(w, l).parent = plans[w].parent
    BY RowsOfPlans
  <2> QED
    BY <2>1, <2>2, <2>3
<1> HIDE DEF db
<1>3. ASSUME NEW p \in P PROVE Agrees(db, p.plan, p.lifecycle)
  <2>1. PICK w \in 1..(v - 1) : p = Superseded(w)
    BY DEF Successions
  <2>2. p.plan = w /\ p.lifecycle = "superseded"
    BY <2>1 DEF Superseded
  <2>3. w + 1 \in 1..v /\ (w + 1) - 1 = w
    OBVIOUS
  <2>4. db.rows[w + 1].parent = w
    BY <1>2, <2>3
  <2> QED
    BY <1>1, <2>2, <2>3, <2>4 DEF Agrees
<1> QED
  BY <1>1, <1>3 DEF Consistent, db

(* One event of a plan is replayed: recorded, followed by its lifecycle and *)
(* judged together with it.                                                 *)
LEMMA EventIsReplayed ==
    ASSUME PaintAssumption, GInv, NEW v \in 1..Len(plans), NEW l, NEW e, NEW P,
           Successions(P, v - 1), NEW a \in {"submit", "decide"},
           \/ a = "submit" /\ l \in {"generated", "edited"} /\ e = <<>>
           \/ a = "decide" /\ l = "under_review" /\ e = <<"submit">>
    PROVE  Run(Half(v, l, e, P), Replay(v, a)) = Half(v, LifecycleOf(a), Append(e, a), {})
<1> DEFINE m == LifecycleOf(a)
           judged == [plan |-> v, lifecycle |-> m]
<1>0. v \in Nat \ {0}
  BY PlansOfLine
<1>1. MayRecord(e, a) /\ EventIndexes(e, a)
  BY DEF MayRecord, EventIndexes, Contains
<1>2. MayUpdatePlan(l, m)
  BY DEF MayUpdatePlan, LifecycleOf
<1>3. Contains(Append(e, a), a)
  BY DEF Contains
<1>4. Execute(Half(v, l, e, P), Record(v, a)) = Half(v, l, Append(e, a), P \cup {judged})
  BY <1>0, <1>1, RecordHalf
<1>5. Execute(Half(v, l, Append(e, a), P \cup {judged}), Update(v, m)) =
         Half(v, m, Append(e, a), P \cup {judged})
  <2>1. (P \cup {judged}) \cup {judged} = P \cup {judged}
    OBVIOUS
  <2> HIDE DEF m
  <2> QED
    BY <1>0, <1>2, <2>1, UpdateHalf
<1> DEFINE last == Half(v, m, Append(e, a), P \cup {judged})
<1>6. Agrees(last, v, m)
  <2>1. v \in 1..v
    BY <1>0
  <2>2. last.rows[v] = RowAs(v, m) /\ last.events[v] = Append(e, a)
    <3>1. /\ last.rows = [w \in 1..v |-> IF w = v THEN RowAs(v, m) ELSE PlanRow(w)]
          /\ last.events = [w \in 1..v |-> IF w = v THEN Append(e, a) ELSE plans[w].reviews]
      BY FieldsOfDb DEF Half
    <3> QED
      BY <2>1, <3>1
  <2>3. m # "superseded" /\ ActionOf[m] = a
    BY DEF LifecycleOf, ActionOf
  <2>4. last.rows[v].lifecycle = m
    BY <2>2, RowsOfPlans
  <2> HIDE DEF last, m
  <2> QED
    BY <1>3, <2>2, <2>3, <2>4 DEF Agrees
<1>7. Consistent(last)
  <2>1. \A q \in {judged} : Agrees(last, q.plan, q.lifecycle)
    BY <1>6
  <2> HIDE DEF judged, m
  <2> QED
    BY <2>1, SuccessionsHold
<1>8. Execute(last, Check) = Half(v, m, Append(e, a), {})
  <2>1. last.accepted
    BY FieldsOfDb DEF Half
  <2>2. Execute(last, Check) = [last EXCEPT !.pending = {}]
    <3> HIDE DEF last
    <3> QED
      BY <1>7, <2>1, CheckAccepted
  <2> QED
    BY <2>2, Zenon DEF Half, Db
<1>9. Run(Half(v, l, e, P), Replay(v, a)) =
          Execute(Execute(Execute(Half(v, l, e, P), Record(v, a)), Update(v, m)), Check)
  BY RunThree DEF Replay
<1> QED
  BY <1>4, <1>5, <1>8, <1>9

-----------------------------------------------------------------------------
(* What the insert trigger, the constraints and the indexes ask of the next *)
(* row of a line of plans.                                                  *)
OneLine(ps) ==
    \A v \in 1..Len(ps) :
        /\ ps[v].parent = v - 1
        /\ ps[v].kind = "generated" <=> v = 1
        /\ ps[v].lineage \in 1..v /\ ps[v].revision \in Nat
        /\ v = ps[v].lineage + ps[v].revision - 1
        /\ ps[v].kind # "edited" => ps[v].lineage = v /\ ps[v].revision = 1
        /\ ps[v].kind = "edited" => v > 1 /\ ps[v].lineage = ps[v - 1].lineage
        /\ \A w \in 1..(v - 1) :
              ps[v].kind # "edited" /\ ps[w].kind # "edited" => ps[w].key # ps[v].key

SameRow(row, plan) ==
    /\ row.parent = plan.parent /\ row.kind = plan.kind
    /\ row.lineage = plan.lineage /\ row.revision = plan.revision
    /\ row.key = plan.key

PlanTable(rows, ps, n) ==
    /\ DOMAIN rows = 1..n
    /\ \A w \in 1..n : SameRow(rows[w], ps[w]) /\ rows[w].lifecycle = "superseded"

LEMMA PlansAreOneLine == GInv => OneLine(plans)
<1> SUFFICES ASSUME GInv PROVE OneLine(plans)
  OBVIOUS
<1>1. /\ PlansTyped /\ PlansAreLinear /\ LineagesGrow
      /\ Len(plans) \in Nat /\ DOMAIN plans = 1..Len(plans)
  BY PaintAssumption, TypesByPart, PlansOfLine DEF GInv
<1> SUFFICES ASSUME NEW v \in 1..Len(plans)
             PROVE  /\ plans[v].parent = v - 1
                    /\ plans[v].kind = "generated" <=> v = 1
                    /\ plans[v].lineage \in 1..v /\ plans[v].revision \in Nat
                    /\ v = plans[v].lineage + plans[v].revision - 1
                    /\ plans[v].kind # "edited" => plans[v].lineage = v /\ plans[v].revision = 1
                    /\ plans[v].kind = "edited" => v > 1 /\ plans[v].lineage = plans[v - 1].lineage
                    /\ \A w \in 1..(v - 1) :
                          plans[v].kind # "edited" /\ plans[w].kind # "edited"
                             => plans[w].key # plans[v].key
  BY DEF OneLine
<1>2. plans[v].lineage \in 1..MaxPlans /\ plans[v].revision \in 1..MaxPlans
  BY <1>1, PaintAssumption, EachPlanIsTyped
<1>3. plans[v].lineage \in 1..v /\ plans[v].revision \in Nat
  BY <1>1, <1>2, PaintAssumption, Bounds DEF LineagesGrow
<1>4. v = plans[v].lineage + plans[v].revision - 1
  BY PaintAssumption, PlacesInLineages
<1>5. ASSUME NEW w \in 1..(v - 1), plans[v].kind # "edited", plans[w].kind # "edited",
             plans[w].key = plans[v].key
      PROVE  FALSE
  <2>1. w \in DOMAIN plans /\ v \in DOMAIN plans /\ w # v
    BY <1>1
  <2>2. command[plans[v].key] = v /\ command[plans[w].key] = w
    BY <1>1, <1>5, <2>1 DEF PlansAreLinear
  <2> QED
    BY <1>5, <2>1, <2>2
<1>6. /\ plans[v].parent = v - 1
      /\ plans[v].kind = "generated" <=> v = 1
  BY PaintAssumption, PlansOfLine
<1>7. /\ plans[v].kind # "edited" => plans[v].lineage = v /\ plans[v].revision = 1
      /\ plans[v].kind = "edited" => v > 1 /\ plans[v].lineage = plans[v - 1].lineage
  BY <1>1 DEF LineagesGrow
<1> QED
  BY <1>3, <1>4, <1>5, <1>6, <1>7

LEMMA NextRowIsLawful ==
    ASSUME NEW ps, OneLine(ps), Len(ps) \in Nat, NEW v \in Nat, v + 1 <= Len(ps),
           NEW db, PlanTable(db.rows, ps, v),
           NEW row, SameRow(row, ps[v + 1]), CameFromItsInvocation(row)
    PROVE  MayInsert(db, v + 1, row)
<1> DEFINE x == v + 1
           rows == db.rows
<1>0. x \in 1..Len(ps) /\ x - 1 = v
  OBVIOUS
<1>1. /\ row.parent = v /\ (row.kind = "generated" <=> x = 1)
      /\ row.lineage \in 1..x /\ row.revision \in Nat
      /\ x = row.lineage + row.revision - 1
      /\ row.kind # "edited" => row.lineage = x /\ row.revision = 1
      /\ row.kind = "edited" => x > 1 /\ row.lineage = ps[v].lineage
  BY <1>0 DEF OneLine, SameRow
<1>2. ASSUME NEW w \in 1..v
      PROVE  /\ rows[w].lifecycle = "superseded"
             /\ rows[w].lineage = ps[w].lineage /\ rows[w].revision = ps[w].revision
             /\ ps[w].lineage \in 1..w /\ ps[w].revision \in Nat
             /\ w = ps[w].lineage + ps[w].revision - 1
             /\ "edited" \in {row.kind, rows[w].kind} \/ rows[w].key # row.key
  <2>1. w \in 1..Len(ps) /\ w \in 1..(x - 1)
    BY <1>0
  <2>2. SameRow(rows[w], ps[w]) /\ rows[w].lifecycle = "superseded"
    BY DEF PlanTable
  <2>3. ps[x].kind # "edited" /\ ps[w].kind # "edited" => ps[w].key # ps[x].key
    <3>1. \A y \in 1..(x - 1) :
             ps[x].kind # "edited" /\ ps[y].kind # "edited" => ps[y].key # ps[x].key
      BY <1>0 DEF OneLine
    <3> HIDE DEF x
    <3> QED
      BY <2>1, <3>1
  <2>4. /\ ps[w].lineage \in 1..w /\ ps[w].revision \in Nat
        /\ w = ps[w].lineage + ps[w].revision - 1
    BY <2>1 DEF OneLine
  <2> QED
    BY <2>2, <2>3, <2>4 DEF SameRow
<1>3. DOMAIN rows = 1..v
  BY DEF PlanTable
<1> HIDE DEF x
<1>4. FollowsItsParent(db, x, row)
  <2>1. CASE row.kind = "generated"
    <3>1. v = 0
      BY <1>1, <2>1 DEF x
    <3>2. DOMAIN rows = {}
      BY <1>3, <3>1
    <3> QED
      BY <1>1, <2>1, <3>2 DEF FollowsItsParent
  <2>2. CASE row.kind # "generated"
    <3>1. v \in 1..v
      BY <1>1, <2>2 DEF x
    <3>2. /\ rows[v].lifecycle = "superseded"
          /\ rows[v].lineage = ps[v].lineage /\ rows[v].revision = ps[v].revision
          /\ ps[v].lineage \in 1..v /\ ps[v].revision \in Nat
          /\ v = ps[v].lineage + ps[v].revision - 1
      BY <1>2, <3>1
    <3>3. row.kind = "edited" => row.lineage = rows[v].lineage
                                  /\ row.revision = rows[v].revision + 1
      <4> DEFINE i == ps[v].lineage
                 j == ps[v].revision
                 r == row.revision
      <4>1. row.kind = "edited" => row.lineage = i
        BY <1>1
      <4>2. r \in Nat /\ i \in Nat /\ j \in Nat /\ v = i + j - 1 /\ v + 1 = row.lineage + r - 1
        BY <1>1, <3>2 DEF x
      <4> HIDE DEF i, j, r
      <4>3. row.kind = "edited" => row.lineage = i /\ r = j + 1
        BY <4>1, <4>2
      <4> QED
        BY <3>2, <4>3 DEF i, j, r
    <3> QED
      BY <1>1, <1>3, <2>2, <3>1, <3>2, <3>3 DEF FollowsItsParent, x
  <2> QED
    BY <2>1, <2>2
<1>5. RowConstraints(db, x, row)
  <2>1. row.kind = "edited" => row.lineage # x /\ row.revision >= 2
    <3> SUFFICES ASSUME row.kind = "edited" PROVE row.lineage # x /\ row.revision >= 2
      OBVIOUS
    <3>1. v \in 1..Len(ps) /\ row.lineage = ps[v].lineage
      BY <1>0, <1>1 DEF x
    <3>2. ps[v].lineage \in 1..v
      BY <3>1 DEF OneLine
    <3> QED
      BY <1>1, <3>1, <3>2 DEF x
  <2>2. row.kind # "edited" => row.lineage = x /\ ~(row.revision >= 2)
    BY <1>1
  <2>3. row.kind = "generated" <=> row.parent = 0
    BY <1>1 DEF x
  <2>4. {row.parent, row.lineage} \subseteq 1..v \cup {x, 0}
    BY <1>1 DEF x
  <2> QED
    BY <1>3, <2>1, <2>2, <2>3, <2>4 DEF RowConstraints
<1>6. UniqueIndexes(db, x, row)
  <2>1. x \notin 1..v
    BY DEF x
  <2>2. ASSUME NEW w \in 1..v
        PROVE  <<rows[w].lineage, rows[w].revision>> # <<row.lineage, row.revision>>
    <3>1. CASE rows[w].lineage = row.lineage /\ rows[w].revision = row.revision
      <4>1. w = ps[w].lineage + ps[w].revision - 1
        BY <1>2
      <4>2. row.lineage = ps[w].lineage /\ row.revision = ps[w].revision
        BY <1>2, <3>1
      <4>3. x = row.lineage + row.revision - 1
        BY <1>1
      <4> QED
        BY <2>1, <4>1, <4>2, <4>3
    <3>2. \A a, b, c, d : a # c \/ b # d => <<a, b>> # <<c, d>>
      OBVIOUS
    <3> QED
      BY <3>1, <3>2
  <2> QED
    BY <1>2, <1>3, <2>1, <2>2 DEF UniqueIndexes
<1> QED
  BY <1>4, <1>5, <1>6 DEF MayInsert, x

-----------------------------------------------------------------------------
(* A plan nobody has submitted is called after what made it.                *)
FreshPlansAreNamed ==
    \A v \in DOMAIN plans :
        plans[v].lifecycle \in {"generated", "edited"} => plans[v].lifecycle = Fresh(v)

(* A failed invocation keeps nothing of what it was asked with.             *)
FailuresForget ==
    \A k \in Keys : invocation[k].status = "failed" => invocation[k].sent = NothingRead

HInv == GInv /\ FreshPlansAreNamed /\ FailuresForget

LEMMA InsertIsReplayed ==
    ASSUME PaintAssumption, GInv, NEW v \in Nat, v + 1 <= Len(plans), NEW P
    PROVE  Execute(Whole(v, P), Insert(v + 1, RowAs(v + 1, Fresh(v + 1)))) =
              Half(v + 1, Fresh(v + 1), <<>>, P)
<1> DEFINE x == v + 1
           db == Whole(v, P)
           row == RowAs(x, Fresh(x))
           rows == [w \in 1..v |-> PlanRow(w)]
           events == [w \in 1..v |-> plans[w].reviews]
<1>0. x \in 1..Len(plans) /\ x \in DOMAIN plans /\ 1..v \cup {x} = 1..x /\ x \notin 1..v
      /\ Len(plans) \in Nat
  BY PlansOfLine
<1>1. db = Db(rows, events, {}, 1..v, P) /\ db.rows = rows
  BY FieldsOfDb DEF Whole
<1>2. CameFromItsInvocation(row)
  <2>1. row.key = plans[x].key /\ row.source = plans[x].source
    BY RowsOfPlans
  <2> QED
    BY <1>0, <2>1 DEF CameFromItsInvocation, GInv, PlansAreSourced
<1>3. SameRow(row, plans[x])
  BY RowsOfPlans DEF SameRow
<1>4. PlanTable(rows, plans, v)
  <2>1. ASSUME NEW w \in 1..v
        PROVE  SameRow(rows[w], plans[w]) /\ rows[w].lifecycle = "superseded"
    <3>1. rows[w] = PlanRow(w) /\ plans[w].lifecycle = "superseded"
      BY <1>0, PlansOfLine
    <3> QED
      BY <3>1, RowsOfPlans DEF SameRow
  <2> QED
    BY <2>1 DEF PlanTable
<1>5. OneLine(plans)
  BY PlansAreOneLine
<1> HIDE DEF db, row, rows, events
<1>6. MayInsert(db, x, row)
  BY <1>0, <1>1, <1>2, <1>3, <1>4, <1>5, NextRowIsLawful
<1>7. Execute(db, Insert(x, row)) =
         Db(Plus(rows, x, row), Plus(events, x, <<>>), {}, 1..v \cup {x}, P)
  BY <1>1, <1>6, InsertInto
<1>8. Plus(rows, x, row) =
         [w \in 1..x |-> IF w = x THEN RowAs(x, Fresh(x)) ELSE PlanRow(w)]
  BY <1>0 DEF Plus, rows, row
<1>9. Plus(events, x, <<>>) =
         [w \in 1..x |-> IF w = x THEN <<>> ELSE plans[w].reviews]
  BY <1>0 DEF Plus, events
<1> HIDE DEF x
<1> QED
  BY <1>0, <1>7, <1>8, <1>9 DEF db, Half, row, x

EventsOf(v) ==
    FlattenSeq([i \in DOMAIN plans[v].reviews |-> Replay(v, plans[v].reviews[i])])

LEMMA EventsOfPlans ==
    ASSUME NEW v
    PROVE  /\ plans[v].reviews = <<>> => EventsOf(v) = <<>>
           /\ plans[v].reviews = <<"submit">> => EventsOf(v) = Replay(v, "submit")
           /\ plans[v].reviews = <<"submit", "decide">> =>
                 EventsOf(v) = Replay(v, "submit") \o Replay(v, "decide")
<1> DEFINE r == plans[v].reviews
           scripts == [i \in DOMAIN r |-> Replay(v, r[i])]
<1>1. ASSUME r = <<>> PROVE EventsOf(v) = <<>>
  <2>1. scripts = <<>>
    BY <1>1
  <2> HIDE DEF scripts
  <2> QED
    BY <2>1, FlattenFew DEF EventsOf, scripts
<1>2. ASSUME r = <<"submit">> PROVE EventsOf(v) = Replay(v, "submit")
  <2>1. scripts = <<Replay(v, "submit")>>
    BY <1>2
  <2>2. FlattenSeq(<<Replay(v, "submit")>>) = Replay(v, "submit")
    BY FlattenFew
  <2> QED
    BY <2>1, <2>2 DEF EventsOf
<1>3. ASSUME r = <<"submit", "decide">>
      PROVE  EventsOf(v) = Replay(v, "submit") \o Replay(v, "decide")
  <2>1. scripts = <<Replay(v, "submit"), Replay(v, "decide")>>
    BY <1>3
  <2>2. FlattenSeq(<<Replay(v, "submit"), Replay(v, "decide")>>) =
           Replay(v, "submit") \o Replay(v, "decide")
    BY FlattenFew
  <2> QED
    BY <2>1, <2>2 DEF EventsOf
<1> QED
  BY <1>1, <1>2, <1>3

LEMMA ReplaysAreScripts ==
    ASSUME NEW v \in Nat, NEW a \in {"submit", "decide"}
    PROVE  Replay(v, a) \in Seq(Statements)
<1>1. Record(v, a) \in Statements /\ Update(v, LifecycleOf(a)) \in Statements
      /\ Check \in Statements
  BY StatementsOfPlans
<1> QED
  BY <1>1 DEF Replay

LEMMA ReviewsTell ==
    ASSUME NEW c \in {"generated", "edited", "under_review", "decided"}, NEW r,
           r = LatestReviewOf[c]
    PROVE  /\ r = <<>> => c \in {"generated", "edited"}
           /\ r = <<"submit">> => c = "under_review"
           /\ r = <<"submit", "decide">> => c = "decided"
<1> DEFINE n == Len(r)
<1>1. Len(<<>>) = 0 /\ Len(<<"submit">>) = 1 /\ Len(<<"submit", "decide">>) = 2
  OBVIOUS
<1>2. /\ c = "under_review" => r = <<"submit">>
      /\ c = "decided" => r = <<"submit", "decide">>
      /\ c \in {"generated", "edited"} => r = <<>>
  BY DEF LatestReviewOf
<1>3. /\ c = "under_review" => n = 1
      /\ c = "decided" => n = 2
      /\ c \in {"generated", "edited"} => n = 0
  BY <1>1, <1>2
<1>4. /\ r = <<>> => n = 0
      /\ r = <<"submit">> => n = 1
      /\ r = <<"submit", "decide">> => n = 2
  BY <1>1
<1> HIDE DEF n
<1>5. /\ n = 0 => c \in {"generated", "edited"}
      /\ n = 1 => c = "under_review"
      /\ n = 2 => c = "decided"
  BY <1>3
<1> QED
  BY <1>4, <1>5

(* The events of a plan take it from its first lifecycle to the one they    *)
(* left it in.                                                              *)
LEMMA EventsAreReplayed ==
    ASSUME PaintAssumption, HInv, NEW v \in 1..Len(plans), NEW P, Successions(P, v - 1)
    PROVE  /\ EventsOf(v) \in Seq(Statements)
           /\ \E Q : \E l \in {"generated", "edited", "under_review", "decided"} :
                 /\ Successions(Q, v - 1)
                 /\ plans[v].lifecycle # "superseded" => l = plans[v].lifecycle
                 /\ Run(Half(v, Fresh(v), <<>>, P), EventsOf(v)) =
                       Half(v, l, plans[v].reviews, Q)
<1> DEFINE r == plans[v].reviews
           start == Half(v, Fresh(v), <<>>, P)
<1>0. GInv /\ v \in Nat /\ v \in DOMAIN plans /\ Fresh(v) \in {"generated", "edited"}
  BY PlansOfLine DEF HInv, Fresh
<1>1. /\ r \in {<<>>, <<"submit">>, <<"submit", "decide">>}
      /\ plans[v].lifecycle # "superseded" => r = LatestReviewOf[plans[v].lifecycle]
      /\ plans[v].lifecycle \in {"generated", "edited", "under_review", "decided", "superseded"}
  BY <1>0, PlansOfLine
<1> DEFINE c == plans[v].lifecycle
<1>10. c # "superseded" =>
          /\ r = <<>> => c \in {"generated", "edited"}
          /\ r = <<"submit">> => c = "under_review"
          /\ r = <<"submit", "decide">> => c = "decided"
  <2> HIDE DEF c, r
  <2> QED
    BY <1>1, ReviewsTell DEF c, r
<1>2. /\ Replay(v, "submit") \in Seq(Statements)
      /\ Replay(v, "decide") \in Seq(Statements)
  BY <1>0, ReplaysAreScripts
<1>3. Successions({}, v - 1)
  BY DEF Successions
<1>4. Run(start, Replay(v, "submit")) = Half(v, "under_review", <<"submit">>, {})
  <2>1. Run(start, Replay(v, "submit")) = Half(v, LifecycleOf("submit"), Append(<<>>, "submit"), {})
    BY <1>0, EventIsReplayed
  <2>2. LifecycleOf("submit") = "under_review" /\ Append(<<>>, "submit") = <<"submit">>
    BY DEF LifecycleOf
  <2> QED
    BY <2>1, <2>2
<1>5. Run(Half(v, "under_review", <<"submit">>, {}), Replay(v, "decide")) =
         Half(v, "decided", <<"submit", "decide">>, {})
  <2>1. Run(Half(v, "under_review", <<"submit">>, {}), Replay(v, "decide")) =
           Half(v, LifecycleOf("decide"), Append(<<"submit">>, "decide"), {})
    BY <1>0, <1>3, EventIsReplayed
  <2>2. LifecycleOf("decide") = "decided" /\ Append(<<"submit">>, "decide") = <<"submit", "decide">>
    <3> DEFINE s == Append(<<"submit">>, "decide")
    <3>1. s \in Seq({"submit", "decide"}) /\ Len(s) = 2 /\ s[1] = "submit" /\ s[2] = "decide"
      OBVIOUS
    <3> HIDE DEF s
    <3>2. s = <<"submit", "decide">>
      BY <3>1, PairOf
    <3> QED
      BY <3>2 DEF LifecycleOf, s
  <2> QED
    BY <2>1, <2>2
<1>6. CASE r = <<>>
  <2>1. EventsOf(v) = <<>> /\ Run(start, <<>>) = start
    BY <1>6, EventsOfPlans, RunEmpty
  <2>2. plans[v].lifecycle # "superseded" => Fresh(v) = plans[v].lifecycle
    <3>1. plans[v].lifecycle # "superseded" => plans[v].lifecycle \in {"generated", "edited"}
      BY <1>6, <1>10
    <3> QED
      BY <1>0, <3>1 DEF HInv, FreshPlansAreNamed
  <2> QED
    BY <1>0, <1>6, <2>1, <2>2
<1>7. CASE r = <<"submit">>
  <2>1. EventsOf(v) = Replay(v, "submit")
    BY <1>7, EventsOfPlans
  <2>2. plans[v].lifecycle # "superseded" => "under_review" = plans[v].lifecycle
    BY <1>7, <1>10
  <2> QED
    BY <1>2, <1>3, <1>4, <1>7, <2>1, <2>2
<1>8. CASE r = <<"submit", "decide">>
  <2>1. EventsOf(v) = Replay(v, "submit") \o Replay(v, "decide")
    BY <1>8, EventsOfPlans
  <2>2. plans[v].lifecycle # "superseded" => "decided" = plans[v].lifecycle
    BY <1>8, <1>10
  <2>3. EventsOf(v) \in Seq(Statements)
    BY <1>2, <2>1, ConcatProperties
  <2>4. Run(start, EventsOf(v)) = Run(Run(start, Replay(v, "submit")), Replay(v, "decide"))
    BY <1>2, <2>1, RunConcat
  <2>5. Run(start, EventsOf(v)) = Half(v, "decided", r, {})
    BY <1>4, <1>5, <1>8, <2>4
  <2> QED
    BY <1>3, <2>2, <2>3, <2>5
<1> QED
  BY <1>1, <1>6, <1>7, <1>8

LEMMA PlanIsReplayed ==
    ASSUME PaintAssumption, HInv, NEW v \in Nat, v + 1 <= Len(plans), NEW P, Successions(P, v)
    PROVE  /\ RestorePlan(v + 1) \in Seq(Statements)
           /\ \E Q : /\ Successions(Q, v + 1)
                     /\ v + 1 = Len(plans) => Successions(Q, v)
                     /\ Run(Whole(v, P), RestorePlan(v + 1)) = Whole(v + 1, Q)
<1> DEFINE x == v + 1
           first == <<Insert(x, RowAs(x, Fresh(x)))>>
           last == IF plans[x].lifecycle = "superseded" THEN <<Update(x, "superseded")>> ELSE <<>>
<1>0. /\ GInv /\ x \in 1..Len(plans) /\ x \in Nat \ {0} /\ x - 1 = v
      /\ Len(plans) \in Nat
      /\ plans[x].lifecycle = "superseded" <=> x < Len(plans)
  BY PlansOfLine DEF HInv
<1> HIDE DEF x
<1>1. RestorePlan(x) = (first \o EventsOf(x)) \o last
  BY DEF RestorePlan, Fresh, RowAs, EventsOf
<1>2. first \in Seq(Statements) /\ last \in Seq(Statements)
  <2>1. Insert(x, RowAs(x, Fresh(x))) \in Statements /\ Update(x, "superseded") \in Statements
    BY <1>0, StatementsOfPlans
  <2> QED
    BY <2>1
<1>3. EventsOf(x) \in Seq(Statements)
  BY <1>0, EventsAreReplayed
<1>11. PICK Q : \E l \in {"generated", "edited", "under_review", "decided"} :
         /\ Successions(Q, v)
         /\ plans[x].lifecycle # "superseded" => l = plans[x].lifecycle
         /\ Run(Half(x, Fresh(x), <<>>, P), EventsOf(x)) = Half(x, l, plans[x].reviews, Q)
  BY <1>0, EventsAreReplayed
<1>4. PICK l \in {"generated", "edited", "under_review", "decided"} :
         /\ Successions(Q, v)
         /\ plans[x].lifecycle # "superseded" => l = plans[x].lifecycle
         /\ Run(Half(x, Fresh(x), <<>>, P), EventsOf(x)) = Half(x, l, plans[x].reviews, Q)
  BY <1>11
<1> DEFINE half == Half(x, l, plans[x].reviews, Q)
<1>5. Run(Whole(v, P), first) = Half(x, Fresh(x), <<>>, P)
  <2>1. Run(Whole(v, P), first) = Execute(Whole(v, P), Insert(x, RowAs(x, Fresh(x))))
    BY RunOne
  <2> QED
    BY <1>0, <2>1, InsertIsReplayed DEF x
<1> HIDE DEF first, last
<1>6. first \o EventsOf(x) \in Seq(Statements)
  BY <1>2, <1>3, ConcatProperties
<1>7. RestorePlan(x) \in Seq(Statements)
  BY <1>1, <1>2, <1>6, ConcatProperties
<1>8. Run(Whole(v, P), RestorePlan(x)) = Run(half, last)
  <2>1. Run(Whole(v, P), (first \o EventsOf(x)) \o last) =
           Run(Run(Whole(v, P), first \o EventsOf(x)), last)
    <3>1. \A w \in Seq(Statements) : Run(Whole(v, P), w \o last) = Run(Run(Whole(v, P), w), last)
      BY <1>2, RunConcat
    <3> QED
      BY <1>6, <3>1
  <2>2. Run(Whole(v, P), first \o EventsOf(x)) = Run(Run(Whole(v, P), first), EventsOf(x))
    BY <1>2, <1>3, RunConcat
  <2> QED
    BY <1>1, <1>4, <1>5, <2>1, <2>2
<1>9. CASE plans[x].lifecycle = "superseded"
  <2> DEFINE R == Q \cup {[plan |-> x, lifecycle |-> "superseded"]}
  <2>1. Run(half, last) = Execute(half, Update(x, "superseded"))
    BY <1>9, RunOne DEF last
  <2>2. MayUpdatePlan(l, "superseded")
    BY DEF MayUpdatePlan
  <2>3. Execute(half, Update(x, "superseded")) = Half(x, "superseded", plans[x].reviews, R)
    BY <1>0, <2>2, UpdateHalf
  <2>4. Run(half, last) = Whole(x, R)
    <3>1. Half(x, plans[x].lifecycle, plans[x].reviews, R) = Whole(x, R)
      BY HalfIsWhole
    <3> QED
      BY <1>9, <2>1, <2>3, <3>1
  <2>5. Successions(R, x)
    <3>1. ASSUME NEW e \in Q PROVE \E w \in 1..x : e = Superseded(w)
      BY <1>0, <1>4 DEF Successions
    <3>2. x \in 1..x /\ [plan |-> x, lifecycle |-> "superseded"] = Superseded(x)
      BY <1>0 DEF Superseded
    <3> QED
      BY <3>1, <3>2 DEF Successions
  <2>6. x # Len(plans)
    BY <1>0, <1>9
  <2> HIDE DEF R
  <2> QED
    BY <1>7, <1>8, <2>4, <2>5, <2>6 DEF x
<1>10. CASE plans[x].lifecycle # "superseded"
  <2>1. Run(half, last) = half
    BY <1>10, RunEmpty DEF last
  <2>2. half = Whole(x, Q)
    BY <1>4, <1>10, HalfIsWhole
  <2>3. Successions(Q, x)
    BY <1>0, <1>4 DEF Successions
  <2> QED
    BY <1>4, <1>7, <1>8, <2>1, <2>2, <2>3 DEF x
<1> QED
  BY <1>9, <1>10

LEMMA EmptyTables == Tables(0) = Whole(0, {})
<1>1. 1..0 = {}
  OBVIOUS
<1>2. Tables(0) = Db([w \in 1..0 |-> PlanRow(w)], [w \in 1..0 |-> plans[w].reviews], 1..0, {}, {})
  BY TablesAre
<1> QED
  BY <1>1, <1>2 DEF Whole

(* The plans, one after another.                                            *)
LEMMA PlansAreReplayed ==
    ASSUME PaintAssumption, HInv, Len(plans) > 0
    PROVE  LET script == FlattenSeq([v \in DOMAIN plans |-> RestorePlan(v)])
           IN  /\ script \in Seq(Statements)
               /\ \E P : /\ Successions(P, Len(plans) - 1)
                         /\ Run(Tables(0), script) = Whole(Len(plans), P)
<1> DEFINE n == Len(plans)
           ss == [v \in DOMAIN plans |-> RestorePlan(v)]
<1>0. n \in Nat /\ DOMAIN plans = 1..n /\ n > 0
  BY PlansOfLine DEF HInv
<1>1. Tables(0) = Whole(0, {})
  BY EmptyTables
<1>2. /\ RestorePlan(1) \in Seq(Statements)
      /\ \E Q : /\ Successions(Q, 1) /\ (1 = n => Successions(Q, 0))
                /\ Run(Tables(0), RestorePlan(1)) = Whole(1, Q)
  <2>1. Successions({}, 0) /\ 0 \in Nat /\ 0 + 1 <= n /\ 0 + 1 = 1
    BY <1>0 DEF Successions
  <2>2. /\ RestorePlan(0 + 1) \in Seq(Statements)
        /\ \E Q : /\ Successions(Q, 0 + 1) /\ (0 + 1 = n => Successions(Q, 0))
                  /\ Run(Whole(0, {}), RestorePlan(0 + 1)) = Whole(0 + 1, Q)
    BY <2>1, PlanIsReplayed
  <2> QED
    BY <1>1, <2>1, <2>2
<1>3. ASSUME NEW v \in 1..n PROVE RestorePlan(v) \in Seq(Statements)
  <2>1. /\ v - 1 \in Nat /\ (v - 1) + 1 = v /\ v <= n /\ Successions({}, v - 1)
    BY <1>0 DEF Successions
  <2> QED
    BY <2>1, PlanIsReplayed
<1>4. ss \in Seq(Seq(Statements)) /\ Len(ss) = n
  BY <1>0, <1>3, SeqDef
<1> HIDE DEF ss
<1>5. PICK f : Joins(f, ss, n) /\ FlattenSeq(ss) = f[n]
  BY <1>0, <1>4, FlattenIs
<1>6. \A v \in 1..n : ss[v] = RestorePlan(v)
  BY <1>0 DEF ss
<1> DEFINE Replayed(v) == /\ f[v] \in Seq(Statements)
                          /\ \E Q : /\ Successions(Q, v) /\ (v = n => Successions(Q, v - 1))
                                    /\ Run(Tables(0), f[v]) = Whole(v, Q)
           N == {v \in Nat : v + 1 <= n => Replayed(v + 1)}
<1>7. 0 \in N
  <2>1. 1 \in 1..n
    BY <1>0
  <2>2. f[1] = RestorePlan(1)
    BY <1>5, <1>6, <2>1 DEF Joins
  <2>3. Replayed(1)
    BY <1>2, <2>2
  <2> HIDE DEF Replayed
  <2> QED
    BY <2>3
<1>8. ASSUME NEW v \in N PROVE v + 1 \in N
  <2> SUFFICES ASSUME (v + 1) + 1 <= n PROVE Replayed((v + 1) + 1)
    OBVIOUS
  <2> DEFINE x == v + 1
             y == x + 1
  <2>1. x \in Nat /\ y \in 1..n /\ y # 1 /\ y - 1 = x /\ x # n /\ Replayed(x)
    BY <1>0
  <2> HIDE DEF x, N
  <2>2. f[y] = f[x] \o RestorePlan(y)
    BY <1>5, <1>6, <2>1 DEF Joins
  <2>3. PICK P : Successions(P, x) /\ Run(Tables(0), f[x]) = Whole(x, P)
    BY <2>1
  <2>4. f[x] \in Seq(Statements) /\ RestorePlan(y) \in Seq(Statements)
    BY <1>3, <2>1
  <2>5. Run(Tables(0), f[x] \o RestorePlan(y)) = Run(Run(Tables(0), f[x]), RestorePlan(y))
    BY <2>4, RunConcat
  <2>6. PICK Q : /\ Successions(Q, y) /\ (y = n => Successions(Q, x))
                 /\ Run(Whole(x, P), RestorePlan(y)) = Whole(y, Q)
    BY <2>1, <2>3, PlanIsReplayed
  <2>7. f[x] \o RestorePlan(y) \in Seq(Statements)
    BY <2>4, ConcatProperties
  <2>8. Replayed(y)
    BY <2>1, <2>2, <2>3, <2>5, <2>6, <2>7
  <2> HIDE DEF Replayed
  <2> QED
    BY <2>8 DEF x
<1> HIDE DEF Replayed
<1>9. \A v \in Nat : v \in N
  <2>1. N \in SUBSET Nat
    OBVIOUS
  <2> HIDE DEF N
  <2> QED
    BY <1>7, <1>8, <2>1, CountUp
<1>10. Replayed(n)
  <2>1. n - 1 \in Nat /\ (n - 1) + 1 = n
    BY <1>0
  <2>2. n - 1 \in N
    BY <1>9, <2>1
  <2> QED
    BY <2>1, <2>2
<1> QED
  BY <1>5, <1>10 DEF Replayed, ss

Instructed(v, P, A) ==
    Db([w \in 1..v |-> PlanRow(w)], [w \in 1..v |-> plans[w].reviews], A, 1..v, P)

LEMMA WholeIsUninstructed ==
    ASSUME NEW v, NEW P PROVE Whole(v, P) = Instructed(v, P, {})
  BY DEF Whole, Instructed

LEMMA InstructionIsReplayed ==
    ASSUME NEW n \in Nat, NEW P, NEW A, NEW x \in 1..n
    PROVE  Execute(Instructed(n, P, A), Instruct(x)) = Instructed(n, P, A \cup {x})
<1> DEFINE rows == [w \in 1..n |-> PlanRow(w)]
<1>1. x \in DOMAIN rows /\ 1..n \cup {x} = 1..n
  OBVIOUS
<1> HIDE DEF rows
<1> QED
  BY <1>1, InstructInto DEF Instructed, rows

(* The instructions, plan by plan.                                          *)
LEMMA InstructionsAreReplayed ==
    ASSUME PaintAssumption, GInv, NEW P
    PROVE  LET script == [v \in DOMAIN plans |-> Instruct(v)]
               n == Len(plans)
           IN  /\ script \in Seq(Statements)
               /\ Run(Whole(n, P), script) = Instructed(n, P, 1..n)
<1> DEFINE n == Len(plans)
           part(k) == [v \in 1..k |-> Instruct(v)]
<1>0. n \in Nat /\ DOMAIN plans = 1..n
  BY PlansOfLine
<1>1. Whole(n, P) = Instructed(n, P, {})
  BY WholeIsUninstructed
<1>2. ASSUME NEW k \in Nat PROVE part(k) \in Seq(Statements) /\ Len(part(k)) = k
  <2>1. \A v \in 1..k : Instruct(v) \in Statements
    BY StatementsOfPlans
  <2>2. part(k) \in [1..k -> Statements]
    BY <2>1
  <2> QED
    BY <2>2, SeqDef
<1>3. ASSUME NEW k \in Nat PROVE part(k + 1) = Append(part(k), Instruct(k + 1))
  <2>1. Len(part(k)) = k /\ part(k) \in Seq(Statements)
    BY <1>2
  <2>2. Append(part(k), Instruct(k + 1)) =
           [v \in 1..(k + 1) |-> IF v = k + 1 THEN Instruct(k + 1) ELSE part(k)[v]]
    BY <2>1
  <2> QED
    BY <2>2
<1> DEFINE N == {k \in Nat : k <= n => Run(Whole(n, P), part(k)) = Instructed(n, P, 1..k)}
<1>4. 0 \in N
  <2>1. part(0) = <<>> /\ 1..0 = {}
    OBVIOUS
  <2>2. Run(Whole(n, P), part(0)) = Whole(n, P)
    BY <2>1, RunEmpty
  <2> QED
    BY <1>1, <2>1, <2>2
<1>5. ASSUME NEW k \in N PROVE k + 1 \in N
  <2> SUFFICES ASSUME k + 1 <= n
               PROVE  Run(Whole(n, P), part(k + 1)) = Instructed(n, P, 1..(k + 1))
    OBVIOUS
  <2> DEFINE x == k + 1
  <2>1. k \in Nat /\ x \in Nat /\ x \in 1..n /\ 1..k \cup {x} = 1..x
    BY <1>0
  <2>2. Run(Whole(n, P), part(k)) = Instructed(n, P, 1..k)
    BY <2>1
  <2>3. Run(Whole(n, P), part(x)) = Execute(Instructed(n, P, 1..k), Instruct(x))
    <3>1. part(k) \in Seq(Statements) /\ Instruct(x) \in Statements
      BY <1>2, <2>1, StatementsOfPlans
    <3>2. part(x) = Append(part(k), Instruct(x))
      BY <1>3, <2>1
    <3> HIDE DEF part, x
    <3> QED
      BY <2>2, <3>1, <3>2, RunAppend
  <2> HIDE DEF x
  <2>4. Execute(Instructed(n, P, 1..k), Instruct(x)) = Instructed(n, P, 1..x)
    <3>1. Execute(Instructed(n, P, 1..k), Instruct(x)) = Instructed(n, P, 1..k \cup {x})
      BY <1>0, <2>1, InstructionIsReplayed
    <3> QED
      BY <2>1, <3>1
  <2> QED
    BY <2>3, <2>4 DEF x
<1>6. n \in N
  <2>1. N \in SUBSET Nat
    OBVIOUS
  <2> HIDE DEF N
  <2> QED
    BY <1>0, <1>4, <1>5, <2>1, CountUp
<1>7. Run(Whole(n, P), part(n)) = Instructed(n, P, 1..n)
  BY <1>0, <1>6
<1> QED
  BY <1>0, <1>2, <1>7

LEMMA RestoredTables ==
    ASSUME PaintAssumption, GInv, NEW P, Successions(P, Len(plans) - 1)
    PROVE  LET n == Len(plans)
           IN  Execute(Instructed(n, P, 1..n), Commit) = Tables(n)
<1> DEFINE n == Len(plans)
           db == Instructed(n, P, 1..n)
<1>0. n \in Nat /\ DOMAIN plans = 1..n
  BY PlansOfLine
<1>1. ASSUME NEW p \in P PROVE Agrees(db, p.plan, p.lifecycle)
  <2>1. PICK w \in 1..(n - 1) : p = Superseded(w)
    BY DEF Successions
  <2>2. p.plan = w /\ p.lifecycle = "superseded"
    BY <2>1 DEF Superseded
  <2>3. w + 1 \in 1..n /\ plans[w + 1].parent = w
    BY <1>0, PlansOfLine
  <2>4. PlanRow(w + 1).parent = w
    BY <2>3, RowsOfPlans
  <2>5. db.rows = [v \in 1..n |-> PlanRow(v)]
    BY FieldsOfDb DEF Instructed
  <2> HIDE DEF db
  <2> QED
    BY <2>2, <2>3, <2>4, <2>5 DEF Agrees
<1> HIDE DEF n
<1> QED
  BY <1>1, CommitDb, TablesAre DEF Instructed, db, n

LEMMA RestoreIsExact ==
    ASSUME PaintAssumption, HInv
    PROVE  HistoryIsRestorable
<1> DEFINE n == Len(plans)
           plansScript == FlattenSeq([v \in DOMAIN plans |-> RestorePlan(v)])
           instructions == [v \in DOMAIN plans |-> Instruct(v)]
<1>0. GInv /\ n \in Nat /\ DOMAIN plans = 1..n
  BY PlansOfLine DEF HInv
<1>1. /\ plansScript \in Seq(Statements)
      /\ \E P : /\ Successions(P, n - 1)
                /\ Run(Tables(0), plansScript) = Whole(n, P)
  <2>1. CASE n > 0
    BY <2>1, PlansAreReplayed
  <2>2. CASE n = 0
    <3>1. [v \in DOMAIN plans |-> RestorePlan(v)] = <<>>
      BY <1>0, <2>2
    <3>2. plansScript = <<>>
      BY <3>1, FlattenFew
    <3>3. Run(Tables(0), <<>>) = Whole(0, {})
      BY RunEmpty, EmptyTables
    <3>4. Successions({}, n - 1)
      BY DEF Successions
    <3>5. <<>> \in Seq(Statements)
      OBVIOUS
    <3> HIDE DEF plansScript
    <3> QED
      BY <2>2, <3>2, <3>3, <3>4, <3>5
  <2> QED
    BY <1>0, <2>1, <2>2
<1>2. PICK P : Successions(P, n - 1) /\ Run(Tables(0), plansScript) = Whole(n, P)
  BY <1>1
<1>3. /\ instructions \in Seq(Statements)
      /\ Run(Whole(n, P), instructions) = Instructed(n, P, 1..n)
  BY <1>0, InstructionsAreReplayed
<1>4. RestoreScript = plansScript \o instructions
  BY DEF RestoreScript
<1> HIDE DEF plansScript, instructions
<1>5. Run(Tables(0), RestoreScript) = Instructed(n, P, 1..n)
  <2>1. Run(Tables(0), plansScript \o instructions) =
           Run(Run(Tables(0), plansScript), instructions)
    BY <1>1, <1>3, RunConcat
  <2> QED
    BY <1>2, <1>3, <1>4, <2>1
<1>6. Execute(Instructed(n, P, 1..n), Commit) = Tables(n)
  BY <1>0, <1>2, RestoredTables
<1>7. RestoreScript \in Seq(Statements)
  BY <1>1, <1>3, <1>4, ConcatProperties
<1>8. Transact(Tables(0), RestoreScript) = Execute(Run(Tables(0), RestoreScript), Commit)
  BY <1>7, TransactIs
<1> QED
  BY <1>5, <1>6, <1>8 DEF HistoryIsRestorable

-----------------------------------------------------------------------------
(* The steps that touch plans: one is added, or the last one is reviewed.   *)
Made(plan) ==
    /\ plan.lifecycle = IF plan.kind = "edited" THEN "edited" ELSE "generated"
    /\ plan.reviews = <<>>

LEMMA StepsOnPlans ==
    ASSUME PaintAssumption, GInv, [Next]_vars, plans' # plans
    PROVE  /\ invocation' = invocation
           /\ \/ \E plan : Made(plan) /\ AddPlan(plan)
              \/ \E action \in {"submit", "decide"} : Transition(action)
<1>0. SourcesTyped /\ VersionsAreSettled
  BY TypesByPart DEF GInv
<1>1. ~SourceCommand
  BY <1>0, SourceCommands
<1>2. \A g \in Generations : Generate(g) \/ Crash(g) => Persist(g)
  BY DEF Generate, Crash, ReadImages, ReadRegions, Refused, InvokePaid, InvokeFixture,
         ProviderAnswers, FreeClaim, NothingPersisted
<1>3. ASSUME NEW g \in Generations, Persist(g)
      PROVE  invocation' = invocation /\ \E plan : Made(plan) /\ AddPlan(plan)
  <2> DEFINE plan == [lifecycle |-> "generated", parent |-> read[g].parent, key |-> KeyOf[g],
                      kind |-> IF g \in Regenerations THEN "regenerated" ELSE "generated",
                      lineage |-> Len(plans) + 1, revision |-> 1,
                      source |-> Provenance, reviews |-> <<>>]
  <2>1. AddPlan(plan) /\ invocation' = invocation
    BY <1>3 DEF Persist
  <2>2. Made(plan)
    BY DEF Made
  <2> QED
    BY <2>1, <2>2
<1>4. ASSUME Edit PROVE invocation' = invocation /\ \E plan : Made(plan) /\ AddPlan(plan)
  <2> DEFINE plan == [lifecycle |-> "edited", parent |-> Len(plans), key |-> Current.key,
                      kind |-> "edited",
                      lineage |-> Current.lineage, revision |-> Current.revision + 1,
                      source |-> Current.source, reviews |-> <<>>]
  <2>1. AddPlan(plan) /\ invocation' = invocation
    BY <1>4 DEF Edit, generating
  <2>2. Made(plan)
    BY DEF Made
  <2> QED
    BY <2>1, <2>2
<1>5. ASSUME NEW action \in {"submit", "decide"}, Transition(action)
      PROVE  invocation' = invocation
  BY <1>5 DEF Transition, generating
<1> QED
  BY <1>1, <1>2, <1>3, <1>4, <1>5 DEF Next, SourceCommand, SubmitPlan, DecidePlan, vars

LEMMA SupersededPlans ==
    ASSUME PaintAssumption, PlansTyped, NEW v \in DOMAIN plans
    PROVE  LET plan == [plans[v] EXCEPT !.lifecycle = "superseded"]
           IN  /\ SameBut(plan, plans[v]) /\ plan.lifecycle = "superseded"
               /\ plan.reviews = plans[v].reviews
<1>1. plans[v] \in Plans
  BY EachPlanIsTyped
<1> QED
  BY <1>1 DEF Plans, SameBut

LEMMA FreshPlansStayNamed ==
    ASSUME PaintAssumption, HInv, [Next]_vars PROVE FreshPlansAreNamed'
<1>0. GInv /\ PlansTyped /\ LineagesGrow /\ FreshPlansAreNamed
  BY TypesByPart DEF HInv, GInv
<1>1. ASSUME plans' = plans PROVE FreshPlansAreNamed'
  BY <1>0, <1>1 DEF FreshPlansAreNamed, Fresh
<1>2. ASSUME NEW plan, Made(plan), AddPlan(plan) PROVE FreshPlansAreNamed'
  <2> DEFINE n == Len(plans)
  <2>1. /\ n \in Nat /\ DOMAIN plans = 1..n /\ DOMAIN plans' = 1..(n + 1)
        /\ plans'[n + 1] = plan
        /\ \A v \in 1..n : plans'[v] = [plans[v] EXCEPT !.lifecycle = "superseded"]
    BY <1>0, <1>2, PlansAreSuperseded
  <2>2. \A v \in 1..n : plans'[v].lifecycle = "superseded"
    BY <1>0, <2>1, SupersededPlans
  <2>3. ASSUME NEW v \in 1..(n + 1)
        PROVE  plans'[v].lifecycle \in {"generated", "edited"} =>
                  plans'[v].lifecycle =
                     IF plans'[v].kind = "edited" THEN "edited" ELSE "generated"
    <3>1. v \in 1..n \/ v = n + 1
      BY <2>1
    <3> QED
      BY <1>2, <2>1, <2>2, <3>1 DEF Made
  <2> QED
    BY <2>1, <2>3 DEF FreshPlansAreNamed, Fresh
<1>3. ASSUME NEW action \in {"submit", "decide"}, Transition(action)
      PROVE  FreshPlansAreNamed'
  <2> DEFINE n == Len(plans)
  <2>1. /\ DOMAIN plans' = DOMAIN plans
        /\ \A v \in DOMAIN plans : v # n => plans'[v] = plans[v]
        /\ plans'[n].lifecycle \in {"under_review", "decided"}
    BY <1>0, <1>3, PlansMove
  <2> QED
    BY <1>0, <2>1 DEF FreshPlansAreNamed, Fresh
<1> QED
  BY <1>0, <1>1, <1>2, <1>3, StepsOnPlans

(* The only writes to an invocation: its first, and what becomes of it.     *)
LEMMA StepsOnInvocations ==
    ASSUME PaintAssumption, GInv, [Next]_vars, invocation' # invocation
    PROVE  \E k \in Keys, status \in Statuses, named \in Reads :
              /\ invocation' = [invocation EXCEPT ![k] = Row(status, named)]
              /\ invocation[k].status # "none" => named = invocation[k].sent
<1>0. SourcesTyped /\ VersionsAreSettled /\ GenerationsTyped
  BY TypesByPart DEF GInv
<1>1. plans' = plans
  BY StepsOnPlans
<1>2. ~SourceCommand
  BY <1>0, SourceCommands DEF generating
<1>3. ASSUME NEW g \in Generations, Generate(g) \/ Crash(g)
      PROVE  \/ \E s \in {"running", "failed"} :
                   invocation[KeyOf[g]].status = "none" /\ Sends(g, s)
             \/ \E s \in {"succeeded", "failed", "outcome_unknown"} : ProviderAnswers(g, s)
  BY <1>3 DEF Generate, Crash, ReadImages, ReadRegions, Refused, InvokePaid, InvokeFixture,
              FreeClaim, Persist, NothingPersisted
<1>4. ASSUME NEW g \in Generations
      PROVE  KeyOf[g] \in Keys /\ read[g] \in Reads /\ invocation[KeyOf[g]].sent \in Reads
  BY <1>0, KeysOfGenerations DEF GenerationsTyped
<1>5. ASSUME NEW g \in Generations, NEW s \in {"running", "failed"},
             invocation[KeyOf[g]].status = "none", Sends(g, s)
      PROVE  \E k \in Keys, status \in Statuses, named \in Reads :
                /\ invocation' = [invocation EXCEPT ![k] = Row(status, named)]
                /\ invocation[k].status # "none" => named = invocation[k].sent
  BY <1>4, <1>5 DEF Sends, Statuses
<1>6. ASSUME NEW g \in Generations, NEW s \in {"succeeded", "failed", "outcome_unknown"},
             ProviderAnswers(g, s)
      PROVE  \E k \in Keys, status \in Statuses, named \in Reads :
                /\ invocation' = [invocation EXCEPT ![k] = Row(status, named)]
                /\ invocation[k].status # "none" => named = invocation[k].sent
  <2>1. invocation' = [invocation EXCEPT ![KeyOf[g]] = Row(s, invocation[KeyOf[g]].sent)]
    BY <1>0, <1>4, <1>6 DEF ProviderAnswers, GenerationsTyped
  <2>2. s \in Statuses
    BY DEF Statuses
  <2> QED
    BY <1>4, <2>1, <2>2
<1>7. ~Edit /\ ~SubmitPlan /\ ~DecidePlan
  BY DEF Edit, SubmitPlan, DecidePlan, Transition, generating
<1> QED
  BY <1>2, <1>3, <1>5, <1>6, <1>7 DEF Next, SourceCommand, vars

LEMMA FailuresStayForgotten ==
    ASSUME PaintAssumption, HInv, [Next]_vars PROVE FailuresForget'
<1>0. GInv /\ GenerationsTyped /\ FailuresForget
  BY TypesByPart DEF HInv, GInv
<1>1. CASE invocation' = invocation
  BY <1>0, <1>1 DEF FailuresForget
<1>2. CASE invocation' # invocation
  <2>1. PICK k \in Keys, status \in Statuses, named \in Reads :
           invocation' = [invocation EXCEPT ![k] = Row(status, named)]
    BY <1>0, <1>2, StepsOnInvocations
  <2>2. invocation'[k] = Row(status, named) /\ \A j \in Keys : j # k => invocation'[j] = invocation[j]
    BY <1>0, <2>1 DEF GenerationsTyped
  <2>3. Row(status, named).status = "failed" => Row(status, named).sent = NothingRead
    BY DEF Row
  <2> QED
    BY <1>0, <2>2, <2>3 DEF FailuresForget
<1> QED
  BY <1>1, <1>2

LEMMA AlwaysHInv == Spec => []HInv
<1>1. Init => HInv
  <2>1. Init => FreshPlansAreNamed /\ FailuresForget
    BY DEF Init, FreshPlansAreNamed, FailuresForget, NoInvocation
  <2> QED
    BY <2>1, PaintAssumption, Initially DEF HInv
<1>2. HInv /\ [Next]_vars => HInv'
  BY PaintAssumption, GInvIsInductive, FreshPlansStayNamed, FailuresStayForgotten DEF HInv
<1> QED
  BY <1>1, <1>2, PTL DEF Spec

(* A restore replays every history the service can write, statement by      *)
(* statement, through the triggers and constraints of the database, and     *)
(* ends with the rows and the events it was taken from.                     *)
THEOREM HistoriesAreRestorable == Spec => []HistoryIsRestorable
<1>1. HInv => HistoryIsRestorable
  BY PaintAssumption, RestoreIsExact
<1> QED
  BY <1>1, AlwaysHInv, PTL

-----------------------------------------------------------------------------
(* The successor of a line whose rows are all superseded is inserted,       *)
(* instructed and committed.                                                *)
LEMMA SuccessorIsAccepted ==
    ASSUME NEW ps, OneLine(ps), NEW n \in Nat, Len(ps) = n + 1,
           NEW rows, PlanTable(rows, ps, n), NEW events, DOMAIN events = 1..n,
           NEW P, Successions(P, n),
           NEW row, SameRow(row, ps[n + 1]), CameFromItsInvocation(row)
    PROVE  Execute(Execute(Execute(Db(rows, events, 1..n, {}, P),
                                   Insert(n + 1, row)), Instruct(n + 1)), Commit) =
              Db(Plus(rows, n + 1, row), Plus(events, n + 1, <<>>), 1..(n + 1), {}, {})
<1> DEFINE x == n + 1
           db == Db(rows, events, 1..n, {}, P)
           rows2 == Plus(rows, x, row)
           events2 == Plus(events, x, <<>>)
<1>0. DOMAIN rows = 1..n /\ 1..n \cup {x} = 1..x /\ x \notin 1..n /\ x \in 1..x /\ x \in Nat
  BY DEF PlanTable
<1>1. MayInsert(db, x, row)
  <2>1. db.rows = rows
    BY FieldsOfDb
  <2>2. x <= Len(ps) /\ Len(ps) \in Nat
    OBVIOUS
  <2> HIDE DEF db
  <2> QED
    BY <2>1, <2>2, NextRowIsLawful
<1>2. Execute(db, Insert(x, row)) = Db(rows2, events2, 1..n, {} \cup {x}, P)
  <2> HIDE DEF x
  <2> QED
    BY <1>1, InsertInto
<1>3. Execute(Db(rows2, events2, 1..n, {} \cup {x}, P), Instruct(x)) =
         Db(rows2, events2, 1..x, {x}, P)
  <2>1. x \in DOMAIN rows2 /\ ({} \cup {x}) \cup {x} = {x}
    BY <1>0 DEF Plus
  <2> HIDE DEF x, rows2, events2
  <2>2. Execute(Db(rows2, events2, 1..n, {} \cup {x}, P), Instruct(x)) =
           Db(rows2, events2, 1..n \cup {x}, ({} \cup {x}) \cup {x}, P)
    BY <2>1, InstructInto
  <2> QED
    BY <1>0, <2>1, <2>2
<1>4. Execute(Db(rows2, events2, 1..x, {x}, P), Commit) = Db(rows2, events2, 1..x, {}, {})
  <2> DEFINE last == Db(rows2, events2, 1..x, {x}, P)
  <2>1. ASSUME NEW p \in P PROVE Agrees(last, p.plan, p.lifecycle)
    <3>1. PICK w \in 1..n : p = Superseded(w)
      BY DEF Successions
    <3>2. p.plan = w /\ p.lifecycle = "superseded"
      BY <3>1 DEF Superseded
    <3>3. w + 1 \in 1..x /\ w + 1 \in 1..Len(ps)
      BY <1>0
    <3>4. ps[w + 1].parent = w
      BY <3>3 DEF OneLine
    <3>5. SameRow(rows2[w + 1], ps[w + 1]) /\ w + 1 \in DOMAIN rows2
      BY <1>0, <3>3 DEF Plus, PlanTable
    <3>6. last.rows = rows2
      BY FieldsOfDb
    <3> HIDE DEF last, rows2
    <3> QED
      BY <3>2, <3>4, <3>5, <3>6 DEF Agrees, SameRow
  <2>2. {x} \in SUBSET (1..x)
    BY <1>0
  <2> HIDE DEF x, rows2, events2
  <2> QED
    BY <2>1, <2>2, CommitDb
<1> HIDE DEF rows2, events2, x
<1>5. Execute(Execute(Execute(db, Insert(x, row)), Instruct(x)), Commit) =
         Db(rows2, events2, 1..x, {}, {})
  BY <1>2, <1>3, <1>4
<1> QED
  BY <1>5 DEF rows2, events2, x

(* What the tables say after the insert is what the plans say after it.     *)
LEMMA RowsAfterAddition ==
    ASSUME PaintAssumption, PlansTyped, NEW plan, AddPlan(plan), Made(plan)
    PROVE  LET n == Len(plans)
               row == [c \in Columns |-> plans'[n + 1][c]]
           IN  Tables(Len(plans))' =
                  Db(Plus([w \in 1..n |-> RowAs(w, "superseded")], n + 1, row),
                     Plus([w \in 1..n |-> plans[w].reviews], n + 1, <<>>),
                     1..(n + 1), {}, {})
<1> DEFINE n == Len(plans)
           row == [c \in Columns |-> plans'[n + 1][c]]
           rows == Plus([w \in 1..n |-> RowAs(w, "superseded")], n + 1, row)
           events == Plus([w \in 1..n |-> plans[w].reviews], n + 1, <<>>)
<1>1. /\ n \in Nat /\ DOMAIN plans = 1..n /\ plans'[n + 1] = plan /\ Len(plans') = n + 1
      /\ \A v \in 1..n : plans'[v] = [plans[v] EXCEPT !.lifecycle = "superseded"]
  BY PlansAreSuperseded
<1>2. ASSUME NEW w \in 1..n
      PROVE  /\ [c \in Columns |-> plans'[w][c]] = RowAs(w, "superseded")
             /\ plans'[w].reviews = plans[w].reviews
  <2>1. w \in DOMAIN plans /\ plans'[w] = [plans[w] EXCEPT !.lifecycle = "superseded"]
    BY <1>1
  <2>2. /\ SameBut(plans'[w], plans[w]) /\ plans'[w].lifecycle = "superseded"
        /\ plans'[w].reviews = plans[w].reviews
    BY <2>1, SupersededPlans
  <2> QED
    BY <2>2 DEF SameBut, RowAs, PlanRow, Columns
<1>3. [w \in 1..(n + 1) |-> [c \in Columns |-> plans'[w][c]]] = rows
  BY <1>1, <1>2 DEF Plus
<1>4. [w \in 1..(n + 1) |-> plans'[w].reviews] = events
  BY <1>1, <1>2 DEF Plus, Made
<1>5. Tables(Len(plans))' =
         Db([w \in 1..(n + 1) |-> [c \in Columns |-> plans'[w][c]]],
            [w \in 1..(n + 1) |-> plans'[w].reviews], 1..(n + 1), {}, {})
  BY <1>1 DEF Tables, Db, PlanRow
<1> QED
  BY <1>3, <1>4, <1>5

LEMMA TransactTwo ==
    ASSUME NEW db, NEW a, NEW b
    PROVE  Transact(db, <<a, b>>) = Execute(Execute(Execute(db, a), b), Commit)
<1>1. <<a, b>> \in Seq({a, b})
  OBVIOUS
<1>2. Transact(db, <<a, b>>) = Execute(Run(db, <<a, b>>), Commit)
  BY <1>1, TransactIs
<1>3. Run(db, <<a, b>>) = Execute(Execute(db, a), b)
  BY RunTwo
<1> QED
  BY <1>2, <1>3

LEMMA TransactThree ==
    ASSUME NEW db, NEW a, NEW b, NEW c
    PROVE  Transact(db, <<a>> \o <<b, c>>) =
              Execute(Execute(Execute(Execute(db, a), b), c), Commit)
<1> DEFINE S == {a, b, c}
<1>1. <<a>> \in Seq(S) /\ <<b, c>> \in Seq(S)
  OBVIOUS
<1>2. <<a>> \o <<b, c>> \in Seq(S)
  BY <1>1, ConcatProperties
<1>3. \A s \in Seq(S) : Transact(db, s) = Execute(Run(db, s), Commit)
  BY TransactIs
<1>4. Run(db, <<a>> \o <<b, c>>) = Run(Run(db, <<a>>), <<b, c>>)
  <2>1. \A s, t \in Seq(S) : Run(db, s \o t) = Run(Run(db, s), t)
    BY RunConcat
  <2> HIDE DEF S
  <2> QED
    BY <1>1, <2>1
<1>5. Run(db, <<a>>) = Execute(db, a)
  BY RunOne
<1>6. \A d : Run(d, <<b, c>>) = Execute(Execute(d, b), c)
  BY RunTwo
<1> HIDE DEF S
<1> QED
  BY <1>2, <1>3, <1>4, <1>5, <1>6

(* A command that adds a plan: its transaction is accepted.                 *)
LEMMA AdditionIsAccepted ==
    ASSUME PaintAssumption, GInv, GInv', invocation' = invocation,
           OneLine(plans'), NEW plan, Made(plan), AddPlan(plan)
    PROVE  Transact(Tables(Len(plans)), ServiceScript) = Tables(Len(plans))'
<1> DEFINE n == Len(plans)
           x == n + 1
           row == [c \in Columns |-> plans'[n + 1][c]]
           old == [w \in 1..n |-> RowAs(w, "superseded")]
           events == [w \in 1..n |-> plans[w].reviews]
           insert == Insert(n + 1, row)
           instruct == Instruct(n + 1)
           first == IF n = 0 THEN {} ELSE {Superseded(n)}
<1>0. /\ PlansTyped /\ PlansTyped' /\ PlansAreLinear /\ PlansAreSourced'
      /\ n \in Nat /\ DOMAIN plans = 1..n
  BY PlansOfLine, TypesByPart DEF GInv, TypeOK, PlansTyped
<1>1. /\ Len(plans') = n + 1 /\ DOMAIN plans' = 1..(n + 1) /\ plans'[n + 1] = plan
      /\ \A v \in 1..n : plans'[v] = [plans[v] EXCEPT !.lifecycle = "superseded"]
  BY <1>0, PlansAreSuperseded
<1>2. SameRow(row, plans'[n + 1]) /\ CameFromItsInvocation(row)
  <2>1. SameRow(row, plans'[n + 1]) /\ row.source = plans'[n + 1].source
    BY DEF SameRow, Columns
  <2>2. n + 1 \in DOMAIN plans'
    BY <1>0, <1>1
  <2>3. /\ invocation[plans'[n + 1].key].status = "succeeded"
        /\ ProvenanceOf(invocation[plans'[n + 1].key].sent) = plans'[n + 1].source
    BY <1>0, <2>2 DEF PlansAreSourced, ProvenanceOf
  <2> QED
    BY <2>1, <2>3 DEF SameRow, CameFromItsInvocation
<1>3. PlanTable(old, plans', n)
  <2>1. ASSUME NEW w \in 1..n
        PROVE  SameRow(old[w], plans'[w]) /\ old[w].lifecycle = "superseded"
    <3>1. w \in DOMAIN plans /\ plans'[w] = [plans[w] EXCEPT !.lifecycle = "superseded"]
      BY <1>0, <1>1
    <3>2. SameBut(plans'[w], plans[w])
      BY <1>0, <3>1, SupersededPlans
    <3>3. old[w] = RowAs(w, "superseded")
      OBVIOUS
    <3> QED
      BY <3>2, <3>3, RowsOfPlans DEF SameRow, SameBut
  <2> QED
    BY <2>1 DEF PlanTable
<1>4. Successions(first, n)
  BY <1>0 DEF Successions
<1>5. DOMAIN events = 1..n
  OBVIOUS
<1> DEFINE done == Execute(Execute(Execute(Db(old, events, 1..n, {}, first), insert),
                                   instruct), Commit)
<1>6. done = Tables(n)'
  <2>1. done = Db(Plus(old, n + 1, row), Plus(events, n + 1, <<>>), 1..(n + 1), {}, {})
    <3> HIDE DEF row, old, events, first, n
    <3> QED
      BY <1>0, <1>1, <1>2, <1>3, <1>4, <1>5, SuccessorIsAccepted
  <2> QED
    BY <1>0, <2>1, RowsAfterAddition
<1>7. Len(plans') > Len(plans)
  BY <1>0, <1>1
<1>8. CASE n = 0
  <2>1. ServiceScript = <<insert, instruct>>
    <3>1. ServiceScript = <<>> \o <<insert, instruct>>
      BY <1>7, <1>8 DEF ServiceScript
    <3> HIDE DEF insert, instruct
    <3> QED
      BY <3>1
  <2>2. Tables(n) = Db(old, events, 1..n, {}, first)
    <3>1. [v \in 1..n |-> PlanRow(v)] = old
      BY <1>8
    <3> QED
      BY <1>8, <3>1, TablesAre
  <2>3. Transact(Tables(n), <<insert, instruct>>) =
           Execute(Execute(Execute(Tables(n), insert), instruct), Commit)
    <3> HIDE DEF insert, instruct, n
    <3> QED
      BY TransactTwo
  <2> QED
    BY <1>6, <2>1, <2>2, <2>3
<1>9. CASE n # 0
  <2> DEFINE update == Update(n, "superseded")
             rows == [v \in 1..n |-> PlanRow(v)]
  <2>1. ServiceScript = <<update>> \o <<insert, instruct>>
    BY <1>7, <1>9 DEF ServiceScript
  <2>2. rows[n].lifecycle = plans[n].lifecycle /\ MayUpdatePlan(plans[n].lifecycle, "superseded")
    <3>1. n \in 1..n
      BY <1>0, <1>9
    <3>2. plans[n].lifecycle \in {"generated", "edited", "under_review", "decided"}
      <4>1. plans[n] \in Plans /\ plans[n].lifecycle # "superseded"
        BY <1>0, <3>1, EachPlanIsTyped DEF PlansAreLinear
      <4> QED
        BY <4>1 DEF Plans
    <3> QED
      BY <3>1, <3>2, RowsOfPlans DEF MayUpdatePlan
  <2>3. Execute(Tables(n), update) = Db(old, events, 1..n, {}, first)
    <3>1. Tables(n) = Db(rows, events, 1..n, {}, {})
      BY TablesAre
    <3>2. [rows EXCEPT ![n].lifecycle = "superseded"] = old
      <4>1. ASSUME NEW w \in 1..n, w # n PROVE PlanRow(w) = RowAs(w, "superseded")
        <5>1. w < n /\ w \in DOMAIN plans
          <6>1. n \in Nat /\ DOMAIN plans = 1..n
            BY <1>0
          <6> HIDE DEF n
          <6> QED
            BY <4>1, <6>1
        <5>2. plans[w].lifecycle = "superseded"
          BY <1>0, <5>1 DEF PlansAreLinear
        <5> QED
          BY <5>2, RowsOfPlans
      <4>2. n \in 1..n /\ [rows[n] EXCEPT !.lifecycle = "superseded"] = RowAs(n, "superseded")
        <5>1. n \in 1..n /\ rows[n] = PlanRow(n)
          BY <1>0, <1>9
        <5> HIDE DEF rows, n
        <5> QED
          BY <5>1 DEF RowAs
      <4>3. [rows EXCEPT ![n] = [rows[n] EXCEPT !.lifecycle = "superseded"]] = old
        BY <4>1, <4>2
      <4>4. [rows EXCEPT ![n].lifecycle = "superseded"] =
               [rows EXCEPT ![n] = [rows[n] EXCEPT !.lifecycle = "superseded"]]
        OBVIOUS
      <4> QED
        BY <4>3, <4>4
    <3>3. {} \cup {[plan |-> n, lifecycle |-> "superseded"]} = first
      BY <1>9 DEF Superseded
    <3> HIDE DEF rows, old, events, first, n
    <3>4. Execute(Db(rows, events, 1..n, {}, {}), update) =
             Db([rows EXCEPT ![n].lifecycle = "superseded"], events, 1..n, {},
                {} \cup {[plan |-> n, lifecycle |-> "superseded"]})
      BY <2>2, UpdateInto
    <3> QED
      BY <3>1, <3>2, <3>3, <3>4
  <2>4. Transact(Tables(n), <<update>> \o <<insert, instruct>>) =
           Execute(Execute(Execute(Execute(Tables(n), update), insert), instruct), Commit)
    <3> HIDE DEF insert, instruct, update, n
    <3> QED
      BY TransactThree
  <2> QED
    BY <1>6, <2>1, <2>3, <2>4
<1> QED
  BY <1>8, <1>9

(* What a review makes of the last plan.                                    *)
LEMMA ReviewedPlan ==
    ASSUME PaintAssumption, GInv, NEW action \in {"submit", "decide"}, Transition(action)
    PROVE  LET n == Len(plans)
           IN  /\ n \in Nat /\ DOMAIN plans = 1..n /\ n \in 1..n /\ Len(plans') = n
               /\ \A v \in 1..n : v # n => plans'[v] = plans[v]
               /\ SameBut(plans'[n], plans[n])
               /\ plans'[n].lifecycle = LifecycleOf(action)
               /\ plans'[n].reviews = Append(plans[n].reviews, action)
               /\ \/ /\ action = "submit" /\ plans[n].lifecycle \in {"generated", "edited"}
                     /\ plans[n].reviews = <<>>
                  \/ /\ action = "decide" /\ plans[n].lifecycle = "under_review"
                     /\ plans[n].reviews = <<"submit">>
<1> DEFINE n == Len(plans)
           p == plans[n]
<1>0. PlansTyped /\ LineagesGrow
  BY TypesByPart DEF GInv
<1>1. /\ n \in Nat /\ DOMAIN plans = 1..n /\ n \in 1..n /\ Len(plans') = n
      /\ \A v \in 1..n : v # n => plans'[v] = plans[v]
      /\ SameBut(plans'[n], plans[n])
  BY <1>0, PlansMove
<1>2. p \in Plans
  BY <1>0, <1>1, EachPlanIsTyped
<1>3. plans' = [plans EXCEPT ![n].lifecycle = LifecycleOf(action),
                             ![n].reviews = Append(@, action)]
  BY DEF Transition
<1>4. /\ plans'[n].lifecycle = LifecycleOf(action)
      /\ plans'[n].reviews = Append(p.reviews, action)
  BY <1>1, <1>2, <1>3 DEF Plans
<1>5. /\ action = "submit" => p.lifecycle \in {"generated", "edited"}
      /\ action = "decide" => p.lifecycle = "under_review"
  BY DEF Transition, CanReviewPlan, Current
<1>6. p.lifecycle # "superseded" => p.reviews = LatestReviewOf[p.lifecycle]
  BY <1>0, <1>1 DEF LineagesGrow
<1>7. /\ action = "submit" => p.reviews = <<>>
      /\ action = "decide" => p.reviews = <<"submit">>
  BY <1>5, <1>6 DEF LatestReviewOf
<1> QED
  BY <1>1, <1>4, <1>5, <1>7

LEMMA LastAppended ==
    ASSUME NEW s \in {<<>>, <<"submit">>}, NEW a \in {"submit", "decide"}
    PROVE  LET t == Append(s, a) IN t[Len(t)] = a /\ Contains(t, a)
<1>1. s \in Seq({"submit", "decide"})
  <2>1. <<>> \in Seq({"submit", "decide"}) /\ <<"submit">> \in Seq({"submit", "decide"})
    OBVIOUS
  <2> QED
    BY <2>1
<1> DEFINE t == Append(s, a)
<1>2. Len(t) \in 1..Len(t) /\ t[Len(t)] = a
  BY <1>1
<1> HIDE DEF t
<1>3. Contains(t, a)
  BY <1>2 DEF Contains
<1> QED
  BY <1>2, <1>3 DEF t

LEMMA MayBeRecorded ==
    ASSUME NEW e, NEW a,
           \/ a = "submit" /\ e = <<>>
           \/ a = "decide" /\ e = <<"submit">>
    PROVE  MayRecord(e, a) /\ EventIndexes(e, a)
  BY DEF MayRecord, EventIndexes, Contains

(* A review: its transaction is accepted.                                   *)
LEMMA ReviewIsAccepted ==
    ASSUME PaintAssumption, GInv, NEW action \in {"submit", "decide"}, Transition(action)
    PROVE  Transact(Tables(Len(plans)), ServiceScript) = Tables(Len(plans))'
<1> DEFINE n == Len(plans)
           l == LifecycleOf(action)
           p == plans[n]
           rows == [w \in 1..n |-> PlanRow(w)]
           events == [w \in 1..n |-> plans[w].reviews]
           rows2 == [rows EXCEPT ![n].lifecycle = l]
           events2 == [events EXCEPT ![n] = Append(events[n], action)]
           judged == [plan |-> n, lifecycle |-> l]
           update == Update(n, l)
           record == Record(n, action)
<1>1. /\ n \in Nat /\ DOMAIN plans = 1..n /\ n \in 1..n /\ Len(plans') = n
      /\ \A v \in 1..n : v # n => plans'[v] = plans[v]
      /\ SameBut(plans'[n], plans[n])
      /\ plans'[n].lifecycle = l
      /\ plans'[n].reviews = Append(p.reviews, action)
      /\ \/ /\ action = "submit" /\ p.lifecycle \in {"generated", "edited"}
            /\ p.reviews = <<>>
         \/ /\ action = "decide" /\ p.lifecycle = "under_review"
            /\ p.reviews = <<"submit">>
  BY ReviewedPlan
<1>2. ServiceScript = <<update, record>>
  <2>1. ~(Len(plans') > Len(plans))
    <3>1. n \in Nat /\ Len(plans') = n
      BY <1>1
    <3> QED
      BY <3>1
  <2>2. plans'[n].reviews[Len(plans'[n].reviews)] = action
    BY <1>1, LastAppended
  <2> QED
    BY <1>1, <2>1, <2>2 DEF ServiceScript
<1>3. /\ rows[n].lifecycle = p.lifecycle /\ events[n] = p.reviews
      /\ MayUpdatePlan(p.lifecycle, l)
      /\ MayRecord(p.reviews, action) /\ EventIndexes(p.reviews, action)
  <2>1. rows[n].lifecycle = p.lifecycle /\ events[n] = p.reviews
    BY <1>1, RowsOfPlans
  <2>2. MayUpdatePlan(p.lifecycle, l)
    BY <1>1 DEF MayUpdatePlan, LifecycleOf
  <2>3. MayRecord(p.reviews, action) /\ EventIndexes(p.reviews, action)
    <3>1. \/ action = "submit" /\ p.reviews = <<>>
          \/ action = "decide" /\ p.reviews = <<"submit">>
      BY <1>1
    <3> HIDE DEF p, n, l, rows, events, rows2, events2, judged, update, record
    <3> QED
      BY <3>1, MayBeRecorded, Zenon
  <2> QED
    BY <2>1, <2>2, <2>3
<1>4. Tables(n) = Db(rows, events, 1..n, {}, {})
  BY TablesAre
<1>5. ASSUME NEW w \in 1..n
      PROVE  /\ [c \in Columns |-> plans'[w][c]] = IF w = n THEN RowAs(n, l) ELSE PlanRow(w)
             /\ plans'[w].reviews = IF w = n THEN Append(p.reviews, action)
                                             ELSE plans[w].reviews
  <2>1. CASE w = n
    BY <1>1, <2>1 DEF SameBut, RowAs, PlanRow, Columns
  <2>2. CASE w # n
    BY <1>1, <2>2 DEF PlanRow
  <2> QED
    BY <2>1, <2>2
<1>6. Tables(n)' = Db(rows2, events2, 1..n, {}, {})
  <2>1. Tables(n)' = Db([w \in 1..n |-> [c \in Columns |-> plans'[w][c]]],
                        [w \in 1..n |-> plans'[w].reviews], 1..n, {}, {})
    BY <1>1 DEF Tables, Db, PlanRow
  <2>2. [w \in 1..n |-> [c \in Columns |-> plans'[w][c]]] = rows2
    <3>1. [rows[n] EXCEPT !.lifecycle = l] = RowAs(n, l)
      BY <1>1 DEF RowAs
    <3>2. rows2 = [rows EXCEPT ![n] = [rows[n] EXCEPT !.lifecycle = l]]
      OBVIOUS
    <3>3. [rows EXCEPT ![n] = RowAs(n, l)] =
             [w \in 1..n |-> IF w = n THEN RowAs(n, l) ELSE PlanRow(w)]
      BY <1>1
    <3>4. [w \in 1..n |-> [c \in Columns |-> plans'[w][c]]] =
             [w \in 1..n |-> IF w = n THEN RowAs(n, l) ELSE PlanRow(w)]
      BY <1>5
    <3> QED
      BY <3>1, <3>2, <3>3, <3>4
  <2>3. [w \in 1..n |-> plans'[w].reviews] = events2
    <3>1. events2 = [w \in 1..n |-> IF w = n THEN Append(p.reviews, action)
                                             ELSE plans[w].reviews]
      BY <1>1
    <3> QED
      BY <1>5, <3>1
  <2> QED
    BY <2>1, <2>2, <2>3
<1>7. Contains(events2[n], ActionOf[l]) /\ l # "superseded" /\ l \in DOMAIN ActionOf
  <2>1. Contains(Append(p.reviews, action), action)
    BY <1>1, LastAppended
  <2>2. events2[n] = Append(p.reviews, action)
    BY <1>1, <1>3
  <2>3. ActionOf[l] = action /\ l # "superseded" /\ l \in DOMAIN ActionOf
    BY DEF ActionOf, LifecycleOf
  <2> QED
    BY <2>1, <2>2, <2>3
<1>8. {} \cup {judged} \cup {judged} = {judged} /\ {} \in SUBSET (1..n)
  OBVIOUS
<1>9. rows2[n].lifecycle = l
  <2>1. rows2[n] = [rows[n] EXCEPT !.lifecycle = l] /\ rows[n] = PlanRow(n)
    BY <1>1
  <2>2. rows2[n] = RowAs(n, l)
    BY <2>1 DEF RowAs
  <2> QED
    BY <2>2, RowsOfPlans
<1>10. Transact(Tables(n), <<update, record>>) = Db(rows2, events2, 1..n, {}, {})
  <2> HIDE DEF n, l, p, rows, events
  <2>1. Execute(Db(rows, events, 1..n, {}, {}), update) =
           Db(rows2, events, 1..n, {}, {} \cup {judged})
    BY <1>3, UpdateInto
  <2> HIDE DEF rows2
  <2>2. Execute(Db(rows2, events, 1..n, {}, {} \cup {judged}), record) =
           Db(rows2, events2, 1..n, {}, {} \cup {judged} \cup {judged})
    BY <1>3, RecordInto DEF l
  <2>3. Agrees(Db(rows2, events2, 1..n, {}, {judged}), n, l)
    <3> HIDE DEF events2
    <3> QED
      BY <1>7, <1>9, FieldsOfDb DEF Agrees
  <2>4. \A q \in {judged} : Agrees(Db(rows2, events2, 1..n, {}, {judged}), q.plan, q.lifecycle)
    BY <2>3
  <2> HIDE DEF events2, judged, update, record
  <2>5. Execute(Db(rows2, events2, 1..n, {}, {judged}), Commit) =
           Db(rows2, events2, 1..n, {}, {})
    BY <1>8, <2>4, CommitDb
  <2>6. Transact(Tables(n), <<update, record>>) =
           Execute(Execute(Execute(Tables(n), update), record), Commit)
    BY TransactTwo
  <2> QED
    BY <1>4, <1>8, <2>1, <2>2, <2>5, <2>6
<1> QED
  BY <1>2, <1>6, <1>10

LEMMA PayloadsStay ==
    ASSUME PaintAssumption, HInv, [Next]_vars, NEW k \in Keys
    PROVE  MayUpdateInvocation(invocation[k], invocation'[k])
<1>0. GInv /\ GenerationsTyped /\ FailuresForget
  BY TypesByPart DEF HInv, GInv
<1> SUFFICES ASSUME invocation[k].status # "none"
             PROVE  invocation'[k] = Row(invocation'[k].status, invocation[k].sent)
  BY DEF MayUpdateInvocation
<1>1. CASE invocation'[k] = invocation[k]
  <2>1. invocation[k] \in [status : Statuses, sent : Reads]
    BY <1>0 DEF GenerationsTyped
  <2>2. invocation[k] = [status |-> invocation[k].status, sent |-> invocation[k].sent]
    BY <2>1
  <2> QED
    BY <1>0, <1>1, <2>2 DEF Row, FailuresForget
<1>2. CASE invocation'[k] # invocation[k]
  <2>1. PICK j \in Keys, status \in Statuses, named \in Reads :
           /\ invocation' = [invocation EXCEPT ![j] = Row(status, named)]
           /\ invocation[j].status # "none" => named = invocation[j].sent
    BY <1>0, <1>2, StepsOnInvocations
  <2>2. k = j /\ invocation'[k] = Row(status, named)
    BY <1>0, <1>2, <2>1 DEF GenerationsTyped
  <2>3. Row(status, named).status = status
    BY DEF Row
  <2> QED
    BY <2>1, <2>2, <2>3
<1> QED
  BY <1>1, <1>2

(* Every transaction of the service passes the triggers, the indexes and    *)
(* the deferred constraints, and leaves in the tables what the service      *)
(* believes to be there; no retry rewrites what an invocation was asked.    *)
THEOREM CommandsPassTheGuards == Spec => GuardsAcceptCommands
<1>1. GInv' => OneLine(plans)'
  BY PlansAreOneLine, PTL
<1>2. GInv' => OneLine(plans')
  BY <1>1 DEF OneLine
<1>3. ASSUME HInv, [Next]_vars, plans' # plans
      PROVE  Transact(Tables(Len(plans)), ServiceScript) = Tables(Len(plans))'
  <2>1. GInv /\ GInv'
    BY <1>3, PaintAssumption, GInvIsInductive DEF HInv
  <2>2. /\ invocation' = invocation
        /\ \/ \E plan : Made(plan) /\ AddPlan(plan)
           \/ \E action \in {"submit", "decide"} : Transition(action)
    BY <1>3, <2>1, PaintAssumption, StepsOnPlans
  <2>3. OneLine(plans')
    BY <1>2, <2>1
  <2>4. ASSUME NEW plan, Made(plan), AddPlan(plan)
        PROVE  Transact(Tables(Len(plans)), ServiceScript) = Tables(Len(plans))'
    BY <2>1, <2>2, <2>3, <2>4, PaintAssumption, AdditionIsAccepted
  <2>5. ASSUME NEW action \in {"submit", "decide"}, Transition(action)
        PROVE  Transact(Tables(Len(plans)), ServiceScript) = Tables(Len(plans))'
    BY <2>1, <2>5, PaintAssumption, ReviewIsAccepted
  <2> QED
    BY <2>2, <2>4, <2>5
<1>4. HInv /\ [Next]_vars =>
         [/\ plans' # plans =>
               Transact(Tables(Len(plans)), ServiceScript) = Tables(Len(plans))'
          /\ \A k \in Keys : MayUpdateInvocation(invocation[k], invocation'[k])]_vars
  BY <1>3, PaintAssumption, PayloadsStay
<1> QED
  BY <1>4, AlwaysHInv, PTL DEF Spec, GuardsAcceptCommands

-----------------------------------------------------------------------------
(* Region snapshots, with vertices anywhere in the plane.                   *)
Points == Int \X Int

(* The point k/n of the way from a to b is the one l/n of the way from c    *)
(* to d.                                                                    *)
SamePoint(a, b, c, d, k, l, n) ==
    /\ n * a[1] + k * (b[1] - a[1]) = n * c[1] + l * (d[1] - c[1])
    /\ n * a[2] + k * (b[2] - a[2]) = n * c[2] + l * (d[2] - c[2])

(* Two segments have a point in common, be it a fraction of the way.        *)
Meet(a, b, c, d) ==
    \E n \in Nat \ {0} : \E k, l \in 0..n : SamePoint(a, b, c, d, k, l, n)

Between(u, v, w) == Lesser(u, v) <= w /\ w <= Greater(u, v)

LEMMA CrossIsInt ==
    ASSUME NEW a \in Points, NEW b \in Points, NEW c \in Points
    PROVE  /\ Cross(a, b, c) \in Int
           /\ Cross(a, b, c) > 0 <=> Orientation(a, b, c) = 1
           /\ Cross(a, b, c) < 0 <=> Orientation(a, b, c) = -1
           /\ Cross(a, b, c) = 0 <=> Orientation(a, b, c) = 0
<1>1. Cross(a, b, c) \in Int
  BY DEF Cross, Points
<1> QED
  BY <1>1 DEF Orientation

LEMMA CrossIsZero ==
    ASSUME NEW a \in Points, NEW b \in Points, NEW c \in Points
    PROVE  Cross(a, b, c) = 0 <=> (b[1] - a[1]) * (c[2] - a[2]) = (b[2] - a[2]) * (c[1] - a[1])
<1>1. ASSUME NEW x \in Int, NEW y \in Int PROVE x - y = 0 <=> x = y
  OBVIOUS
<1>2. (b[1] - a[1]) * (c[2] - a[2]) \in Int /\ (b[2] - a[2]) * (c[1] - a[1]) \in Int
  BY DEF Points
<1> QED
  BY <1>1, <1>2 DEF Cross

LEMMA OnSegmentIs ==
    ASSUME NEW a \in Points, NEW b \in Points, NEW c \in Points
    PROVE  OnSegment(a, b, c) <=> /\ Between(a[1], b[1], c[1]) /\ Between(a[2], b[2], c[2])
                                  /\ Cross(a, b, c) = 0
<1>1. OnSegment(a, b, c) <=> /\ \A axis \in {1, 2} : Between(a[axis], b[axis], c[axis])
                             /\ Orientation(a, b, c) = 0
  BY DEF OnSegment, Between
<1> QED
  BY <1>1, CrossIsInt

LEMMA LinesKeepBetween ==
    ASSUME NEW a1 \in Int, NEW a2 \in Int, NEW b1 \in Int, NEW b2 \in Int,
           NEW c1 \in Int, NEW c2 \in Int,
           (b1 - a1) * (c2 - a2) = (b2 - a2) * (c1 - a1), a1 # b1, Between(a1, b1, c1)
    PROVE  Between(a2, b2, c2)
<1>1. CASE a1 < b1 /\ a2 <= b2
  <2>1. a1 <= c1 /\ c1 <= b1
    BY <1>1 DEF Between, Lesser, Greater
  <2>2. a2 <= c2 /\ c2 <= b2
    BY <1>1, <2>1
  <2> QED
    BY <1>1, <2>2 DEF Between, Lesser, Greater
<1>2. CASE a1 < b1 /\ b2 < a2
  <2>1. a1 <= c1 /\ c1 <= b1
    BY <1>2 DEF Between, Lesser, Greater
  <2>2. b2 <= c2 /\ c2 <= a2
    BY <1>2, <2>1
  <2> QED
    BY <1>2, <2>2 DEF Between, Lesser, Greater
<1>3. CASE b1 < a1 /\ a2 <= b2
  <2>1. b1 <= c1 /\ c1 <= a1
    BY <1>3 DEF Between, Lesser, Greater
  <2>2. a2 <= c2 /\ c2 <= b2
    BY <1>3, <2>1
  <2> QED
    BY <1>3, <2>2 DEF Between, Lesser, Greater
<1>4. CASE b1 < a1 /\ b2 < a2
  <2>1. b1 <= c1 /\ c1 <= a1
    BY <1>4 DEF Between, Lesser, Greater
  <2>2. b2 <= c2 /\ c2 <= a2
    BY <1>4, <2>1
  <2> QED
    BY <1>4, <2>2 DEF Between, Lesser, Greater
<1> QED
  BY <1>1, <1>2, <1>3, <1>4

(* A point of the line through a and b that is between them on one axis is  *)
(* on the segment.                                                          *)
LEMMA OnSegmentByAxis ==
    ASSUME NEW a \in Points, NEW b \in Points, NEW c \in Points, Cross(a, b, c) = 0,
           \/ a[1] # b[1] /\ Between(a[1], b[1], c[1])
           \/ a[2] # b[2] /\ Between(a[2], b[2], c[2])
    PROVE  OnSegment(a, b, c)
<1>0. /\ a[1] \in Int /\ a[2] \in Int /\ b[1] \in Int /\ b[2] \in Int
      /\ c[1] \in Int /\ c[2] \in Int
  BY DEF Points
<1>1. (b[1] - a[1]) * (c[2] - a[2]) = (b[2] - a[2]) * (c[1] - a[1])
  BY CrossIsZero
<1>2. (b[2] - a[2]) * (c[1] - a[1]) = (b[1] - a[1]) * (c[2] - a[2])
  BY <1>0, <1>1
<1>3. ASSUME a[1] # b[1], Between(a[1], b[1], c[1])
      PROVE  Between(a[2], b[2], c[2])
  BY <1>0, <1>1, <1>3, LinesKeepBetween
<1>4. ASSUME a[2] # b[2], Between(a[2], b[2], c[2])
      PROVE  Between(a[1], b[1], c[1])
  BY <1>0, <1>2, <1>4, LinesKeepBetween
<1> QED
  BY <1>3, <1>4, OnSegmentIs

LEMMA OnSegmentIsOneOfItsPoints ==
    ASSUME NEW a \in Points, NEW b \in Points, NEW c \in Points, OnSegment(a, b, c)
    PROVE  \E n \in Nat \ {0} : \E k \in 0..n :
               /\ n * a[1] + k * (b[1] - a[1]) = n * c[1]
               /\ n * a[2] + k * (b[2] - a[2]) = n * c[2]
<1>0. /\ a[1] \in Int /\ a[2] \in Int /\ b[1] \in Int /\ b[2] \in Int
      /\ c[1] \in Int /\ c[2] \in Int
  BY DEF Points
<1>1. (b[1] - a[1]) * (c[2] - a[2]) = (b[2] - a[2]) * (c[1] - a[1])
  BY OnSegmentIs, CrossIsZero
<1>2. Between(a[1], b[1], c[1]) /\ Between(a[2], b[2], c[2])
  BY OnSegmentIs
<1>3. CASE a[1] < b[1]
  <2> DEFINE n == b[1] - a[1]
             k == c[1] - a[1]
  <2>1. n \in Nat \ {0} /\ k \in 0..n
    BY <1>0, <1>2, <1>3 DEF Between, Lesser, Greater
  <2>2. n * a[1] + k * (b[1] - a[1]) = n * c[1]
    BY <1>0
  <2>3. n * a[2] + k * (b[2] - a[2]) = n * c[2]
    BY <1>0, <1>1
  <2> QED
    BY <2>1, <2>2, <2>3
<1>4. CASE b[1] < a[1]
  <2> DEFINE n == a[1] - b[1]
             k == a[1] - c[1]
  <2>1. n \in Nat \ {0} /\ k \in 0..n
    BY <1>0, <1>2, <1>4 DEF Between, Lesser, Greater
  <2>2. n * a[1] + k * (b[1] - a[1]) = n * c[1]
    BY <1>0
  <2>3. n * (c[2] - a[2]) = k * (b[2] - a[2])
    BY <1>0, <1>1
  <2>4. n * a[2] + k * (b[2] - a[2]) = n * c[2]
    BY <1>0, <2>3
  <2> QED
    BY <2>1, <2>2, <2>4
<1>5. CASE a[1] = b[1] /\ a[2] < b[2]
  <2> DEFINE n == b[2] - a[2]
             k == c[2] - a[2]
  <2>1. n \in Nat \ {0} /\ k \in 0..n
    BY <1>0, <1>2, <1>5 DEF Between, Lesser, Greater
  <2>2. c[1] = a[1]
    BY <1>0, <1>2, <1>5 DEF Between, Lesser, Greater
  <2>3. n * a[1] + k * (b[1] - a[1]) = n * c[1]
    BY <1>0, <1>5, <2>2
  <2>4. n * a[2] + k * (b[2] - a[2]) = n * c[2]
    BY <1>0
  <2> QED
    BY <2>1, <2>3, <2>4
<1>6. CASE a[1] = b[1] /\ b[2] < a[2]
  <2> DEFINE n == a[2] - b[2]
             k == a[2] - c[2]
  <2>1. n \in Nat \ {0} /\ k \in 0..n
    BY <1>0, <1>2, <1>6 DEF Between, Lesser, Greater
  <2>2. c[1] = a[1]
    BY <1>0, <1>2, <1>6 DEF Between, Lesser, Greater
  <2>3. n * a[1] + k * (b[1] - a[1]) = n * c[1]
    BY <1>0, <1>6, <2>2
  <2>4. n * a[2] + k * (b[2] - a[2]) = n * c[2]
    BY <1>0
  <2> QED
    BY <2>1, <2>3, <2>4
<1>7. CASE a[1] = b[1] /\ a[2] = b[2]
  <2>1. c[1] = a[1] /\ c[2] = a[2]
    BY <1>0, <1>2, <1>7 DEF Between, Lesser, Greater
  <2>2. 1 * a[1] + 0 * (b[1] - a[1]) = 1 * c[1] /\ 1 * a[2] + 0 * (b[2] - a[2]) = 1 * c[2]
    BY <1>0, <2>1
  <2> QED
    BY <2>2
<1>8. \A x, y \in Int : x < y \/ y < x \/ x = y
  OBVIOUS
<1> QED
  BY <1>0, <1>3, <1>4, <1>5, <1>6, <1>7, <1>8

LEMMA MeetingIsMutual ==
    ASSUME NEW a \in Points, NEW b \in Points, NEW c \in Points, NEW d \in Points
    PROVE  /\ Meet(a, b, c, d) => Meet(c, d, a, b)
           /\ Meet(a, b, c, d) => Meet(a, b, d, c)
<1>0. /\ a[1] \in Int /\ a[2] \in Int /\ b[1] \in Int /\ b[2] \in Int
      /\ c[1] \in Int /\ c[2] \in Int /\ d[1] \in Int /\ d[2] \in Int
  BY DEF Points
<1> SUFFICES ASSUME NEW n \in Nat \ {0}, NEW k \in 0..n, NEW l \in 0..n,
                    SamePoint(a, b, c, d, k, l, n)
             PROVE  Meet(c, d, a, b) /\ Meet(a, b, d, c)
  BY DEF Meet
<1>1. SamePoint(c, d, a, b, l, k, n)
  BY DEF SamePoint
<1>2. n - l \in 0..n
  OBVIOUS
<1>3. \A x, y \in Int : n * x + l * (y - x) = n * y + (n - l) * (x - y)
  OBVIOUS
<1>4. SamePoint(a, b, d, c, k, n - l, n)
  BY <1>0, <1>3 DEF SamePoint
<1> QED
  BY <1>1, <1>2, <1>4 DEF Meet

(* The two segments cut each other in proportion to the areas they span.    *)
LEMMA Proportions ==
    ASSUME NEW a1 \in Int, NEW a2 \in Int, NEW b1 \in Int, NEW b2 \in Int,
           NEW c1 \in Int, NEW c2 \in Int, NEW d1 \in Int, NEW d2 \in Int,
           NEW A \in Int, A = (b1 - a1) * (c2 - a2) - (b2 - a2) * (c1 - a1),
           NEW B \in Int, B = (b1 - a1) * (d2 - a2) - (b2 - a2) * (d1 - a1),
           NEW C \in Int, C = (d1 - c1) * (a2 - c2) - (d2 - c2) * (a1 - c1),
           NEW D \in Int, D = (d1 - c1) * (b2 - c2) - (d2 - c2) * (b1 - c1)
    PROVE  /\ C - D = B - A
           /\ (A - B) * a1 + (0 - C) * (b1 - a1) = (A - B) * c1 + A * (d1 - c1)
           /\ (A - B) * a2 + (0 - C) * (b2 - a2) = (A - B) * c2 + A * (d2 - c2)
           /\ (B - A) * a1 + C * (b1 - a1) = (B - A) * c1 + (0 - A) * (d1 - c1)
           /\ (B - A) * a2 + C * (b2 - a2) = (B - A) * c2 + (0 - A) * (d2 - c2)
<1>1. C - D = B - A
  OBVIOUS
<1>2. (A - B) * a1 + (0 - C) * (b1 - a1) = (A - B) * c1 + A * (d1 - c1)
  OBVIOUS
<1>3. (A - B) * a2 + (0 - C) * (b2 - a2) = (A - B) * c2 + A * (d2 - c2)
  OBVIOUS
<1>4. (B - A) * a1 + C * (b1 - a1) = (B - A) * c1 + (0 - A) * (d1 - c1)
  OBVIOUS
<1>5. (B - A) * a2 + C * (b2 - a2) = (B - A) * c2 + (0 - A) * (d2 - c2)
  OBVIOUS
<1> QED
  BY <1>1, <1>2, <1>3, <1>4, <1>5

LEMMA CrossingSegmentsMeet ==
    ASSUME NEW a \in Points, NEW b \in Points, NEW c \in Points, NEW d \in Points,
           Orientation(a, b, c) # Orientation(a, b, d),
           Orientation(c, d, a) # Orientation(c, d, b)
    PROVE  Meet(a, b, c, d)
<1> DEFINE A == Cross(a, b, c)
           B == Cross(a, b, d)
           C == Cross(c, d, a)
           D == Cross(c, d, b)
<1>1. A \in Int /\ B \in Int /\ C \in Int /\ D \in Int
  BY CrossIsInt
<1>2. /\ A > 0 => B <= 0
      /\ A < 0 => B >= 0
      /\ A = 0 => B # 0
      /\ C > 0 => D <= 0
      /\ C < 0 => D >= 0
      /\ C = 0 => D # 0
  BY <1>1 DEF Orientation
<1>3. /\ C - D = B - A
      /\ (A - B) * a[1] + (0 - C) * (b[1] - a[1]) = (A - B) * c[1] + A * (d[1] - c[1])
      /\ (A - B) * a[2] + (0 - C) * (b[2] - a[2]) = (A - B) * c[2] + A * (d[2] - c[2])
      /\ (B - A) * a[1] + C * (b[1] - a[1]) = (B - A) * c[1] + (0 - A) * (d[1] - c[1])
      /\ (B - A) * a[2] + C * (b[2] - a[2]) = (B - A) * c[2] + (0 - A) * (d[2] - c[2])
  <2>1. /\ a[1] \in Int /\ a[2] \in Int /\ b[1] \in Int /\ b[2] \in Int
        /\ c[1] \in Int /\ c[2] \in Int /\ d[1] \in Int /\ d[2] \in Int
    BY DEF Points
  <2>2. /\ A = (b[1] - a[1]) * (c[2] - a[2]) - (b[2] - a[2]) * (c[1] - a[1])
        /\ B = (b[1] - a[1]) * (d[2] - a[2]) - (b[2] - a[2]) * (d[1] - a[1])
        /\ C = (d[1] - c[1]) * (a[2] - c[2]) - (d[2] - c[2]) * (a[1] - c[1])
        /\ D = (d[1] - c[1]) * (b[2] - c[2]) - (d[2] - c[2]) * (b[1] - c[1])
    BY DEF Cross
  <2> HIDE DEF A, B, C, D
  <2> QED
    BY <1>1, <2>1, <2>2, Proportions
<1> HIDE DEF A, B, C, D
<1>4. CASE A > B
  <2>1. A - B \in Nat \ {0} /\ A \in 0..(A - B) /\ 0 - C \in 0..(A - B)
    BY <1>1, <1>2, <1>3, <1>4
  <2>2. SamePoint(a, b, c, d, 0 - C, A, A - B)
    BY <1>3 DEF SamePoint
  <2> QED
    BY <2>1, <2>2 DEF Meet
<1>5. CASE B > A
  <2>1. B - A \in Nat \ {0} /\ 0 - A \in 0..(B - A) /\ C \in 0..(B - A)
    BY <1>1, <1>2, <1>3, <1>5
  <2>2. SamePoint(a, b, c, d, C, 0 - A, B - A)
    BY <1>3 DEF SamePoint
  <2> QED
    BY <2>1, <2>2 DEF Meet
<1> QED
  BY <1>1, <1>2, <1>4, <1>5

LEMMA TouchingSegmentsMeet ==
    ASSUME NEW a \in Points, NEW b \in Points, NEW c \in Points, NEW d \in Points,
           OnSegment(a, b, c)
    PROVE  Meet(a, b, c, d)
<1>1. PICK n \in Nat \ {0} : \E k \in 0..n :
               /\ n * a[1] + k * (b[1] - a[1]) = n * c[1]
               /\ n * a[2] + k * (b[2] - a[2]) = n * c[2]
  BY OnSegmentIsOneOfItsPoints
<1>2. PICK k \in 0..n : /\ n * a[1] + k * (b[1] - a[1]) = n * c[1]
                        /\ n * a[2] + k * (b[2] - a[2]) = n * c[2]
  BY <1>1
<1>3. \A x, y \in Int : n * x + 0 * (y - x) = n * x
  OBVIOUS
<1>4. SamePoint(a, b, c, d, k, 0, n)
  BY <1>2, <1>3 DEF SamePoint, Points
<1>5. 0 \in 0..n
  OBVIOUS
<1> QED
  BY <1>4, <1>5 DEF Meet

LEMMA IntersectingSegmentsMeet ==
    ASSUME NEW a \in Points, NEW b \in Points, NEW c \in Points, NEW d \in Points,
           SegmentsIntersect(a, b, c, d)
    PROVE  Meet(a, b, c, d)
<1>1. CASE OnSegment(a, b, c)
  BY <1>1, TouchingSegmentsMeet
<1>2. CASE OnSegment(a, b, d)
  BY <1>2, TouchingSegmentsMeet, MeetingIsMutual
<1>3. CASE OnSegment(c, d, a)
  BY <1>3, TouchingSegmentsMeet, MeetingIsMutual
<1>4. CASE OnSegment(c, d, b)
  <2>1. Meet(c, d, b, a)
    BY <1>4, TouchingSegmentsMeet
  <2>2. Meet(c, d, a, b)
    BY <2>1, MeetingIsMutual
  <2> QED
    BY <2>2, MeetingIsMutual
<1> QED
  BY <1>1, <1>2, <1>3, <1>4, CrossingSegmentsMeet DEF SegmentsIntersect

-----------------------------------------------------------------------------
(* A point of the second segment on the first one's line divides it in the  *)
(* proportion of the areas.                                                 *)
LEMMA AreasBalance ==
    ASSUME NEW a \in Points, NEW b \in Points, NEW c \in Points, NEW d \in Points,
           NEW n \in Nat \ {0}, NEW k \in 0..n, NEW l \in 0..n,
           SamePoint(a, b, c, d, k, l, n)
    PROVE  n * Cross(a, b, c) + l * (Cross(a, b, d) - Cross(a, b, c)) = 0
<1> DEFINE a1 == a[1]  a2 == a[2]  b1 == b[1]  b2 == b[2]
           c1 == c[1]  c2 == c[2]  d1 == d[1]  d2 == d[2]
           A == Cross(a, b, c)
           B == Cross(a, b, d)
           e1 == b1 - a1
           e2 == b2 - a2
           p1 == n * (c1 - a1) + l * (d1 - c1)
           p2 == n * (c2 - a2) + l * (d2 - c2)
<1>1. /\ a1 \in Int /\ a2 \in Int /\ b1 \in Int /\ b2 \in Int
      /\ c1 \in Int /\ c2 \in Int /\ d1 \in Int /\ d2 \in Int
  BY DEF Points
<1>2. /\ n * a1 + k * (b1 - a1) = n * c1 + l * (d1 - c1)
      /\ n * a2 + k * (b2 - a2) = n * c2 + l * (d2 - c2)
  BY DEF SamePoint
<1>3. /\ A = (b1 - a1) * (c2 - a2) - (b2 - a2) * (c1 - a1)
      /\ B = (b1 - a1) * (d2 - a2) - (b2 - a2) * (d1 - a1)
  BY DEF Cross
<1> HIDE DEF a1, a2, b1, b2, c1, c2, d1, d2, A, B
<1>4. p1 = k * e1 /\ p2 = k * e2
  BY <1>1, <1>2
<1>5. n * A + l * (B - A) = e1 * p2 - e2 * p1
  BY <1>1, <1>3
<1>6. e1 * p2 - e2 * p1 = 0
  <2>1. e1 \in Int /\ e2 \in Int
    BY <1>1
  <2> HIDE DEF e1, e2, p1, p2
  <2> QED
    BY <1>4, <2>1
<1>7. n * A + l * (B - A) = 0
  <2> HIDE DEF e1, e2, p1, p2
  <2> QED
    BY <1>5, <1>6
<1> QED
  BY <1>7 DEF A, B

LEMMA OppositeSides ==
    ASSUME NEW A \in Int, NEW B \in Int, NEW n \in Nat \ {0}, NEW l \in 0..n,
           n * A + l * (B - A) = 0
    PROVE  ~(A > 0 /\ B > 0) /\ ~(A < 0 /\ B < 0)
<1>1. (n - l) * A + l * B = 0
  OBVIOUS
<1>2. n - l \in Nat /\ l \in Nat /\ (n - l > 0 \/ l > 0)
  OBVIOUS
<1>3. ASSUME A > 0, B > 0 PROVE FALSE
  BY <1>1, <1>2, <1>3
<1>4. ASSUME A < 0, B < 0 PROVE FALSE
  BY <1>1, <1>2, <1>4
<1> QED
  BY <1>3, <1>4

(* On one axis: where two intervals have a point in common, an end of one   *)
(* is in the other.                                                         *)
LEMMA IntervalsMeet ==
    ASSUME NEW a \in Int, NEW b \in Int, NEW c \in Int, NEW d \in Int,
           NEW n \in Nat \ {0}, NEW k \in 0..n, NEW l \in 0..n,
           n * a + k * (b - a) = n * c + l * (d - c)
    PROVE  Between(a, b, c) \/ Between(a, b, d) \/ (Between(c, d, a) /\ c # d)
<1>1. ASSUME NEW u \in Int, NEW v \in Int, NEW t \in 0..n, NEW w \in Int, u <= w, v <= w
      PROVE  n * u + t * (v - u) <= n * w
  <2>1. (n - t) * (w - u) >= 0 /\ t * (w - v) >= 0
    BY <1>1
  <2>2. n * w - (n * u + t * (v - u)) = (n - t) * (w - u) + t * (w - v)
    BY <1>1
  <2> QED
    BY <2>1, <2>2
<1>2. ASSUME NEW u \in Int, NEW v \in Int, NEW t \in 0..n, NEW w \in Int, w <= u, w <= v
      PROVE  n * w <= n * u + t * (v - u)
  <2>1. (n - t) * (u - w) >= 0 /\ t * (v - w) >= 0
    BY <1>2
  <2>2. (n * u + t * (v - u)) - n * w = (n - t) * (u - w) + t * (v - w)
    BY <1>2
  <2> QED
    BY <2>1, <2>2
<1> DEFINE low == Lesser(a, b)
           high == Greater(a, b)
           there == n * c + l * (d - c)
<1>3. /\ low \in Int /\ high \in Int /\ low <= high /\ there \in Int
      /\ low <= a /\ low <= b /\ a <= high /\ b <= high
  BY DEF Lesser, Greater
<1>4. n * low <= there /\ there <= n * high
  <2>1. n * low <= n * a + k * (b - a) /\ n * a + k * (b - a) <= n * high
    <3> HIDE DEF low, high
    <3> QED
      BY <1>1, <1>2, <1>3
  <2> QED
    BY <2>1
<1>5. ASSUME c < low, d < low PROVE FALSE
  <2>1. there <= n * (low - 1)
    <3> HIDE DEF low, high
    <3> QED
      BY <1>1, <1>3, <1>5
  <2>2. n * (low - 1) = n * low - n
    BY <1>3
  <2> HIDE DEF low, high, there
  <2> QED
    BY <1>3, <1>4, <2>1, <2>2
<1>6. ASSUME c > high, d > high PROVE FALSE
  <2>1. n * (high + 1) <= there
    <3> HIDE DEF low, high
    <3> QED
      BY <1>2, <1>3, <1>6
  <2>2. n * (high + 1) = n * high + n
    BY <1>3
  <2> HIDE DEF low, high, there
  <2> QED
    BY <1>3, <1>4, <2>1, <2>2
<1>7. ASSUME ~Between(a, b, c), ~Between(a, b, d)
      PROVE  Between(c, d, a) /\ c # d
  <2>1. (c < low /\ d > high) \/ (d < low /\ c > high)
    BY <1>3, <1>5, <1>6, <1>7 DEF Between
  <2> HIDE DEF low, high
  <2> QED
    BY <1>3, <2>1 DEF Between, Lesser, Greater
<1> QED
  BY <1>7

LEMMA ThreeOnALine ==
    ASSUME NEW a \in Points, NEW b \in Points, NEW c \in Points, NEW d \in Points,
           a[1] # b[1] \/ a[2] # b[2], Cross(a, b, c) = 0, Cross(a, b, d) = 0
    PROVE  Cross(c, d, a) = 0
<1> DEFINE e1 == b[1] - a[1]  e2 == b[2] - a[2]
           u1 == c[1] - a[1]  u2 == c[2] - a[2]
           v1 == d[1] - a[1]  v2 == d[2] - a[2]
<1>1. /\ e1 \in Int /\ e2 \in Int /\ u1 \in Int /\ u2 \in Int
      /\ v1 \in Int /\ v2 \in Int /\ (e1 # 0 \/ e2 # 0)
  BY DEF Points
<1>2. e1 * u2 = e2 * u1 /\ e1 * v2 = e2 * v1
  BY CrossIsZero
<1>3. /\ d[1] - c[1] = v1 - u1 /\ d[2] - c[2] = v2 - u2
      /\ a[1] - c[1] = 0 - u1 /\ a[2] - c[2] = 0 - u2
  BY DEF Points
<1>4. (v1 - u1) * (0 - u2) = (v2 - u2) * (0 - u1)
  <2> HIDE DEF e1, e2, u1, u2, v1, v2
  <2>1. e1 * (v1 * u2) = e1 * (v2 * u1)
    <3>1. e1 * (v1 * u2) = v1 * (e1 * u2) /\ e1 * (v2 * u1) = u1 * (e1 * v2)
      BY <1>1
    <3>2. v1 * (e2 * u1) = u1 * (e2 * v1)
      BY <1>1
    <3> QED
      BY <1>2, <3>1, <3>2
  <2>2. e2 * (v1 * u2) = e2 * (v2 * u1)
    <3>1. e2 * (v1 * u2) = u2 * (e2 * v1) /\ e2 * (v2 * u1) = v2 * (e2 * u1)
      BY <1>1
    <3>2. u2 * (e1 * v2) = v2 * (e1 * u2)
      BY <1>1
    <3> QED
      BY <1>2, <3>1, <3>2
  <2>3. \A x, y, z \in Int : x # 0 /\ x * y = x * z => y = z
    OBVIOUS
  <2>4. v1 * u2 \in Int /\ v2 * u1 \in Int
    BY <1>1
  <2>5. v1 * u2 = v2 * u1
    BY <1>1, <2>1, <2>2, <2>3, <2>4
  <2> QED
    BY <1>1, <2>5
<1> HIDE DEF e1, e2, u1, u2, v1, v2
<1> QED
  BY <1>3, <1>4, CrossIsZero

LEMMA SegmentsOfALineIntersect ==
    ASSUME NEW a \in Points, NEW b \in Points, NEW c \in Points, NEW d \in Points,
           NEW n \in Nat \ {0}, NEW k \in 0..n, NEW l \in 0..n,
           SamePoint(a, b, c, d, k, l, n), Cross(a, b, c) = 0, Cross(a, b, d) = 0
    PROVE  SegmentsIntersect(a, b, c, d)
<1>0. /\ a[1] \in Int /\ a[2] \in Int /\ b[1] \in Int /\ b[2] \in Int
      /\ c[1] \in Int /\ c[2] \in Int /\ d[1] \in Int /\ d[2] \in Int
  BY DEF Points
<1>1. /\ n * a[1] + k * (b[1] - a[1]) = n * c[1] + l * (d[1] - c[1])
      /\ n * a[2] + k * (b[2] - a[2]) = n * c[2] + l * (d[2] - c[2])
  BY DEF SamePoint
<1>2. CASE a[1] # b[1] \/ a[2] # b[2]
  <2>1. Cross(c, d, a) = 0
    BY <1>2, ThreeOnALine
  <2>2. ASSUME \/ a[1] # b[1] /\ Between(a[1], b[1], c[1])
               \/ a[2] # b[2] /\ Between(a[2], b[2], c[2])
        PROVE  OnSegment(a, b, c)
    BY <2>2, OnSegmentByAxis
  <2>3. ASSUME \/ a[1] # b[1] /\ Between(a[1], b[1], d[1])
               \/ a[2] # b[2] /\ Between(a[2], b[2], d[2])
        PROVE  OnSegment(a, b, d)
    BY <2>3, OnSegmentByAxis
  <2>4. ASSUME \/ c[1] # d[1] /\ Between(c[1], d[1], a[1])
               \/ c[2] # d[2] /\ Between(c[2], d[2], a[2])
        PROVE  OnSegment(c, d, a)
    BY <2>1, <2>4, OnSegmentByAxis
  <2>5. Between(a[1], b[1], c[1]) \/ Between(a[1], b[1], d[1])
           \/ (Between(c[1], d[1], a[1]) /\ c[1] # d[1])
    BY <1>0, <1>1, IntervalsMeet
  <2>6. Between(a[2], b[2], c[2]) \/ Between(a[2], b[2], d[2])
           \/ (Between(c[2], d[2], a[2]) /\ c[2] # d[2])
    BY <1>0, <1>1, IntervalsMeet
  <2> QED
    BY <1>2, <2>2, <2>3, <2>4, <2>5, <2>6 DEF SegmentsIntersect
<1>3. CASE a[1] = b[1] /\ a[2] = b[2]
  <2>1. /\ n * c[1] + l * (d[1] - c[1]) = n * a[1] + 0 * (a[1] - a[1])
        /\ n * c[2] + l * (d[2] - c[2]) = n * a[2] + 0 * (a[2] - a[2])
    BY <1>0, <1>1, <1>3
  <2>2. Cross(c, d, a) = 0
    <3>1. SamePoint(c, d, a, b, l, k, n)
      BY DEF SamePoint
    <3>2. Cross(c, d, b) = Cross(c, d, a)
      BY <1>3 DEF Cross
    <3>3. n * Cross(c, d, a) + k * (Cross(c, d, b) - Cross(c, d, a)) = 0
      BY <3>1, AreasBalance
    <3>4. \A x \in Int : n * x + k * (x - x) = 0 => x = 0
      OBVIOUS
    <3> QED
      BY <3>2, <3>3, <3>4, CrossIsInt
  <2>3. ASSUME NEW x \in Int, NEW y \in Int, NEW z \in Int,
               n * y + l * (z - y) = n * x + 0 * (x - x)
        PROVE  Between(y, z, x)
    <3>1. (n - l) * (y - x) + l * (z - x) = 0
      BY <2>3
    <3>2. ~(y > x /\ z > x) /\ ~(y < x /\ z < x)
      BY <3>1
    <3> QED
      BY <3>2 DEF Between, Lesser, Greater
  <2>4. Between(c[1], d[1], a[1]) /\ Between(c[2], d[2], a[2])
    BY <1>0, <2>1, <2>3
  <2> QED
    BY <2>2, <2>4, OnSegmentIs DEF SegmentsIntersect
<1> QED
  BY <1>2, <1>3

(* The test of both sides is exact: it finds two segments to intersect just *)
(* when they have a point in common, be it the end of one, an end of both   *)
(* or a whole stretch, and also when a segment is a single point.           *)
THEOREM IntersectionIsExact ==
    ASSUME NEW a \in Points, NEW b \in Points, NEW c \in Points, NEW d \in Points
    PROVE  SegmentsIntersect(a, b, c, d) <=> Meet(a, b, c, d)
<1> SUFFICES ASSUME NEW n \in Nat \ {0}, NEW k \in 0..n, NEW l \in 0..n,
                    SamePoint(a, b, c, d, k, l, n)
             PROVE  SegmentsIntersect(a, b, c, d)
  BY IntersectingSegmentsMeet DEF Meet
<1>0. /\ a[1] \in Int /\ a[2] \in Int /\ b[1] \in Int /\ b[2] \in Int
      /\ c[1] \in Int /\ c[2] \in Int /\ d[1] \in Int /\ d[2] \in Int
  BY DEF Points
<1>1. SamePoint(c, d, a, b, l, k, n)
  BY DEF SamePoint
<1> DEFINE A == Cross(a, b, c)
           B == Cross(a, b, d)
           C == Cross(c, d, a)
           D == Cross(c, d, b)
<1>2. A \in Int /\ B \in Int /\ C \in Int /\ D \in Int
  BY CrossIsInt
<1>3. n * A + l * (B - A) = 0 /\ n * C + k * (D - C) = 0
  BY <1>1, AreasBalance
<1>4. /\ ~(A > 0 /\ B > 0) /\ ~(A < 0 /\ B < 0)
      /\ ~(C > 0 /\ D > 0) /\ ~(C < 0 /\ D < 0)
  <2> HIDE DEF A, B, C, D
  <2> QED
    BY <1>2, <1>3, OppositeSides
<1>5. CASE Orientation(a, b, c) = Orientation(a, b, d)
  <2>1. A = 0 /\ B = 0
    BY <1>2, <1>4, <1>5 DEF Orientation
  <2> QED
    BY <2>1, SegmentsOfALineIntersect
<1>6. CASE Orientation(c, d, a) = Orientation(c, d, b)
  <2>1. C = 0 /\ D = 0
    BY <1>2, <1>4, <1>6 DEF Orientation
  <2>2. SegmentsIntersect(c, d, a, b)
    BY <1>1, <2>1, SegmentsOfALineIntersect
  <2> QED
    BY <2>2 DEF SegmentsIntersect
<1> QED
  BY <1>5, <1>6 DEF SegmentsIntersect

-----------------------------------------------------------------------------
(* Polygons.  Where a closed curve is after k/n of its edge i, end excluded *)
(* because it is the start of the following edge: a curve that is nowhere   *)
(* twice neither crosses nor touches itself.                                *)
SameCurvePoint(polygon, i, j, k, l, n) ==
    SamePoint(polygon[i], polygon[Following(i, polygon)],
              polygon[j], polygon[Following(j, polygon)], k, l, n)

NowhereTwice(polygon) ==
    \A i, j \in DOMAIN polygon, n \in Nat \ {0} : \A k, l \in 0..(n - 1) :
        SameCurvePoint(polygon, i, j, k, l, n) => i = j /\ k = l

EdgesIntersect(polygon, i, j) ==
    SegmentsIntersect(polygon[i], polygon[Following(i, polygon)],
                      polygon[j], polygon[Following(j, polygon)])

LEMMA VerticesArePoints ==
    ASSUME NEW polygon \in Seq(Points)
    PROVE  DOMAIN polygon = 1..Len(polygon) /\ \A i \in DOMAIN polygon : polygon[i] \in Points
OBVIOUS

LEMMA FollowingIs ==
    ASSUME NEW polygon \in Seq(Points), Len(polygon) \in 3..MaxVertices,
           NEW i \in DOMAIN polygon
    PROVE  LET j == Following(i, polygon)
               k == Following(j, polygon)
           IN  /\ j \in DOMAIN polygon /\ k \in DOMAIN polygon
               /\ j # i /\ k # i /\ k # j
               /\ Len(polygon) = 3 => Following(k, polygon) = i
               /\ Len(polygon) > 3 => Following(k, polygon) # i
               /\ \E h \in DOMAIN polygon : Following(h, polygon) = i
               /\ \A h \in DOMAIN polygon : Following(h, polygon) = j => h = i
               /\ polygon[i] \in Points /\ polygon[j] \in Points /\ polygon[k] \in Points
<1>1. Len(polygon) \in Nat /\ Len(polygon) >= 3 /\ DOMAIN polygon = 1..Len(polygon)
  BY GeometryAssumption
<1> DEFINE last == Len(polygon)
           j == Following(i, polygon)
           k == Following(j, polygon)
<1> HIDE DEF last
<1>2. j = (IF i = last THEN 1 ELSE i + 1) /\ \A h : Following(h, polygon) = IF h = last THEN 1 ELSE h + 1
  BY DEF Following, last
<1>3. j \in 1..last /\ k \in 1..last /\ j # i /\ k # i /\ k # j
  BY <1>1, <1>2 DEF last
<1>4. (last = 3 => Following(k, polygon) = i) /\ (last > 3 => Following(k, polygon) # i)
  BY <1>1, <1>2 DEF last
<1>5. \E h \in DOMAIN polygon : Following(h, polygon) = i
  <2>1. CASE i = 1
    BY <1>1, <1>2, <2>1 DEF last
  <2>2. CASE i # 1
    <3>1. i - 1 \in 1..last /\ i - 1 # last /\ (i - 1) + 1 = i
      BY <1>1, <2>2 DEF last
    <3> QED
      BY <1>1, <1>2, <3>1 DEF last
  <2> QED
    BY <2>1, <2>2
<1>6. \A h \in DOMAIN polygon : Following(h, polygon) = j => h = i
  BY <1>1, <1>2 DEF last
<1>7. polygon[i] \in Points /\ polygon[j] \in Points /\ polygon[k] \in Points
  BY <1>1, <1>3 DEF last
<1> QED
  BY <1>1, <1>3, <1>4, <1>5, <1>6, <1>7 DEF last

LEMMA ComparedEdgesCross ==
    ASSUME NEW polygon \in Seq(Points), NEW i \in DOMAIN polygon, NEW j \in DOMAIN polygon,
           i # j, Following(i, polygon) # j, Following(j, polygon) # i,
           EdgesIntersect(polygon, i, j)
    PROVE  Crosses(polygon)
<1>1. EdgesIntersect(polygon, j, i)
  BY DEF EdgesIntersect, SegmentsIntersect
<1>2. i \in Int /\ j \in Int
  OBVIOUS
<1>3. CASE i < j
  <2>1. <<i, j>> \in ComparedEdges(polygon)
    BY <1>3 DEF ComparedEdges
  <2> QED
    BY <2>1 DEF Crosses, EdgesIntersect
<1>4. CASE j < i
  <2>1. <<j, i>> \in ComparedEdges(polygon)
    BY <1>4 DEF ComparedEdges
  <2> QED
    BY <1>1, <2>1 DEF Crosses, EdgesIntersect
<1> QED
  BY <1>2, <1>3, <1>4

LEMMA StartsAreOnSegments ==
    ASSUME NEW a \in Points, NEW b \in Points
    PROVE  OnSegment(a, b, a)
<1>1. \A x, y \in Int : Between(x, y, x) /\ x - x = 0 /\ y * 0 = 0
  BY DEF Between, Lesser, Greater
<1>2. (b[1] - a[1]) * (a[2] - a[2]) = (b[2] - a[2]) * (a[1] - a[1])
  BY <1>1 DEF Points
<1>3. Between(a[1], b[1], a[1]) /\ Between(a[2], b[2], a[2])
  BY <1>1 DEF Points
<1> QED
  BY <1>2, <1>3, CrossIsZero, OnSegmentIs

(* A vertex that is used twice need not be looked for: two of its edges are *)
(* compared and touch.                                                      *)
LEMMA UncrossedVerticesDiffer ==
    ASSUME NEW polygon \in Seq(Points), WellFormed(polygon), ~Crosses(polygon),
           NEW i \in DOMAIN polygon, NEW j \in DOMAIN polygon, polygon[i] = polygon[j]
    PROVE  i = j
<1> SUFFICES ASSUME i # j PROVE FALSE
  OBVIOUS
<1>1. /\ Following(i, polygon) # j /\ Following(j, polygon) # i
      /\ polygon[i] \in Points
      /\ polygon[Following(i, polygon)] \in Points
  BY FollowingIs DEF WellFormed
<1>2. OnSegment(polygon[i], polygon[Following(i, polygon)], polygon[j])
  BY <1>1, StartsAreOnSegments
<1>3. EdgesIntersect(polygon, i, j)
  BY <1>2 DEF EdgesIntersect, SegmentsIntersect
<1> QED
  BY <1>1, <1>3, ComparedEdgesCross

(* What the page lets its user save is what the server accepts, for regions *)
(* of any shape on a grid of any size: that the page does not look for      *)
(* vertices used twice (regionGeometry.ts) makes no difference.             *)
THEOREM PageAndServerAgree ==
    \A polygon \in Seq(Points) : PageAccepts(polygon) <=> ValidPolygon(polygon)
<1> SUFFICES ASSUME NEW polygon \in Seq(Points), PageAccepts(polygon)
             PROVE  ValidPolygon(polygon)
  BY DEF PageAccepts, ValidPolygon
<1>1. WellFormed(polygon) /\ ~Crosses(polygon)
  BY DEF PageAccepts
<1>2. \A i, j \in DOMAIN polygon : polygon[i] = polygon[j] => i = j
  BY <1>1, UncrossedVerticesDiffer
<1> QED
  BY <1>1, <1>2 DEF PageAccepts, ValidPolygon

-----------------------------------------------------------------------------
(* The edge after (a, b) may not lead back along it: then the end of one is *)
(* on the other.                                                            *)
LEMMA TurningBackTouches ==
    ASSUME NEW a \in Points, NEW b \in Points, NEW c \in Points, a # b,
           NEW n \in Nat \ {0}, NEW k \in 0..(n - 1), NEW l \in 0..n,
           SamePoint(a, b, b, c, k, l, n)
    PROVE  /\ Cross(a, b, c) = 0
           /\ OnSegment(a, b, c) \/ OnSegment(b, c, a)
<1> DEFINE a1 == a[1]  a2 == a[2]  b1 == b[1]  b2 == b[2]  c1 == c[1]  c2 == c[2]
<1>1. /\ a1 \in Int /\ a2 \in Int /\ b1 \in Int /\ b2 \in Int /\ c1 \in Int /\ c2 \in Int
      /\ a1 # b1 \/ a2 # b2
  BY DEF Points
<1>2. /\ n * a1 + k * (b1 - a1) = n * b1 + l * (c1 - b1)
      /\ n * a2 + k * (b2 - a2) = n * b2 + l * (c2 - b2)
  BY DEF SamePoint
<1>3. ASSUME NEW x \in Int, NEW y \in Int, NEW z \in Int,
             n * x + k * (y - x) = n * y + l * (z - y)
      PROVE  /\ l * (z - y) = (n - k) * (x - y)
             /\ x > y => z > y /\ l > 0
             /\ x < y => z < y /\ l > 0
  <2>1. l * (z - y) = (n - k) * (x - y)
    BY <1>3
  <2>2. n - k > 0 /\ l >= 0
    OBVIOUS
  <2>3. ASSUME x > y PROVE z > y /\ l > 0
    <3>1. (n - k) * (x - y) > 0
      BY <2>2, <2>3
    <3> QED
      BY <2>1, <2>2, <3>1
  <2>4. ASSUME x < y PROVE z < y /\ l > 0
    <3>1. (n - k) * (x - y) < 0
      BY <2>2, <2>4
    <3> QED
      BY <2>1, <2>2, <3>1
  <2> QED
    BY <2>1, <2>3, <2>4
<1>4. /\ l * (c1 - b1) = (n - k) * (a1 - b1) /\ l * (c2 - b2) = (n - k) * (a2 - b2)
      /\ a1 > b1 => c1 > b1 /\ l > 0
      /\ a1 < b1 => c1 < b1 /\ l > 0
      /\ a2 > b2 => c2 > b2 /\ l > 0
      /\ a2 < b2 => c2 < b2 /\ l > 0
  <2> HIDE DEF a1, a2, b1, b2, c1, c2
  <2> QED
    BY <1>1, <1>2, <1>3
<1>5. l > 0 /\ n - k > 0
  <2> HIDE DEF a1, a2, b1, b2, c1, c2
  <2> QED
    BY <1>1, <1>4
<1>6. Cross(a, b, c) = 0 /\ Cross(b, c, a) = 0
  <2> DEFINE u1 == a1 - b1  u2 == a2 - b2  v1 == c1 - b1  v2 == c2 - b2
  <2>1. u1 * v2 = u2 * v1
    <3>1. u1 \in Int /\ u2 \in Int /\ v1 \in Int /\ v2 \in Int
      BY <1>1
    <3>2. l * v1 = (n - k) * u1 /\ l * v2 = (n - k) * u2
      BY <1>4
    <3> HIDE DEF u1, u2, v1, v2
    <3>3. l * (u1 * v2) = l * (u2 * v1)
      <4>1. l * (u1 * v2) = u1 * (l * v2) /\ l * (u2 * v1) = u2 * (l * v1)
        BY <3>1
      <4>2. u1 * ((n - k) * u2) = u2 * ((n - k) * u1)
        BY <3>1
      <4> QED
        BY <3>2, <4>1, <4>2
    <3>4. \A x, y \in Int : l * x = l * y => x = y
      BY <1>5
    <3> QED
      BY <3>1, <3>3, <3>4
  <2>2. (b1 - a1) * (c2 - a2) = (b2 - a2) * (c1 - a1)
    <3>1. /\ u1 \in Int /\ u2 \in Int /\ v1 \in Int /\ v2 \in Int
          /\ b1 - a1 = 0 - u1 /\ c2 - a2 = v2 - u2 /\ b2 - a2 = 0 - u2 /\ c1 - a1 = v1 - u1
      BY <1>1
    <3> HIDE DEF u1, u2, v1, v2
    <3>2. (0 - u1) * (v2 - u2) = (0 - u2) * (v1 - u1)
      BY <2>1, <3>1
    <3> QED
      BY <3>1, <3>2
  <2>3. (c1 - b1) * (a2 - b2) = (c2 - b2) * (a1 - b1)
    <3>1. u1 \in Int /\ u2 \in Int /\ v1 \in Int /\ v2 \in Int
      BY <1>1
    <3>2. v1 * u2 = v2 * u1
      <4> HIDE DEF u1, u2, v1, v2
      <4> QED
        BY <2>1, <3>1
    <3> QED
      BY <3>2
  <2> QED
    BY <2>2, <2>3, CrossIsZero
<1>7. ASSUME NEW x \in Int, NEW y \in Int, NEW z \in Int, x # y,
             x > y => z > y, x < y => z < y
      PROVE  Between(x, y, z) \/ (Between(y, z, x) /\ y # z)
  BY <1>7 DEF Between, Lesser, Greater
<1>8. CASE a1 # b1
  <2>1. Between(a1, b1, c1) \/ (Between(b1, c1, a1) /\ b1 # c1)
    <3> HIDE DEF a1, a2, b1, b2, c1, c2
    <3> QED
      BY <1>1, <1>4, <1>7, <1>8
  <2> QED
    BY <1>6, <1>8, <2>1, OnSegmentByAxis
<1>9. CASE a2 # b2
  <2>1. Between(a2, b2, c2) \/ (Between(b2, c2, a2) /\ b2 # c2)
    <3> HIDE DEF a1, a2, b1, b2, c1, c2
    <3> QED
      BY <1>1, <1>4, <1>7, <1>9
  <2> QED
    BY <1>6, <1>9, <2>1, OnSegmentByAxis
<1> QED
  BY <1>1, <1>6, <1>8, <1>9

IsTwice(f, polygon) ==
    f = [i \in 0..Len(polygon) |->
            IF i = 0 THEN 0
            ELSE LET p == polygon[i]  q == polygon[Following(i, polygon)]
                 IN  f[i - 1] + p[1] * q[2] - q[1] * p[2]]

LEMMA TriangleArea ==
    ASSUME NEW polygon \in Seq(Points), Len(polygon) = 3,
           Cross(polygon[1], polygon[2], polygon[3]) = 0
    PROVE  AreaTwice(polygon) = 0
<1> DEFINE p(i) == polygon[i]
           part(i) == p(i)[1] * p(Following(i, polygon))[2] - p(Following(i, polygon))[1] * p(i)[2]
           g == [i \in 0..3 |-> IF i = 0 THEN 0 ELSE IF i = 1 THEN part(1)
                                ELSE IF i = 2 THEN part(1) + part(2)
                                ELSE part(1) + part(2) + part(3)]
           f == CHOOSE h : IsTwice(h, polygon)
<1>1. p(1) \in Points /\ p(2) \in Points /\ p(3) \in Points
  OBVIOUS
<1>2. Following(1, polygon) = 2 /\ Following(2, polygon) = 3 /\ Following(3, polygon) = 1
  BY DEF Following
<1>3. part(1) \in Int /\ part(2) \in Int /\ part(3) \in Int
  <2>1. \A u, v \in Points : u[1] * v[2] - v[1] * u[2] \in Int
    BY DEF Points
  <2> HIDE DEF p
  <2> QED
    BY <1>1, <1>2, <2>1
<1>4. \A x, y, z \in Int : x + y - z = x + (y - z)
  OBVIOUS
<1>5. IsTwice(g, polygon)
  <2>1. \A i \in 0..3 : g[i] = IF i = 0 THEN 0
                               ELSE g[i - 1] + p(i)[1] * p(Following(i, polygon))[2]
                                             - p(Following(i, polygon))[1] * p(i)[2]
    <3>1. \A i \in 1..3 : g[i] = g[i - 1] + part(i)
      <4>1. g[0] = 0 /\ g[1] = part(1) /\ g[2] = part(1) + part(2)
               /\ g[3] = part(1) + part(2) + part(3)
        OBVIOUS
      <4>2. g[1] = g[0] + part(1) /\ g[2] = g[1] + part(2) /\ g[3] = g[2] + part(3)
        <5> HIDE DEF g, part
        <5> QED
          BY <1>3, <4>1
      <4> QED
        BY <4>2
    <3>2. \A i \in 1..3 : /\ g[i - 1] \in Int
                          /\ p(i)[1] * p(Following(i, polygon))[2] \in Int
                          /\ p(Following(i, polygon))[1] * p(i)[2] \in Int
      <4>1. \A i \in 0..3 : g[i] \in Int
        <5> HIDE DEF part
        <5> QED
          BY <1>3
      <4>2. \A i \in 1..3 : p(i) \in Points /\ p(Following(i, polygon)) \in Points
        BY <1>1, <1>2
      <4>3. \A u, v \in Points : u[1] * v[2] \in Int
        BY DEF Points
      <4>4. \A i \in 1..3 : i - 1 \in 0..3
        OBVIOUS
      <4> HIDE DEF g, p
      <4> QED
        BY <4>1, <4>2, <4>3, <4>4
    <3>3. g[0] = 0
      OBVIOUS
    <3>4. ASSUME NEW i \in 1..3
          PROVE  g[i] = g[i - 1] + p(i)[1] * p(Following(i, polygon))[2]
                                 - p(Following(i, polygon))[1] * p(i)[2]
      <4> DEFINE u == p(i)[1] * p(Following(i, polygon))[2]
                 v == p(Following(i, polygon))[1] * p(i)[2]
                 w == g[i - 1]
      <4>1. g[i] = w + (u - v) /\ u \in Int /\ v \in Int /\ w \in Int
        <5> HIDE DEF g, p
        <5> QED
          BY <3>1, <3>2
      <4>2. w + u - v = w + (u - v)
        <5> HIDE DEF u, v, w
        <5> QED
          BY <1>4, <4>1
      <4> HIDE DEF g, p
      <4> QED
        BY <4>1, <4>2
    <3>5. \A i \in 0..3 : i = 0 \/ i \in 1..3
      OBVIOUS
    <3> HIDE DEF g, p, part
    <3> QED
      BY <3>3, <3>4, <3>5
  <2>2. g = [i \in 0..3 |-> g[i]]
    OBVIOUS
  <2> HIDE DEF g
  <2> QED
    BY <2>1, <2>2 DEF IsTwice
<1>6. IsTwice(f, polygon)
  <2> HIDE DEF g
  <2> QED
    BY <1>5
<1>7. AreaTwice(polygon) = IF f[3] < 0 THEN -f[3] ELSE f[3]
  BY DEF AreaTwice, IsTwice
<1>8. f[3] = 0
  <2> HIDE DEF f, g
  <2>1. \A i \in 0..3 : f[i] = IF i = 0 THEN 0
                               ELSE f[i - 1] + p(i)[1] * p(Following(i, polygon))[2]
                                             - p(Following(i, polygon))[1] * p(i)[2]
    BY <1>6 DEF IsTwice
  <2>2. /\ f[0] = 0
        /\ f[1] = f[0] + p(1)[1] * p(2)[2] - p(2)[1] * p(1)[2]
        /\ f[2] = f[1] + p(2)[1] * p(3)[2] - p(3)[1] * p(2)[2]
        /\ f[3] = f[2] + p(3)[1] * p(1)[2] - p(1)[1] * p(3)[2]
    BY <1>2, <2>1
  <2> DEFINE a1 == p(1)[1]  a2 == p(1)[2]  b1 == p(2)[1]  b2 == p(2)[2]
             c1 == p(3)[1]  c2 == p(3)[2]
  <2>3. a1 \in Int /\ a2 \in Int /\ b1 \in Int /\ b2 \in Int /\ c1 \in Int /\ c2 \in Int
    BY <1>1 DEF Points
  <2>4. (b1 - a1) * (c2 - a2) - (b2 - a2) * (c1 - a1) = 0
    BY DEF Cross
  <2>7. /\ f[0] = 0 /\ f[1] = f[0] + a1 * b2 - b1 * a2
        /\ f[2] = f[1] + b1 * c2 - c1 * b2 /\ f[3] = f[2] + c1 * a2 - a1 * c2
    BY <2>2
  <2> HIDE DEF p, a1, a2, b1, b2, c1, c2
  <2>5. a1 * b2 - b1 * a2 + b1 * c2 - c1 * b2 + c1 * a2 - a1 * c2 =
           (b1 - a1) * (c2 - a2) - (b2 - a2) * (c1 - a1)
    BY <2>3
  <2>6. f[3] = a1 * b2 - b1 * a2 + b1 * c2 - c1 * b2 + c1 * a2 - a1 * c2
    <3>1. f[1] = a1 * b2 - b1 * a2
      BY <2>7, <2>3
    <3>2. f[2] = a1 * b2 - b1 * a2 + b1 * c2 - c1 * b2
      BY <2>7, <3>1
    <3> QED
      BY <2>7, <3>2
  <2> QED
    BY <2>4, <2>5, <2>6
<1> QED
  BY <1>7, <1>8

LEMMA CrossTurns ==
    ASSUME NEW a \in Points, NEW b \in Points, NEW c \in Points, Cross(a, b, c) = 0
    PROVE  Cross(b, c, a) = 0
<1> DEFINE a1 == a[1]  a2 == a[2]  b1 == b[1]  b2 == b[2]  c1 == c[1]  c2 == c[2]
<1>1. a1 \in Int /\ a2 \in Int /\ b1 \in Int /\ b2 \in Int /\ c1 \in Int /\ c2 \in Int
  BY DEF Points
<1>2. (b1 - a1) * (c2 - a2) - (b2 - a2) * (c1 - a1) =
         (c1 - b1) * (a2 - b2) - (c2 - b2) * (a1 - b1)
  <2> HIDE DEF a1, a2, b1, b2, c1, c2
  <2> QED
    BY <1>1
<1> QED
  BY <1>2 DEF Cross

LEMMA FlatTriangleHasNoArea ==
    ASSUME NEW polygon \in Seq(Points), Len(polygon) = 3, NEW i \in DOMAIN polygon,
           LET j == Following(i, polygon)
           IN  Cross(polygon[i], polygon[j], polygon[Following(j, polygon)]) = 0
    PROVE  AreaTwice(polygon) = 0
<1>1. polygon[1] \in Points /\ polygon[2] \in Points /\ polygon[3] \in Points
  <2>1. \A x \in 1..Len(polygon) : polygon[x] \in Points
    BY VerticesArePoints
  <2>2. 1 \in 1..3 /\ 2 \in 1..3 /\ 3 \in 1..3
    OBVIOUS
  <2> QED
    BY <2>1, <2>2
<1>2. i = 1 \/ i = 2 \/ i = 3
  <2>1. DOMAIN polygon = 1..Len(polygon)
    BY VerticesArePoints
  <2>2. \A x \in 1..3 : x = 1 \/ x = 2 \/ x = 3
    OBVIOUS
  <2> QED
    BY <2>1, <2>2
<1>3. Cross(polygon[1], polygon[2], polygon[3]) = 0
  <2>1. CASE i = 1
    BY <2>1 DEF Following
  <2>2. CASE i = 2
    <3>1. Cross(polygon[2], polygon[3], polygon[1]) = 0
      BY <2>2 DEF Following
    <3>2. Cross(polygon[3], polygon[1], polygon[2]) = 0
      BY <1>1, <3>1, CrossTurns
    <3> QED
      BY <1>1, <3>2, CrossTurns
  <2>3. CASE i = 3
    <3>1. Cross(polygon[3], polygon[1], polygon[2]) = 0
      BY <2>3 DEF Following
    <3> QED
      BY <1>1, <3>1, CrossTurns
  <2> QED
    BY <1>2, <2>1, <2>2, <2>3
<1> QED
  BY <1>3, TriangleArea

LEMMA NeighboursTouchOnce ==
    ASSUME NEW polygon \in Seq(Points), ValidPolygon(polygon),
           NEW i \in DOMAIN polygon, NEW j \in DOMAIN polygon, j = Following(i, polygon),
           NEW n \in Nat \ {0}, NEW k \in 0..(n - 1), NEW l \in 0..(n - 1)
    PROVE  ~SameCurvePoint(polygon, i, j, k, l, n)
<1> SUFFICES ASSUME SameCurvePoint(polygon, i, j, k, l, n) PROVE FALSE
  OBVIOUS
<1> DEFINE m == Following(j, polygon)
           a == polygon[i]  b == polygon[j]  c == polygon[m]
<1>1. /\ WellFormed(polygon) /\ ~Crosses(polygon) /\ AreaTwice(polygon) # 0
      /\ Len(polygon) \in 3..MaxVertices /\ (Len(polygon) = 3 \/ Len(polygon) > 3)
  <2>1. WellFormed(polygon) /\ ~Crosses(polygon) /\ Len(polygon) \in 3..MaxVertices
    BY DEF ValidPolygon, WellFormed
  <2>2. AreaTwice(polygon) # 0
    <3>1. AreaTwice(polygon) >= MinAreaTwice
      BY DEF ValidPolygon
    <3> QED
      BY <3>1, GeometryAssumption
  <2>3. Len(polygon) = 3 \/ Len(polygon) > 3
    <3>1. MaxVertices \in Nat
      BY GeometryAssumption
    <3>2. \A x \in 3..MaxVertices : x = 3 \/ x > 3
      BY <3>1
    <3> QED
      BY <2>1, <3>2
  <2> QED
    BY <2>1, <2>2, <2>3
<1>2. /\ m \in DOMAIN polygon /\ m # i /\ m # j /\ j # i
      /\ Len(polygon) > 3 => Following(m, polygon) # i
      /\ a \in Points /\ b \in Points /\ c \in Points
  BY <1>1, FollowingIs
<1>3. a # b
  BY <1>1 DEF WellFormed
<1>4. Cross(a, b, c) = 0 /\ (OnSegment(a, b, c) \/ OnSegment(b, c, a))
  <2>1. SamePoint(a, b, b, c, k, l, n) /\ l \in 0..n
    BY DEF SameCurvePoint
  <2> HIDE DEF a, b, c
  <2> QED
    BY <1>2, <1>3, <2>1, TurningBackTouches
<1>5. Len(polygon) > 3
  <2>1. Len(polygon) = 3 => AreaTwice(polygon) = 0
    BY <1>1, <1>4, FlatTriangleHasNoArea
  <2> QED
    BY <1>1, <2>1
<1>6. CASE OnSegment(a, b, c)
  <2>1. EdgesIntersect(polygon, i, m)
    BY <1>6 DEF EdgesIntersect, SegmentsIntersect
  <2> QED
    BY <1>1, <1>2, <1>5, <2>1, ComparedEdgesCross
<1>7. CASE OnSegment(b, c, a)
  <2>1. PICK h \in DOMAIN polygon : Following(h, polygon) = i
    BY <1>1, FollowingIs
  <2>2. EdgesIntersect(polygon, j, h)
    BY <1>7, <2>1 DEF EdgesIntersect, SegmentsIntersect
  <2>3. h # j /\ m # h
    <3>1. h # j
      BY <1>2, <2>1
    <3>2. m # h
      BY <1>2, <1>5, <2>1
    <3> QED
      BY <3>1, <3>2
  <2>4. Following(h, polygon) # j
    BY <1>2, <2>1
  <2> QED
    BY <1>1, <2>2, <2>3, <2>4, ComparedEdgesCross
<1> QED
  BY <1>4, <1>6, <1>7

LEMMA EdgesHaveOnePace ==
    ASSUME NEW a \in Points, NEW b \in Points, a # b,
           NEW n \in Nat, NEW k \in Nat, NEW l \in Nat, SamePoint(a, b, a, b, k, l, n)
    PROVE  k = l
<1>1. ASSUME NEW x \in Int, NEW y \in Int, x # y,
             n * x + k * (y - x) = n * x + l * (y - x)
      PROVE  k = l
  <2>1. (k - l) * (y - x) = 0
    BY <1>1
  <2>2. \A u, v \in Int : u * v = 0 => u = 0 \/ v = 0
    OBVIOUS
  <2>3. k - l = 0
    BY <1>1, <2>1, <2>2
  <2> QED
    BY <2>3
<1>2. /\ a[1] \in Int /\ b[1] \in Int /\ a[2] \in Int /\ b[2] \in Int
      /\ a[1] # b[1] \/ a[2] # b[2]
  BY DEF Points
<1> QED
  BY <1>1, <1>2 DEF SamePoint

LEMMA ValidPolygonsAreNowhereTwice ==
    ASSUME NEW polygon \in Seq(Points), ValidPolygon(polygon)
    PROVE  NowhereTwice(polygon)
<1> SUFFICES ASSUME NEW i \in DOMAIN polygon, NEW j \in DOMAIN polygon,
                    NEW n \in Nat \ {0}, NEW k \in 0..(n - 1), NEW l \in 0..(n - 1),
                    SameCurvePoint(polygon, i, j, k, l, n)
             PROVE  i = j /\ k = l
  BY DEF NowhereTwice
<1>1. WellFormed(polygon) /\ ~Crosses(polygon) /\ Len(polygon) \in 3..MaxVertices
  BY DEF ValidPolygon, WellFormed
<1> DEFINE a == polygon[i]  b == polygon[Following(i, polygon)]
           c == polygon[j]  d == polygon[Following(j, polygon)]
<1>2. a \in Points /\ b \in Points /\ c \in Points /\ d \in Points /\ a # b
  BY <1>1, FollowingIs DEF WellFormed
<1>3. SamePoint(a, b, c, d, k, l, n)
  BY DEF SameCurvePoint
<1>4. CASE i = j
  BY <1>2, <1>3, <1>4, EdgesHaveOnePace
<1>5. CASE j = Following(i, polygon)
  BY <1>5, NeighboursTouchOnce
<1>6. CASE i = Following(j, polygon)
  <2>1. SameCurvePoint(polygon, j, i, l, k, n)
    BY DEF SameCurvePoint, SamePoint
  <2> QED
    BY <1>6, <2>1, NeighboursTouchOnce
<1>7. CASE i # j /\ j # Following(i, polygon) /\ i # Following(j, polygon)
  <2>1. Meet(a, b, c, d)
    <3>1. k \in 0..n /\ l \in 0..n
      OBVIOUS
    <3> QED
      BY <1>3, <3>1 DEF Meet
  <2>2. EdgesIntersect(polygon, i, j)
    <3>1. SegmentsIntersect(a, b, c, d)
      <4> HIDE DEF a, b, c, d
      <4> QED
        BY <1>2, <2>1, IntersectionIsExact
    <3> QED
      BY <3>1 DEF EdgesIntersect
  <2> QED
    BY <1>1, <1>7, <2>2, ComparedEdgesCross
<1> QED
  BY <1>4, <1>5, <1>6, <1>7

(* The end of an edge is the start of the following one.                    *)
LEMMA EndsAreStarts ==
    ASSUME NEW a \in Points, NEW b \in Points, NEW c \in Points, NEW d \in Points,
           NEW e \in Points, NEW n \in Nat, NEW l \in Nat, SamePoint(a, b, c, d, n, l, n)
    PROVE  SamePoint(b, e, c, d, 0, l, n)
<1>1. \A x, y, z \in Int : n * x + n * (y - x) = n * y + 0 * (z - y)
  OBVIOUS
<1> QED
  BY <1>1 DEF SamePoint, Points

LEMMA CurvesNowhereTwiceAreValid ==
    ASSUME NEW polygon \in Seq(Points), WellFormed(polygon), NowhereTwice(polygon),
           AreaTwice(polygon) >= MinAreaTwice
    PROVE  ValidPolygon(polygon)
<1>1. Len(polygon) \in 3..MaxVertices
  BY DEF WellFormed
<1>2. ASSUME NEW i \in DOMAIN polygon, NEW j \in DOMAIN polygon, polygon[i] = polygon[j]
      PROVE  i = j
  <2>1. ASSUME NEW a \in Points, NEW b \in Points, NEW d \in Points
        PROVE  SamePoint(a, b, a, d, 0, 0, 1)
    <3>1. \A x, y, z \in Int : 1 * x + 0 * (y - x) = 1 * x + 0 * (z - x)
      OBVIOUS
    <3> QED
      BY <3>1 DEF SamePoint, Points
  <2>2. SameCurvePoint(polygon, i, j, 0, 0, 1)
    <3>1. /\ polygon[i] \in Points /\ polygon[Following(i, polygon)] \in Points
          /\ polygon[Following(j, polygon)] \in Points
      BY <1>1, FollowingIs
    <3> QED
      BY <1>2, <2>1, <3>1 DEF SameCurvePoint
  <2>3. 1 \in Nat \ {0} /\ 0 \in 0..(1 - 1)
    OBVIOUS
  <2> QED
    BY <2>2, <2>3 DEF NowhereTwice
<1>3. ASSUME NEW i \in DOMAIN polygon, NEW j \in DOMAIN polygon, i # j,
             Following(i, polygon) # j, Following(j, polygon) # i,
             EdgesIntersect(polygon, i, j)
      PROVE  FALSE
  <2> DEFINE x == Following(i, polygon)
             y == Following(j, polygon)
  <2>1. /\ x \in DOMAIN polygon /\ y \in DOMAIN polygon
        /\ polygon[i] \in Points /\ polygon[x] \in Points
        /\ polygon[j] \in Points /\ polygon[y] \in Points
        /\ polygon[Following(x, polygon)] \in Points
        /\ polygon[Following(y, polygon)] \in Points
        /\ x # y
    BY <1>1, <1>3, FollowingIs
  <2>2. Meet(polygon[i], polygon[x], polygon[j], polygon[y])
    BY <1>3, <2>1, IntersectionIsExact DEF EdgesIntersect
  <2>3. PICK n \in Nat \ {0} : \E k, l \in 0..n :
               SamePoint(polygon[i], polygon[x], polygon[j], polygon[y], k, l, n)
    BY <2>2 DEF Meet
  <2>4. PICK k \in 0..n, l \in 0..n :
               SamePoint(polygon[i], polygon[x], polygon[j], polygon[y], k, l, n)
    BY <2>3
  <2>5. \E r \in {i, x}, s \in {j, y} : \E u, v \in 0..(n - 1) :
             SameCurvePoint(polygon, r, s, u, v, n)
    <3>1. 0 \in 0..(n - 1) /\ (k = n \/ k \in 0..(n - 1)) /\ (l = n \/ l \in 0..(n - 1))
      OBVIOUS
    <3>2. CASE k \in 0..(n - 1) /\ l \in 0..(n - 1)
      BY <2>4, <3>2 DEF SameCurvePoint
    <3>3. CASE k = n /\ l \in 0..(n - 1)
      <4>0. SamePoint(polygon[i], polygon[x], polygon[j], polygon[y], n, l, n)
        BY <2>4, <3>3
      <4>1. SameCurvePoint(polygon, x, j, 0, l, n)
        <5> HIDE DEF x, y
        <5>1. SamePoint(polygon[x], polygon[Following(x, polygon)], polygon[j], polygon[y], 0, l, n)
          <6>1. n \in Nat /\ l \in Nat
            OBVIOUS
          <6> QED
            BY <2>1, <4>0, <6>1, EndsAreStarts
        <5> QED
          BY <5>1 DEF SameCurvePoint, y
      <4> QED
        BY <3>1, <3>3, <4>1
    <3>4. CASE k \in 0..(n - 1) /\ l = n
      <4>1. SamePoint(polygon[j], polygon[y], polygon[i], polygon[x], n, k, n)
        BY <2>4, <3>4 DEF SamePoint
      <4>2. SamePoint(polygon[y], polygon[Following(y, polygon)], polygon[i], polygon[x], 0, k, n)
        <5>1. n \in Nat /\ k \in Nat
          OBVIOUS
        <5> HIDE DEF x, y
        <5> QED
          BY <2>1, <4>1, <5>1, EndsAreStarts
      <4>3. SameCurvePoint(polygon, i, y, k, 0, n)
        BY <4>2 DEF SameCurvePoint, SamePoint
      <4> QED
        BY <3>1, <3>4, <4>3
    <3>5. CASE k = n /\ l = n
      <4>1. SamePoint(polygon[x], polygon[Following(x, polygon)], polygon[j], polygon[y], 0, n, n)
        BY <2>1, <2>4, <3>5, EndsAreStarts
      <4>2. SamePoint(polygon[j], polygon[y], polygon[x], polygon[Following(x, polygon)], n, 0, n)
        BY <4>1 DEF SamePoint
      <4>3. SamePoint(polygon[y], polygon[Following(y, polygon)],
                      polygon[x], polygon[Following(x, polygon)], 0, 0, n)
        BY <2>1, <4>2, EndsAreStarts
      <4>4. SameCurvePoint(polygon, x, y, 0, 0, n)
        BY <4>3 DEF SameCurvePoint, SamePoint
      <4> QED
        BY <3>1, <4>4
    <3> QED
      BY <3>1, <3>2, <3>3, <3>4, <3>5
  <2>6. \A r \in {i, x}, s \in {j, y} : r # s /\ r \in DOMAIN polygon /\ s \in DOMAIN polygon
    BY <1>3, <2>1
  <2> QED
    BY <2>5, <2>6 DEF NowhereTwice
<1>4. ~Crosses(polygon)
  BY <1>3 DEF Crosses, ComparedEdges, EdgesIntersect
<1> QED
  BY <1>2, <1>4 DEF ValidPolygon

(* The server accepts exactly the closed curves that are nowhere twice and  *)
(* not too small, of any number of vertices on a grid of any size, although *)
(* it compares no neighbouring edges: an edge that leads back along its     *)
(* neighbour touches the edge after it, or encloses no area.                *)
THEOREM ServerAcceptsSimpleCurves ==
    \A polygon \in Seq(Points) :
        ValidPolygon(polygon) <=>
            /\ WellFormed(polygon) /\ NowhereTwice(polygon)
            /\ AreaTwice(polygon) >= MinAreaTwice
BY ValidPolygonsAreNowhereTwice, CurvesNowhereTwiceAreValid DEF ValidPolygon

(* Two regions of different layers whose outlines have a point in common,   *)
(* were it the corner of one on the side of the other, are warned of, with  *)
(* the lower one first, in whatever order the snapshot lists them           *)
(* (validate_region_snapshot).                                              *)
THEOREM ContactsAreWarnedOf ==
    ASSUME NEW snapshot, NEW i \in DOMAIN snapshot, NEW j \in DOMAIN snapshot,
           snapshot[i].z < snapshot[j].z,
           NEW p \in Seq(Points), p = snapshot[i].polygon, WellFormed(p),
           NEW q \in Seq(Points), q = snapshot[j].polygon, WellFormed(q),
           NEW x \in DOMAIN p, NEW y \in DOMAIN q,
           Meet(p[x], p[Following(x, p)], q[y], q[Following(y, q)])
    PROVE  <<snapshot[i].key, snapshot[j].key>> \in OverlapWarnings(snapshot)
<1> DEFINE e == <<p[x], p[Following(x, p)]>>
           f == <<q[y], q[Following(y, q)]>>
<1>1. e \in Edges(p) /\ f \in Edges(q)
  BY DEF Edges
<1>2. Intersect(e, f)
  <2>1. p[x] \in Points /\ p[Following(x, p)] \in Points
    BY FollowingIs DEF WellFormed
  <2>2. q[y] \in Points /\ q[Following(y, q)] \in Points
    BY FollowingIs DEF WellFormed
  <2> QED
    BY <2>1, <2>2, IntersectionIsExact DEF Intersect
<1>3. PolygonsOverlap(p, q)
  <2> HIDE DEF e, f
  <2> QED
    BY <1>1, <1>2 DEF PolygonsOverlap
<1> DEFINE r == snapshot[i]
           t == snapshot[j]
           drawn == {snapshot[k] : k \in DOMAIN snapshot}
           overlapping == {pair \in drawn \X drawn :
                              /\ pair[1].z < pair[2].z
                              /\ PolygonsOverlap(pair[1].polygon, pair[2].polygon)}
<1>4. r \in drawn /\ t \in drawn /\ r.z < t.z /\ PolygonsOverlap(r.polygon, t.polygon)
  BY <1>3
<1>5. OverlapWarnings(snapshot) = {<<pair[1].key, pair[2].key>> : pair \in overlapping}
  BY DEF OverlapWarnings
<1> HIDE DEF r, t, drawn
<1>6. <<r, t>> \in overlapping
  BY <1>4
<1>7. <<r.key, t.key>> \in OverlapWarnings(snapshot)
  <2> HIDE DEF overlapping
  <2>1. \E pair \in overlapping : <<r.key, t.key>> = <<pair[1].key, pair[2].key>>
    BY <1>6
  <2> QED
    BY <1>5, <2>1
<1> QED
  BY <1>7 DEF r, t
=============================================================================
