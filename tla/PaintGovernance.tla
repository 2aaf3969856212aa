--------------------------- MODULE PaintGovernance ---------------------------
(* How a project's images, their readiness review, its regions and its      *)
(* paint plans govern each other, while paid and fixture generations run    *)
(* between their transactions.  A human command is one transaction under    *)
(* the lock of the project row, so one action; a generation reads its       *)
(* sources without a lock, calls a provider with no transaction open, and   *)
(* persists the plan in a transaction of its own.                           *)
(*                                                                          *)
(* A command that is refused, or replayed under its Idempotency-Key, leaves *)
(* everything as it was and is not an action.  What the images and polygons *)
(* contain is abstracted to revision and version numbers; the reservation,  *)
(* dispatch and settlement of a paid call are ZhipuInvocation's.            *)
EXTENDS Naturals, Sequences

CONSTANTS
    Generations,   \* requests to generate or regenerate a plan
    Paid,          \* those that select the Zhipu provider; others: fixture
    Regenerations, \* those that replace a plan; others make the first one
    Keys, KeyOf,   \* Idempotency-Key of each request
    Scenarios,     \* which requests come
    Nobody,        \* no generation holds a claim
    MaxRevisions,  \* bound: uploads after the image set was incomplete
    MaxReviews,    \* bound: readiness reviews
    MaxSets,       \* bound: region set versions
    MaxPlans,      \* bound: plan versions
    MaxHistory     \* bound: readiness reviews and plan versions together

ASSUME PaintAssumption ==
    /\ Paid \subseteq Generations /\ Regenerations \subseteq Generations
    /\ KeyOf \in [Generations -> Keys]
    /\ Nobody \notin Generations
    /\ Scenarios \subseteq SUBSET Generations
    /\ \A g, h \in Generations :
          KeyOf[g] = KeyOf[h] => /\ g \in Paid <=> h \in Paid
                                 /\ g \in Regenerations <=> h \in Regenerations
    /\ {MaxRevisions, MaxReviews, MaxSets, MaxPlans, MaxHistory} \subseteq Nat

VARIABLES
    images,     \* what image_set_fingerprint covers: the current assets, and
                \* whether their private objects can be read
    review,     \* the latest readiness review and the fingerprint it is of
    regions,    \* the latest region set, its effective lifecycle and source
    plans,      \* the project's plan versions, oldest first
    command,    \* the plan a completed (re)generation command made, 0: none
    invocation, \* each key's invocation: status and what its payload names
    claim,      \* the business resources: first plan (0), successor of plan v
    pc, read    \* where each generation is and the sources it has read

vars == <<images, review, regions, plans, command, invocation, claim, pc, read>>
sources == <<images, review, regions>>
generating == <<command, invocation, claim, pc, read>>

-----------------------------------------------------------------------------
Incomplete == [revision |-> 0, available |-> TRUE]
NothingRead == [images |-> Incomplete, review |-> 0, regions |-> 0, parent |-> 0]
NoInvocation == [status |-> "none", sent |-> NothingRead]

(* Missing roles and unreadable objects are the facts that block a verdict. *)
Complete(i) == i.revision > 0 /\ i.available

(* resolve_current_image_set: the status is "ready".                        *)
ImageSetReady ==
    /\ review.verdict = "ready"
    /\ review.of = images
    /\ Complete(images)

RegionsStale == ~ImageSetReady \/ regions.of # images

(* PaintPlanSourceSnapshot.ready, for the latest region set.                *)
SourceReady == regions.lifecycle = "approved" /\ ~RegionsStale

Provenance == [images |-> images, review |-> review.version,
               regions |-> regions.version]
ProvenanceOf(r) == [images |-> r.images, review |-> r.review, regions |-> r.regions]

(* Faulty variant: another readiness review of the same images goes         *)
(* unnoticed.                                                               *)
PlanStaleIgnoringReview(p) ==
    \/ ~ImageSetReady
    \/ p.source.images # images
    \/ p.source.regions # regions.version

PlanStale(p) == ~ImageSetReady \/ p.source # Provenance

Current == plans[Len(plans)]

Goto(g, l) == pc' = [pc EXCEPT ![g] = l] /\ UNCHANGED read
Finish(g) == /\ pc' = [pc EXCEPT ![g] = "done"]
             /\ read' = [read EXCEPT ![g] = NothingRead]

-----------------------------------------------------------------------------
Init ==
    /\ images = Incomplete
    /\ review = [version |-> 0, of |-> Incomplete, verdict |-> "none"]
    /\ regions = [version |-> 0, lifecycle |-> "none", of |-> Incomplete]
    /\ plans = <<>>
    /\ command = [k \in Keys |-> 0]
    /\ invocation = [k \in Keys |-> NoInvocation]
    /\ claim = [s \in 0..MaxPlans |-> Nobody]
    /\ \E s \in Scenarios : pc = [g \in Generations |-> IF g \in s THEN "start" ELSE "done"]
    /\ read = [g \in Generations |-> NothingRead]

-----------------------------------------------------------------------------
(* An upload that completes or changes the image set (ImageUpload).         *)
UploadImage ==
    /\ images.revision < MaxRevisions
    /\ images' = [images EXCEPT !.revision = @ + 1]
    /\ UNCHANGED <<review, regions, plans, generating>>

(* The store stops serving an object, or serves it again.                   *)
StoreChanges ==
    /\ images.revision > 0
    /\ images' = [images EXCEPT !.available = ~@]
    /\ UNCHANGED <<review, regions, plans, generating>>

CanMarkReady == Complete(images)

ReviewReadiness(verdict) ==
    /\ review.version < MaxReviews /\ review.version + Len(plans) < MaxHistory
    /\ verdict = "ready" => CanMarkReady
    /\ review' = [version |-> review.version + 1, of |-> images, verdict |-> verdict]
    /\ UNCHANGED <<images, regions, plans, generating>>

-----------------------------------------------------------------------------
(* Every region command inserts the next version, or the one review of the  *)
(* latest one; a client that names another base or version is refused.      *)
NewSet(lifecycle) ==
    /\ regions.version < MaxSets
    /\ regions' = [version |-> regions.version + 1, lifecycle |-> lifecycle,
                   of |-> images]
    /\ UNCHANGED <<images, review, plans, generating>>

CanSave == ImageSetReady /\ regions.lifecycle # "submitted"

SaveDraft == CanSave /\ NewSet("draft")

(* Faulty variant: a fork takes its target's lifecycle into account.        *)
CanForkSettled == CanSave /\ regions.version > 0

(* fork_draft copies any older set and asks nothing of the current one.     *)
CanFork == ImageSetReady /\ regions.version > 0

ForkDraft == CanFork /\ NewSet("draft")

CanSubmitSet == regions.lifecycle = "draft" /\ ~RegionsStale

SubmitSet == CanSubmitSet /\ NewSet("submitted")

CanReviewSet == regions.lifecycle = "submitted" /\ ~RegionsStale

ReviewSet(verdict) ==
    /\ CanReviewSet
    /\ regions' = [regions EXCEPT !.lifecycle = verdict]
    /\ UNCHANGED <<images, review, plans, generating>>

-----------------------------------------------------------------------------
(* _completed_mutation_replay and _claim_mutation: a key whose command is    *)
(* complete is answered with the plan it made, as it reads now.             *)
NotCompleted(k) == command[k] = 0

(* _load_source without FOR UPDATE: its SELECTs are statements of a READ    *)
(* COMMITTED transaction, and commands may commit between the images' and   *)
(* the regions'.                                                            *)
ReadImages(g) ==
    /\ pc[g] = "start"
    /\ NotCompleted(KeyOf[g])
    /\ review.verdict = "ready" /\ review.of.revision = images.revision
    /\ read' = [read EXCEPT ![g] = [NothingRead EXCEPT !.images = review.of,
                                                       !.review = review.version]]
    /\ pc' = [pc EXCEPT ![g] = "reading"]
    /\ UNCHANGED <<sources, plans, command, invocation, claim>>

(* The first plan is not asked for only when there is none: an existing     *)
(* plan is noticed when the result is persisted.                            *)
RegionsMatch(g) ==
    /\ images.available
    /\ regions.lifecycle = "approved"
    /\ regions.of = read[g].images
    /\ g \in Regenerations => plans # <<>>

ReadRegions(g) ==
    /\ pc[g] = "reading"
    /\ RegionsMatch(g)
    /\ read' = [read EXCEPT
          ![g].regions = regions.version,
          ![g].parent = IF g \in Regenerations THEN Len(plans) ELSE 0]
    /\ pc' = [pc EXCEPT ![g] = "invoking"]
    /\ UNCHANGED <<sources, plans, command, invocation, claim>>

(* 409 with the blockers, or an admission, policy or budget refusal.        *)
Refused(g) ==
    /\ \/ pc[g] = "reading" /\ ~RegionsMatch(g)
       \/ pc[g] = "invoking"
    /\ Finish(g)
    /\ UNCHANGED <<sources, plans, command, invocation, claim>>

CanClaim(g) == claim[read[g].parent] = Nobody

(* The sources of a failed invocation are asked for nowhere and are left    *)
(* out.                                                                     *)
Row(status, named) ==
    [status |-> status, sent |-> IF status = "failed" THEN NothingRead ELSE named]

Sends(g, status) ==
    invocation' = [invocation EXCEPT ![KeyOf[g]] = Row(status, read[g])]

(* ZhipuInvocation's admission, claim and dispatch.  Its key is spent, also *)
(* when the claim is another's and the admission is given back.             *)
InvokePaid(g) ==
    /\ pc[g] = "invoking" /\ g \in Paid
    /\ invocation[KeyOf[g]].status = "none"
    /\ IF CanClaim(g)
       THEN /\ claim' = [claim EXCEPT ![read[g].parent] = g]
            /\ Sends(g, "running")
            /\ Goto(g, "calling")
       ELSE /\ Sends(g, "failed")
            /\ Finish(g)
            /\ UNCHANGED claim
    /\ UNCHANGED <<sources, plans, command>>

(* create_paint_plan_invocation: the key's first request, or its replay     *)
(* with the same payload, which answers the stored output.                  *)
InvokeFixture(g) ==
    /\ pc[g] = "invoking" /\ g \notin Paid
    /\ \/ /\ invocation[KeyOf[g]].status = "none"
          /\ Sends(g, "running")
          /\ Goto(g, "calling")
       \/ /\ invocation[KeyOf[g]] = [status |-> "succeeded", sent |-> read[g]]
          /\ Goto(g, "persisting")
          /\ UNCHANGED invocation
    /\ UNCHANGED <<sources, plans, command, claim>>

(* Faulty variant: the claim of an unresolved call is freed for a retry.    *)
AfterAnswerFreeing(g, status) ==
    \/ status = "succeeded" /\ Goto(g, "persisting")
    \/ status # "succeeded" /\ g \in Paid /\ Goto(g, "freeing")
    \/ status # "succeeded" /\ g \notin Paid /\ Finish(g)

AfterAnswer(g, status) ==
    \/ status = "succeeded" /\ Goto(g, "persisting")
    \/ status = "failed" /\ g \in Paid /\ Goto(g, "freeing")
    \/ status = "failed" /\ g \notin Paid /\ Finish(g)
    \/ status = "outcome_unknown" /\ Finish(g)

ProviderAnswers(g, status) ==
    /\ pc[g] = "calling"
    /\ invocation' = [invocation EXCEPT ![KeyOf[g]] = Row(status, @.sent)]
    /\ AfterAnswer(g, status)
    /\ UNCHANGED <<sources, plans, command, claim>>

FreeClaim(g) ==
    /\ pc[g] = "freeing"
    /\ claim' = [claim EXCEPT ![read[g].parent] = Nobody]
    /\ Finish(g)
    /\ UNCHANGED <<sources, plans, command, invocation>>

-----------------------------------------------------------------------------
(* _persist_generated, under the project's lock: the sources the client     *)
(* named are read again, and the insert trigger compares the plan with what *)
(* the invocation's payload says was sent.                                  *)
(* Faulty variant: a first plan is accepted whatever plans exist.           *)
CanPersistAnother(g) ==
    /\ NotCompleted(KeyOf[g])
    /\ SourceReady
    /\ ProvenanceOf(invocation[KeyOf[g]].sent) = Provenance

CanPersist(g) ==
    /\ NotCompleted(KeyOf[g])
    /\ SourceReady
    /\ ProvenanceOf(invocation[KeyOf[g]].sent) = Provenance
    /\ Len(plans) = read[g].parent

(* The parent is superseded by the transaction that inserts its successor.  *)
AddPlan(plan) ==
    /\ Len(plans) < MaxPlans /\ review.version + Len(plans) < MaxHistory
    /\ plans' = Append([v \in DOMAIN plans |->
                           [plans[v] EXCEPT !.lifecycle = "superseded"]], plan)

Persist(g) ==
    /\ pc[g] = "persisting"
    /\ CanPersist(g)
    /\ AddPlan([lifecycle |-> "generated", parent |-> read[g].parent, key |-> KeyOf[g],
                kind |-> IF g \in Regenerations THEN "regenerated" ELSE "generated",
                lineage |-> Len(plans) + 1, revision |-> 1,
                source |-> Provenance, reviews |-> <<>>])
    /\ command' = [command EXCEPT ![KeyOf[g]] = Len(plans) + 1]
    /\ Finish(g)
    /\ UNCHANGED <<sources, invocation, claim>>

(* The key's command was completed meanwhile and is replayed, or the        *)
(* transaction rolls back: a stale source, another current plan, a timeout. *)
NothingPersisted(g) ==
    /\ pc[g] = "persisting"
    /\ Finish(g)
    /\ UNCHANGED <<sources, plans, command, invocation, claim>>

(* The worker dies; elsewhere that is as if it had been Refused, or had      *)
(* NothingPersisted.                                                        *)
Crash(g) ==
    /\ pc[g] \in {"calling", "freeing"}
    /\ Finish(g)
    /\ UNCHANGED <<sources, plans, command, invocation, claim>>

-----------------------------------------------------------------------------
(* edit: the owner's revision keeps the provenance of the plan it replaces. *)
Edit ==
    /\ plans # <<>> /\ ~PlanStale(Current)
    /\ AddPlan([lifecycle |-> "edited", parent |-> Len(plans), key |-> Current.key,
                kind |-> "edited",
                lineage |-> Current.lineage, revision |-> Current.revision + 1,
                source |-> Current.source, reviews |-> <<>>])
    /\ UNCHANGED <<sources, generating>>

(* _transition: submit by the owner, approve and reject by a reviewer; what *)
(* may follow is the same for an approved and a rejected plan.              *)
LifecycleOf(action) == IF action = "submit" THEN "under_review" ELSE "decided"

(* Faulty variant: a plan under review may be submitted again.              *)
CanReviewAnyPlan(action) == Current.lifecycle # "decided"

CanReviewPlan(action) ==
    Current.lifecycle \in IF action = "submit" THEN {"generated", "edited"}
                                              ELSE {"under_review"}

Transition(action) ==
    /\ plans # <<>> /\ ~PlanStale(Current)
    /\ CanReviewPlan(action)
    /\ plans' = [plans EXCEPT ![Len(plans)].lifecycle = LifecycleOf(action),
                              ![Len(plans)].reviews = Append(@, action)]
    /\ UNCHANGED <<sources, generating>>

SubmitPlan == Transition("submit")
DecidePlan == Transition("decide")

-----------------------------------------------------------------------------
Generate(g) ==
    \/ ReadImages(g) \/ ReadRegions(g) \/ Refused(g)
    \/ InvokePaid(g) \/ InvokeFixture(g)
    \/ \E s \in {"succeeded", "failed", "outcome_unknown"} : ProviderAnswers(g, s)
    \/ FreeClaim(g) \/ Persist(g) \/ NothingPersisted(g)

Next ==
    \/ UploadImage \/ StoreChanges
    \/ \E v \in {"ready", "not_ready"} : ReviewReadiness(v)
    \/ SaveDraft \/ ForkDraft \/ SubmitSet
    \/ \E v \in {"approved", "changes_requested"} : ReviewSet(v)
    \/ \E g \in Generations : Generate(g) \/ Crash(g)
    \/ Edit \/ SubmitPlan \/ DecidePlan

Spec == Init /\ [][Next]_vars

-----------------------------------------------------------------------------
Fingerprints == [revision : 0..MaxRevisions, available : BOOLEAN]
Reads == [images : Fingerprints, review : 0..MaxReviews, regions : 0..MaxSets,
          parent : 0..MaxPlans]
Plans == [lifecycle : {"generated", "edited", "under_review", "decided",
                       "superseded"},
          kind : {"generated", "edited", "regenerated"},
          parent : 0..MaxPlans, key : Keys,
          lineage : 1..MaxPlans, revision : 1..MaxPlans,
          reviews : {<<>>, <<"submit">>, <<"submit", "decide">>},
          source : [images : Fingerprints, review : 1..MaxReviews,
                    regions : 1..MaxSets]]

(* Type invariant; a verdict "ready" stands only over complete, readable    *)
(* images, and regions were drawn only over such images.                    *)
TypeOK ==
    /\ images \in Fingerprints
    /\ review \in [version : 0..MaxReviews, of : Fingerprints,
                   verdict : {"none", "ready", "not_ready"}]
    /\ review.verdict = "ready" => Complete(review.of)
    /\ regions \in [version : 0..MaxSets, of : Fingerprints,
                    lifecycle : {"none", "draft", "submitted", "approved",
                                 "changes_requested"}]
    /\ regions.lifecycle # "none" => Complete(regions.of)
    /\ plans \in Seq(Plans) /\ Len(plans) <= MaxPlans
    /\ command \in [Keys -> 0..MaxPlans]
    /\ invocation \in [Keys -> [status : {"none", "running", "succeeded", "failed",
                                          "outcome_unknown"}, sent : Reads]]
    /\ claim \in [0..MaxPlans -> Generations \cup {Nobody}]
    /\ pc \in [Generations -> {"start", "reading", "invoking", "calling", "freeing",
                               "persisting", "done"}]
    /\ read \in [Generations -> Reads]

(* Concurrent generations, edits and retries leave one line of revisions:   *)
(* only the last is current, each names its predecessor, only the first was *)
(* generated from nothing, a command makes one plan and the plan it is      *)
(* recorded with is the one it made.                                        *)
PlansAreLinear ==
    /\ \A v \in DOMAIN plans :
          /\ plans[v].parent = v - 1
          /\ plans[v].lifecycle = "superseded" <=> v < Len(plans)
          /\ plans[v].kind = "generated" <=> v = 1
          /\ plans[v].kind # "edited" => command[plans[v].key] = v
    /\ \A k \in Keys : command[k] # 0 =>
          command[k] \in DOMAIN plans /\ plans[command[k]].key = k

Spent(k) == invocation[k].status \in {"running", "succeeded", "outcome_unknown"}

(* A project pays once for its first plan and once for the successor of     *)
(* each plan revision, whatever keys, retries, crashes and unknown outcomes *)
(* there are, and also when the paid result could not be persisted.         *)
PaidOncePerRevision ==
    \A g, h \in Paid :
        /\ Spent(KeyOf[g]) /\ Spent(KeyOf[h])
        /\ invocation[KeyOf[g]].sent.parent = invocation[KeyOf[h]].sent.parent
        => KeyOf[g] = KeyOf[h]

(* A plan is created, revised, submitted or decided only while the images,  *)
(* the very readiness review and the approved regions that were sent to the *)
(* provider for it are the project's current ones: nobody approves a plan   *)
(* for something else than what was painted, photographed and reviewed.     *)
PlanStepsAreGrounded ==
    [][plans' # plans =>
          LET sent == invocation[plans'[Len(plans')].key]
          IN  /\ sent.status = "succeeded"
              /\ ProvenanceOf(sent.sent) = Provenance
              /\ review.verdict = "ready" /\ review.of = images /\ Complete(images)
              /\ regions.lifecycle = "approved" /\ regions.of = images]_vars

(* Over ready images the regions are never stuck: some region command is    *)
(* accepted, also when the latest set was submitted over older images and   *)
(* can no longer be reviewed, saved over or submitted.                      *)
RegionWorkCanContinue ==
    ImageSetReady => CanSave \/ CanFork \/ CanSubmitSet \/ CanReviewSet
=============================================================================
