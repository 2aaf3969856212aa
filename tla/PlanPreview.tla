------------------------------ MODULE PlanPreview ------------------------------
(* The preview of a generation: what stands in its way, of the sources the  *)
(* page names, of the selection and of the provider, and when the page      *)
(* (isPreview, requestGeneration) takes the answer for a consent to         *)
(* generate.  A preview always speaks of a first plan, and it looks neither *)
(* at the current plan nor at the claim on its successor.                   *)
EXTENDS RegionWorkbench

Blocker(name, condition) == IF condition THEN {name} ELSE {}

ImageSetBlocker == [incomplete |-> "image_set_incomplete", stale |-> "image_set_stale",
                    not_ready |-> "image_set_not_ready"]

(* region_set_stale_reasons.                                                *)
StaleReasons ==
    Blocker("image_set_not_ready", CurrentImageSet # "ready")
    \cup Blocker("image_set_fingerprint_changed", regions.of # images)

(* What _load_source says of an older set in addition makes no difference;  *)
(* a set without a paint region is never submitted.                         *)
RegionBlockers(set) ==
    IF set \notin 1..regions.version THEN {"region_set_missing"}
    ELSE IF set # regions.version THEN {"region_set_not_current"}
    ELSE Blocker("region_set_not_approved", RegionSetRead.effective # "approved")
             \cup StaleReasons

(* _load_source, for the images and the region set that sel names.          *)
SourceBlockers(sel) ==
    (IF CurrentImageSet = "ready" THEN {} ELSE {ImageSetBlocker[CurrentImageSet]})
    \cup Blocker("readiness_review_missing", review.verdict = "none")
    \cup Blocker("image_set_fingerprint_changed", sel.images # images)
    \cup RegionBlockers(sel.set)

RoleBlockers(role) == Blocker("owner_required", role # "owner")

-----------------------------------------------------------------------------
(* What does not depend on the sources: whether the saved selection and its *)
(* budgets are in order (Selection, Preflight), the request fits the        *)
(* provider's limits, its price is on record, the provider is enabled and   *)
(* the runtime may call it.                                                 *)
Circumstances == [admits : BOOLEAN, fits : BOOLEAN, priced : BOOLEAN,
                  enabled : BOOLEAN, live : BOOLEAN]

(* _live_selection_readiness: the selection is looked at only over sources  *)
(* that are ready.                                                          *)
Estimated(sel, now) == SourceBlockers(sel) = {} /\ now.fits

SelectionReadiness(sel, now) ==
    Blocker("cost_estimate_unavailable", ~Estimated(sel, now))
    \cup Blocker("credential_grant_missing", SourceBlockers(sel) = {} /\ ~now.admits)

(* Faulty variant: the runtime's switch opens OpenAI, too.                  *)
GateOfRuntime(sel, now) == Blocker("live_execution_authorization_required", ~now.live)

Gate(sel, now) ==
    Blocker("live_execution_authorization_required", sel.provider = "openai" \/ ~now.live)

LivePreview(sel, role, now) ==
    LET blockers == SourceBlockers(sel) \cup RoleBlockers(role)
                    \cup SelectionReadiness(sel, now)
                    \cup Blocker("pricing_snapshot_invalid", ~now.priced)
                    \cup Gate(sel, now) \cup Blocker("provider_disabled", ~now.enabled)
    IN  [mode |-> "live_authorization_required", provider |-> sel.provider,
         source_ready |-> SourceBlockers(sel) = {},
         estimated |-> Estimated(sel, now) /\ now.priced,
         authorized |-> sel.provider = "zhipu" /\ now.live,
         admissible |-> sel.provider = "zhipu" /\ blockers = {} /\ now.live,
         blockers |-> blockers]

(* The fixture's own admission is asked last, and refuses with one code.    *)
FixturePreview(sel, role, now) ==
    LET before   == SourceBlockers(sel) \cup RoleBlockers(role)
        blockers == IF before # {} THEN before ELSE Blocker("admission_rejected", ~now.admits)
    IN  [mode |-> "fixture_available", provider |-> "fixture_local",
         source_ready |-> SourceBlockers(sel) = {}, estimated |-> blockers = {},
         authorized |-> FALSE, admissible |-> blockers = {}, blockers |-> blockers]

Preview(sel, role, now) ==
    IF sel.provider = "fixture_local" THEN FixturePreview(sel, role, now)
                                      ELSE LivePreview(sel, role, now)

-----------------------------------------------------------------------------
IsPreview(r) ==
    /\ r.mode = "fixture_available" <=> r.provider = "fixture_local"
    /\ ~r.source_ready => ~r.admissible /\ r.blockers # {}
    /\ r.admissible => r.source_ready /\ r.blockers = {} /\ r.estimated
    /\ ~r.admissible => r.blockers # {}
    /\ IF r.provider = "fixture_local" THEN ~r.authorized /\ (r.estimated => r.admissible)
       ELSE /\ r.provider = "openai" => ~r.authorized
            /\ ~r.authorized => /\ ~r.admissible
                                /\ "live_execution_authorization_required" \in r.blockers

(* hasAdmissiblePreview; also the condition under which a generation that   *)
(* was asked for without a preview goes on after one.                       *)
HasAdmissiblePreview(r, sel) ==
    /\ r.admissible /\ r.source_ready /\ r.blockers = {}
    /\ r.mode = "fixture_available" \/ (r.provider = "zhipu" /\ r.authorized)
    /\ r.provider = sel.provider

(* A page may be looking at older images or regions.                        *)
Selections == [provider : {"fixture_local", "zhipu", "openai"},
               images : {images, review.of, regions.of}, set : 0..regions.version]

(* The server shows its offer to preview exactly when nothing is in the way *)
(* of the current sources; the page takes every answer, for either role and *)
(* whatever has changed under the page; and it goes on to generate exactly  *)
(* for the owner, over the current, reviewed and approved sources, with all *)
(* else in order, and never with OpenAI.  Neither plans nor generations     *)
(* play a part, so it is enough to look before there are any.               *)
PreviewsAreSound ==
    plans = <<>> /\ {g \in Generations : pc[g] = "start"} \in Scenarios =>
    /\ SourceReady <=>
          SourceBlockers([images |-> images, set |-> regions.version]) = {}
    /\ \A sel \in Selections, role \in Roles, now \in Circumstances :
          LET r == Preview(sel, role, now)
          IN  /\ IsPreview(r)
              /\ HasAdmissiblePreview(r, sel) <=>
                    /\ role = "owner" /\ now.admits
                    /\ ImageSetReady /\ sel.images = images
                    /\ regions.lifecycle = "approved" /\ regions.of = images
                    /\ sel.set = regions.version
                    /\ \/ sel.provider = "fixture_local"
                       \/ /\ sel.provider = "zhipu"
                          /\ now.fits /\ now.priced /\ now.enabled /\ now.live
=============================================================================
