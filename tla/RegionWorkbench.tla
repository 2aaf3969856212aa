---------------------------- MODULE RegionWorkbench ----------------------------
(* The region workbench: what the image and region services answer of the   *)
(* project's state, what the page (RegionAnnotationWorkspace.tsx) offers on *)
(* such an answer, and whether the commands accept it.                      *)
EXTENDS PaintGovernance

Roles == {"owner", "reviewer"}

(* _image_set_read: the status the image page shows ...                     *)
ImageSetRead ==
    CASE review.verdict = "none" -> "incomplete"
      [] review.verdict # "none" /\ (\/ review.of # images
                                     \/ review.verdict = "ready" /\ ~Complete(images)) -> "stale"
      [] OTHER -> review.verdict

(* ... and resolve_current_image_set, the status that governs everything.   *)
CurrentImageSet ==
    IF review.verdict = "none" THEN "incomplete"
    ELSE IF review.of # images THEN "stale"
    ELSE IF review.verdict = "not_ready" THEN "not_ready"
    ELSE IF Complete(images) THEN "ready" ELSE "stale"

(* _history_item and _region_set_read, of the latest set.                   *)
RegionSetRead == [effective |-> regions.lifecycle, stale |-> RegionsStale]

(* get_workbench.                                                           *)
RegionWorkbenchRead ==
    [status |-> CurrentImageSet, current |-> RegionSetRead, versions |-> regions.version,
     can_create_draft |->
        /\ CurrentImageSet = "ready"
        /\ regions.version > 0 => regions.lifecycle \in {"draft", "approved", "changes_requested"}]

-----------------------------------------------------------------------------
(* What the page offers: drawing, a new draft over the current set, submit, *)
(* review, and a fork while an older version is looked at.                  *)
RegionOffers(w, role) ==
    LET owns == role = "owner"
        open == w.versions > 0 /\ ~w.current.stale
    IN {o \in {"draw", "start", "submit", "review", "fork"} :
           CASE o = "draw" -> owns /\ IF w.versions = 0 THEN w.can_create_draft
                                      ELSE open /\ w.current.effective = "draft"
             [] o = "start" -> /\ owns /\ w.status = "ready"
                               /\ w.current.effective \in {"approved", "changes_requested"}
             [] o = "submit" -> owns /\ open /\ w.current.effective = "draft"
             [] o = "review" -> open /\ w.current.effective = "submitted"
             [] o = "fork" -> owns /\ w.status = "ready" /\ w.versions > 1}

CommandAccepts(o) ==
    CASE o \in {"draw", "start"} -> CanSave
      [] o = "submit" -> CanSubmitSet
      [] o = "review" -> CanReviewSet
      [] o = "fork" -> CanFork

(* The only set of a project, drawn over images that were replaced before   *)
(* it was settled: the page shows it read-only and there is no older        *)
(* version to fork, though save_draft and fork_draft would accept it.       *)
PageDeadEnd(w) ==
    /\ w.versions = 1 /\ w.current.stale
    /\ w.current.effective \in {"draft", "submitted"}

(* The two derivations of readiness agree, the page's offers are accepted,  *)
(* the flag the server computes for it is save_draft's guard, and over      *)
(* ready images the page offers somebody a way on, but for its dead end.    *)
RegionsAreCoherent ==
    LET w == RegionWorkbenchRead
    IN  /\ ImageSetRead = CurrentImageSet
        /\ ImageSetReady <=> w.status = "ready"
        /\ w.can_create_draft <=> CanSave
        /\ \A role \in Roles : \A o \in RegionOffers(w, role) : CommandAccepts(o)
        /\ w.status = "ready" =>
              PageDeadEnd(w) \/ \E role \in Roles : RegionOffers(w, role) # {}
=============================================================================
