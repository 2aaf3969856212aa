------------------------------- MODULE Workbench -------------------------------
(* The paint plan workbench: what get_workbench answers of the project's    *)
(* state, and what the web page (apps/web/src/api/paintPlans.ts) checks of  *)
(* an answer before it shows it.  The page is written against its own idea  *)
(* of the rules and discards an answer that contradicts it, so the two and  *)
(* the guards of the commands have to agree in every state.                 *)
EXTENDS PlanPreview

IsCurrent(v) == plans[v].lifecycle # "superseded"

-----------------------------------------------------------------------------
(* _plan_read: allowed_actions.                                             *)
(* Faulty variant: a plan under review may be submitted from the page.      *)
PlanActionsUnguarded(v, role) ==
    IF ~IsCurrent(v) \/ PlanStale(plans[v]) THEN {}
    ELSE IF role = "owner" THEN {"edit", "regenerate", "submit"}
    ELSE {"decide"}

PlanActions(v, role) ==
    IF ~IsCurrent(v) \/ PlanStale(plans[v]) THEN {}
    ELSE CASE role = "owner" /\ plans[v].lifecycle \in {"generated", "edited"} ->
                 {"edit", "regenerate", "submit"}
           [] role = "owner" /\ plans[v].lifecycle = "decided" -> {"edit", "regenerate"}
           [] role = "reviewer" /\ plans[v].lifecycle = "under_review" -> {"decide"}
           [] OTHER -> {}

PlanRead(v, role) ==
    [plan      |-> plans[v],
     current   |-> IsCurrent(v),
     stale     |-> PlanStale(plans[v]),
     effective |-> IF ~IsCurrent(v) \/ PlanStale(plans[v]) THEN "superseded"
                   ELSE plans[v].lifecycle,
     actions   |-> PlanActions(v, role)]

(* get_workbench: the newest version first in the code, last here.          *)
WorkbenchRead(role) ==
    [status  |-> ImageSetReady, source |-> Provenance, ready |-> SourceReady,
     history |-> [v \in DOMAIN plans |-> PlanRead(v, role)],
     actions |-> {"read_history"} \cup
        IF role = "owner" /\ SourceReady
        THEN {"preview", IF \E v \in DOMAIN plans : IsCurrent(v) THEN "regenerate"
                                                                 ELSE "generate"}
        ELSE {}]

-----------------------------------------------------------------------------
(* The page: isPaintPlan, hasConsistentLatestReview, expectedPlanActions,   *)
(* hasLinkedPlanCollection, isPlanLinkedToWorkbench and isWorkbench.        *)
LatestReviewOf == [generated |-> <<>>, edited |-> <<>>, under_review |-> <<"submit">>,
                   decided |-> <<"submit", "decide">>]

IsPaintPlan(r, v) ==
    /\ r.plan.lifecycle # "superseded" => r.plan.reviews = LatestReviewOf[r.plan.lifecycle]
    /\ r.plan.kind = "edited" <=> r.plan.lineage # v
    /\ r.plan.kind = "edited" <=> r.plan.revision >= 2
    /\ r.plan.kind = "generated" <=> r.plan.parent = 0

ExpectedActions(r, role) ==
    IF r.effective = "superseded" THEN {}
    ELSE IF role = "reviewer"
         THEN IF r.effective = "under_review" THEN {"decide"} ELSE {}
    ELSE IF r.effective = "under_review" THEN {}
    ELSE {"edit", "regenerate"} \cup (IF r.effective = "decided" THEN {} ELSE {"submit"})

LinkedHistory(h) ==
    /\ h # <<>> => h[1].plan.kind = "generated" /\ h[Len(h)].current
    /\ \A v \in DOMAIN h : h[v].current => v = Len(h)
    /\ \A v \in 2..Len(h) : LET parent == h[h[v].plan.parent].plan
                                plan == h[v].plan
       IN  /\ plan.parent = v - 1
           /\ plan.kind = "edited" =>
                 /\ plan.lineage = parent.lineage /\ plan.revision = parent.revision + 1
                 /\ plan.source = parent.source /\ plan.key = parent.key
                 /\ h[plan.lineage].plan.lineage = plan.lineage
           /\ plan.kind = "regenerated" => plan.lineage # parent.lineage

IsWorkbench(w, role) ==
    /\ LinkedHistory(w.history)
    /\ \A v \in DOMAIN w.history : LET r == w.history[v] IN
          /\ IsPaintPlan(r, v)
          /\ r.actions = ExpectedActions(r, role)
          /\ ~w.status \/ r.plan.source # w.source => r.stale
    /\ w.actions = {"read_history"} \cup
          IF role = "owner" /\ w.ready
          THEN {"preview", IF w.history = <<>> THEN "generate" ELSE "regenerate"}
          ELSE {}

-----------------------------------------------------------------------------
(* What the commands ask, of the plan that is named and of its sources.     *)
Accepted(v, action) ==
    CASE action = "edit" -> v = Len(plans) /\ ~PlanStale(plans[v])
      [] action = "regenerate" -> v = Len(plans) /\ SourceReady
      [] OTHER -> v = Len(plans) /\ ~PlanStale(plans[v]) /\ CanReviewPlan(action)

(* In every state the page accepts what the server says of it, for both     *)
(* roles, and everything it then offers on a plan is accepted: also that a  *)
(* plan which is not stale still has the approved regions that regenerate   *)
(* asks for, which the plan itself does not record.  The same holds of the  *)
(* regions' workbench and of the previews.                                  *)
WorkbenchIsCoherent ==
    /\ TypeOK /\ RegionsAreCoherent /\ PreviewsAreSound
    /\ \A role \in Roles : LET w == WorkbenchRead(role) IN
        /\ IsWorkbench(w, role)
        /\ \A v \in DOMAIN plans : \A action \in w.history[v].actions : Accepted(v, action)
=============================================================================
