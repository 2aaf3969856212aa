------------------------------- MODULE Preflight -------------------------------
(* The money part of a paint plan's preview.  Before the owner confirms a   *)
(* paid call, live_saved_selection_blockers names what would refuse it; it  *)
(* is a second formulation of the admission, over the same rows, and the    *)
(* page offers the confirmation from it.  It is read-only: nothing keeps    *)
(* the state from changing before the confirmation arrives.  The other half *)
(* of the blockers, on the credential and who may use it, is Selection's.   *)
(* Per-invocation limits and the estimate itself are constants here.        *)
EXTENDS BudgetWindows

Blocker(name, condition) == IF condition THEN {name} ELSE {}

(* Faulty variant: only what is settled counts.                             *)
ExceedsCommittedOnly(c, a) ==
    CurrentWindow(a).committed + Estimate[c] > policy[a].limit

ExceedsCumulative(c, a) ==
    InUse(CurrentWindow(a)) + Estimate[c] > policy[a].limit

(* The row of the counter is compared with the policy's, limit included.    *)
WindowMismatch(a) ==
    \/ CurrentWindow(a).length # policy[a].length
    \/ CurrentWindow(a).limit # policy[a].limit

BudgetBlockers(c, a) ==
    IF Current(a) = 0
    THEN Blocker("budget_not_configured", policy[a].length = 0)
             \cup {"budget_window_not_active"}
    ELSE Blocker("budget_window_mismatch", WindowMismatch(a))
             \cup Blocker("cumulative_budget_exceeded", ExceedsCumulative(c, a))

(* PaintPlanService.preview, for a plan whose sources and selection are in  *)
(* order: it answers for calls of a project only.                           *)
Previewed(c) == IsLive(c) /\ ~(AccountsOf[c] \subseteq Capped)

PreviewAdmissible(c) == \A a \in AccountsOf[c] : BudgetBlockers(c, a) = {}

-----------------------------------------------------------------------------
BeyondLedgerCap(c, a) ==
    /\ a \in Capped
    /\ \/ InUse(CurrentWindow(a)) + Estimate[c] > LedgerCap
       \/ LedgerSpent(a) + Estimate[c] > LedgerCap

(* What the preview offers for confirmation, the admission takes, in every  *)
(* state budgets, windows and overlapping calls can reach; the governed cap *)
(* is the one thing of the budget the preview does not look at              *)
(* ("makes every other prerequisite explicit", ai_foundation.py:2195).      *)
PreviewIsHonest ==
    \A c \in Calls : state[c] = "none" /\ Previewed(c) /\ PreviewAdmissible(c) =>
        \A a \in AccountsOf[c] :
            Current(a) # 0 /\ (LiveAdmissible(c, a) \/ BeyondLedgerCap(c, a))
=============================================================================
