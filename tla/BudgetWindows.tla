---------------------------- MODULE BudgetWindows ----------------------------
(* Where the money of AI calls is counted while its owners change their     *)
(* budgets.  A budget account is one (user or project, currency) pair: a    *)
(* policy row and a list of counter rows, one per window of time.  Saving   *)
(* the policy opens a new counter when none is active or the window length  *)
(* changed; a reservation stays on the counter it was admitted on.          *)
(*                                                                          *)
(* The locks of the user and the project make each command one action.      *)
(* What a call does between its admission and its end is ZhipuInvocation's  *)
(* and FixtureInvocation's; refusals change nothing and are not actions.    *)
(* Time only closes windows.                                                *)
(*                                                                          *)
(* Scope: of the fixture calls that share an account one is under way at a  *)
(* time, and none is cancelled after its dispatch.  Sessions of overlapping *)
(* ones write back counters they remember, which is FixtureInvocation's     *)
(* subject; paid calls read their counters afresh and overlap here.         *)
EXTENDS Amounts, Sequences

CONSTANTS
    Accounts,
    Live,          \* accounts in CNY, of paid calls; others: fixture credits
    Capped,        \* the users' live accounts, under the governed ledger cap
    LedgerCap,     \* WP2_GOVERNED_LEDGER_CAP_FEN
    Calls, AccountsOf, Estimate,
    Costs, CostBound, \* measured costs, at most CostBound
    Limits, Lengths,  \* what the owner of each account may enter
    MaxWindows     \* bound: counters opened for each account

ASSUME BudgetAssumption ==
    /\ Capped \subseteq Live /\ Live \subseteq Accounts
    /\ IsFiniteSet(Calls)
    /\ AccountsOf \in [Calls -> SUBSET Accounts]
    /\ \A c \in Calls : AccountsOf[c] \subseteq Live \/ AccountsOf[c] \cap Live = {}
    /\ LedgerCap \in Nat /\ Estimate \in [Calls -> 1..LedgerCap]
    /\ CostBound \in Nat /\ LedgerCap <= CostBound /\ Costs \subseteq 1..CostBound
    /\ Limits \in [Accounts -> SUBSET (Nat \ {0})]
    /\ Lengths \in [Accounts -> SUBSET (Nat \ {0})]
    /\ MaxWindows \in [Accounts -> Nat]

VARIABLES
    policy,   \* cumulative limit and window length; length 0: no row
    windows,  \* the counter rows of each account by window_start
    state,    \* budget_reservations.state of each call
    at,       \* the counter its reservation names on each account, 0: none
    charged   \* its amount in ai_cost_ledger

vars == <<policy, windows, state, at, charged>>
callVars == <<state, at, charged>>

-----------------------------------------------------------------------------
Held == {"reserved", "reconciliation_required"}

(* get_user_counter, get_project_counter: the active window that started    *)
(* last; 0: none.  A longer window may become current again when a shorter  *)
(* one that was opened after it has ended.                                  *)
Current(a) ==
    LET open == {i \in DOMAIN windows[a] : windows[a][i].open}
    IN  IF open = {} THEN 0 ELSE CHOOSE i \in open : \A j \in open : j <= i

CurrentWindow(a) == windows[a][Current(a)]

InUse(w) == w.committed + w.reserved

IsLive(c) == AccountsOf[c] \subseteq Live

(* sum(ai_cost_ledger.amount_minor_units) of the account's user.            *)
CallsOf(a) == {c \in Calls : a \in AccountsOf[c]}

LedgerSpent(a) == Total(CallsOf(a), charged, CostBound)

NewWindow(limit, length) ==
    [length |-> length, open |-> TRUE, limit |-> limit, reserved |-> 0, committed |-> 0]

Init ==
    /\ policy = [a \in Accounts |-> [limit |-> 0, length |-> 0]]
    /\ windows = [a \in Accounts |-> <<>>]
    /\ state = [c \in Calls |-> "none"]
    /\ at = [c \in Calls |-> [a \in Accounts |-> 0]]
    /\ charged = [c \in Calls |-> 0]

-----------------------------------------------------------------------------
Relimited(w, limit) == IF InUse(w) <= limit THEN [w EXCEPT !.limit = limit] ELSE w

(* update_user_preference and update_project_policy, budget and counter.    *)
SaveBudget(a, limit, length) ==
    /\ policy' = [policy EXCEPT ![a] = [limit |-> limit, length |-> length]]
    /\ IF Current(a) # 0 /\ CurrentWindow(a).length = length
       THEN windows' = [windows EXCEPT ![a][Current(a)] = Relimited(@, limit)]
       ELSE /\ Len(windows[a]) < MaxWindows[a]
            /\ windows' = [windows EXCEPT ![a] = Append(@, NewWindow(limit, length))]
    /\ UNCHANGED callVars

(* window_end passes.  Of two windows the later one ends first only if it   *)
(* is shorter.                                                              *)
WindowEnds(a, i) ==
    /\ windows[a][i].open
    /\ \A j \in 1..(i - 1) :
          windows[a][j].open => windows[a][j].length > windows[a][i].length
    /\ windows' = [windows EXCEPT ![a][i].open = FALSE]
    /\ UNCHANGED <<policy, callVars>>

-----------------------------------------------------------------------------
(* The budget part of GovernedZhipuInvocationService._admit.  The length of *)
(* the window and the limit in the counter row are not looked at.           *)
LiveAdmissible(c, a) ==
    LET cap == IF a \in Capped /\ LedgerCap < policy[a].limit
               THEN LedgerCap ELSE policy[a].limit
    IN  /\ InUse(CurrentWindow(a)) + Estimate[c] <= cap
        /\ a \in Capped => LedgerSpent(a) + Estimate[c] <= LedgerCap

(* The budget part of AIFoundationService._resolve_admission.               *)
FixtureAdmissible(c, a) ==
    /\ CurrentWindow(a).length = policy[a].length
    /\ InUse(CurrentWindow(a)) + Estimate[c] <= policy[a].limit

(* It also brings the limit of the counter row up to the policy's.          *)
AdmittedLimit(c, a) == IF IsLive(c) THEN CurrentWindow(a).limit ELSE policy[a].limit

Reserved(c, a) ==
    [CurrentWindow(a) EXCEPT !.reserved = @ + Estimate[c], !.limit = AdmittedLimit(c, a)]

(* Scope: fixture calls of one account do not overlap.                      *)
Alone(c) ==
    \A d \in Calls : AccountsOf[c] \cap AccountsOf[d] # {} => state[d] # "reserved"

Admit(c) ==
    /\ state[c] = "none"
    /\ ~IsLive(c) => Alone(c)
    /\ \A a \in AccountsOf[c] :
          /\ Current(a) # 0
          /\ IF IsLive(c) THEN LiveAdmissible(c, a) ELSE FixtureAdmissible(c, a)
    /\ windows' = [a \in Accounts |->
          IF a \in AccountsOf[c]
          THEN [windows[a] EXCEPT ![Current(a)] = Reserved(c, a)]
          ELSE windows[a]]
    /\ state' = [state EXCEPT ![c] = "reserved"]
    /\ at' = [at EXCEPT ![c] = [a \in Accounts |->
                 IF a \in AccountsOf[c] THEN Current(a) ELSE 0]]
    /\ UNCHANGED <<policy, charged>>

(* Every later transaction finds its counters by the ids in the reservation *)
(* (get_user_counter_by_id, get_project_counter_by_id), ended or not.       *)
(* Faulty variant: it takes the counter that is active now.                 *)
CounterNow(c, a) == Current(a)

CounterOf(c, a) == at[c][a]

GivenBack(w, c, amount) ==
    [w EXCEPT !.reserved = @ - Estimate[c], !.committed = @ + amount]

GiveBack(c, amount) ==
    windows' = [a \in Accounts |->
        IF a \in AccountsOf[c]
        THEN [windows[a] EXCEPT ![CounterOf(c, a)] = GivenBack(@, c, amount)]
        ELSE windows[a]]

(* Settlement of a measured cost, at the end of the call or, for a paid     *)
(* call whose cost was not measured then, by the reconciliation of its      *)
(* usage.                                                                   *)
Settle(c, amount) ==
    /\ \/ state[c] = "reserved"
       \/ state[c] = "reconciliation_required" /\ charged[c] = 0 /\ IsLive(c)
    /\ amount <= Estimate[c]
    /\ GiveBack(c, amount)
    /\ state' = [state EXCEPT ![c] = "settled"]
    /\ charged' = [charged EXCEPT ![c] = amount]
    /\ UNCHANGED <<policy, at>>

(* A paid call that cost more than was reserved: the ledger has the         *)
(* measured amount, the counters keep the estimate, and reconcile refuses   *)
(* to settle it.  A fixture's cost is at most its estimate.                 *)
Overrun(c, amount) ==
    /\ state[c] = "reserved" /\ IsLive(c)
    /\ amount > Estimate[c]
    /\ state' = [state EXCEPT ![c] = "reconciliation_required"]
    /\ charged' = [charged EXCEPT ![c] = amount]
    /\ UNCHANGED <<policy, windows, at>>

(* A definite failure, a cancel before the dispatch or an expired admission.*)
Release(c) ==
    /\ state[c] = "reserved"
    /\ GiveBack(c, 0)
    /\ state' = [state EXCEPT ![c] = "released"]
    /\ UNCHANGED <<policy, at, charged>>

(* An unknown outcome keeps its reservation, in principle for ever.         *)
KeepForReconciliation(c) ==
    /\ state[c] = "reserved"
    /\ state' = [state EXCEPT ![c] = "reconciliation_required"]
    /\ UNCHANGED <<policy, windows, at, charged>>

Next ==
    \/ \E a \in Accounts :
          \/ \E limit \in Limits[a], length \in Lengths[a] : SaveBudget(a, limit, length)
          \/ \E i \in DOMAIN windows[a] : WindowEnds(a, i)
    \/ \E c \in Calls :
          \/ Admit(c) \/ Release(c) \/ KeepForReconciliation(c)
          \/ \E amount \in Costs : Settle(c, amount) \/ Overrun(c, amount)

Spec == Init /\ [][Next]_vars

-----------------------------------------------------------------------------
(* Type invariant: policies, counters and what the reservations name.       *)
Window(a) == [length : Lengths[a], open : BOOLEAN, limit : Limits[a],
              reserved : Nat, committed : Nat]

TypeOK ==
    /\ DOMAIN policy = Accounts /\ DOMAIN windows = Accounts
    /\ \A a \in Accounts :
          /\ policy[a] \in [limit : Limits[a] \cup {0}, length : Lengths[a] \cup {0}]
          /\ windows[a] \in Seq(Window(a)) /\ Len(windows[a]) <= MaxWindows[a]
    /\ state \in [Calls -> {"none", "settled", "released"} \cup Held]
    /\ at \in [Calls -> [Accounts -> Nat]]
    /\ charged \in [Calls -> 0..CostBound]

On(a, i, states) == {c \in Calls : at[c][a] = i /\ state[c] \in states}

(* What the ledger has of a call within the amount reserved for it, and the *)
(* calls of a window that may still add to it.                              *)
Covered == [c \in Calls |-> IF charged[c] > Estimate[c] THEN Estimate[c] ELSE charged[c]]
Unmeasured(a, i) == {c \in On(a, i, Held) : charged[c] = 0}

(* A user who never changes the window's length and never lets it end       *)
(* exceeds the governed cap only by what single calls cost above their      *)
(* reservations: the ledger within these, and what calls in flight or       *)
(* unresolved may still add, stay within the cap.                           *)
OneWindowKeepsCap ==
    \A a \in Capped : Len(windows[a]) = 1 =>
        Total(CallsOf(a), Covered, CostBound) + Total(Unmeasured(a, 1), Estimate, CostBound)
            <= LedgerCap

(* Every counter of every window equals what the reservations that name it  *)
(* hold and were charged, although windows end and are replaced while calls *)
(* are in flight: a call is settled where it was reserved, and one that     *)
(* cost more than that keeps its place.  What the owner of fixture credits  *)
(* reads as the limit of a window bounds what is in use in it, however      *)
(* often the limit was lowered and raised; a user's paid windows are each   *)
(* bounded by the governed cap.  (Fixture calls one at a time, see Scope.)  *)
WindowsExact ==
    /\ TypeOK /\ OneWindowKeepsCap
    /\ \A a \in Accounts : \A i \in DOMAIN windows[a] :
          /\ windows[a][i].reserved = Total(On(a, i, Held), Estimate, CostBound)
          /\ windows[a][i].committed = Total(On(a, i, {"settled"}), charged, CostBound)
          /\ a \notin Live => InUse(windows[a][i]) <= windows[a][i].limit
          /\ a \in Capped => InUse(windows[a][i]) <= LedgerCap

(* resources.ts:820: a live call "is bounded by the cumulative 1.00 CNY     *)
(* cap"; zhipu_invocations.py:572 keeps the ledger of a user under a cap    *)
(* for all time.                                                            *)
LedgerWithinCap == \A a \in Capped : LedgerSpent(a) <= LedgerCap

=============================================================================
