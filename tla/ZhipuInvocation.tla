--------------------------- MODULE ZhipuInvocation ---------------------------
(* A paid Zhipu call: GovernedZhipuInvocationService.execute and the        *)
(* operators' tools that touch the same rows.  Every action is one database *)
(* transaction or one step between two of them; the network call happens    *)
(* between two transactions, with no lock held.  A worker (one request to   *)
(* execute) may die between any two steps.                                  *)
(*                                                                          *)
(* The invocation row and its only attempt row (max_attempts = 1) are       *)
(* written with the same status by the same transactions; `status` stands   *)
(* for both.  Time is abstracted: a reservation may be past its 120 s       *)
(* admission_expires_at at any moment after admission.                      *)
EXTENDS Amounts

CONSTANTS
    Calls,         \* calls of execute(), each with the rows it creates
    NoCall,        \* no call holds a claim
    Keys, KeyOf,   \* Idempotency-Key of each call, unique per scope
    Resources, ResourceOf,     \* scope_key of the business resource it claims
    Credentials, CredentialOf,
    Users, UserOf,
    Accounts, AccountsOf,      \* budget counters: the user's and a project's
    Estimate,      \* selection.estimate_minor_units of each call
    PerCall, Limit,            \* policies' per-invocation and cumulative limits
    LedgerCap,     \* WP2_GOVERNED_LEDGER_CAP_FEN
    Costs,         \* measured costs the provider's usage may amount to
    CostBound,     \* no cost is larger
    Legacy, LegacyCost,        \* attempts settled by hand from older releases
    MaxCrashes     \* bound: how many workers may die

ASSUME ZhipuAssumption ==
    /\ IsFiniteSet(Calls) /\ NoCall \notin Calls
    /\ KeyOf \in [Calls -> Keys] /\ ResourceOf \in [Calls -> Resources]
    /\ CredentialOf \in [Calls -> Credentials]
    /\ UserOf \in [Calls -> Users] /\ Users \subseteq Accounts
    /\ AccountsOf \in [Calls -> SUBSET Accounts]
    /\ \A r \in Calls : UserOf[r] \in AccountsOf[r]
    /\ LedgerCap \in Nat /\ CostBound \in Nat /\ MaxCrashes \in Nat
    /\ Estimate \in [Calls -> Nat]
    /\ PerCall \in [Accounts -> Nat] /\ Limit \in [Accounts -> Nat]
    /\ Costs \subseteq 1..CostBound
    /\ Legacy \subseteq Calls /\ LegacyCost \in [Legacy -> Costs]
    /\ \A r \in Legacy : Estimate[r] \in 1..LedgerCap

VARIABLES
    pc,           \* where the worker of each call is, not persisted
    answer,       \* what the provider returned, in the worker's memory
    status,       \* invocation_requests.status = invocation_attempts.status
    category,     \* final_error_category, as far as reconcile reads it
    reservation,  \* budget_reservations.state
    counter,      \* reserved and committed minor units of each account
    claim,        \* command_idempotency_records of the business resources
    metered,      \* cost of the measured usage in ai_usage_ledger, 0: none
    cost1, cost2, \* ai_cost_ledger amounts: adapter row, reconciliation row
    credential,   \* status and last_validation_status of the credential row
    crashes

workerVars == <<pc, answer>>
ledgerVars == <<metered, cost1, cost2>>
vars == <<pc, answer, status, category, reservation, counter, claim,
          metered, cost1, cost2, credential, crashes>>

-----------------------------------------------------------------------------
NoAnswer == [kind |-> "none", cost |-> 0]

(* What transport, normalize_response and the output validator can end in.  *)
(* A cost is known whenever the response carried usage; 0 is "unavailable". *)
Outcomes ==
    [kind : {"ok", "schema_invalid", "authentication_failed", "upstream_error"},
     cost : Costs \cup {0}]
    \cup [kind : {"outcome_unknown", "not_dispatched"}, cost : {0}]

FreeClaim == [holder |-> NoCall, state |-> "free"]

Held == {"reserved", "dispatch_committed", "reconciliation_required"}
Terminal == {"succeeded", "failed", "outcome_unknown"}
Stopped == {"raised", "returned", "crashed"}

(* The amount a settled call was finally charged.                           *)
Billed == [r \in Calls |-> IF cost2[r] # 0 THEN cost2[r] ELSE cost1[r]]

(* sum(ai_cost_ledger.amount_minor_units) over the rows of one user.        *)
LedgerSpent(u) ==
    LET mine == {r \in Calls : UserOf[r] = u}
    IN  Total(mine, cost1, CostBound) + Total(mine, cost2, CostBound)

Cap(a) == IF a \in Users /\ LedgerCap < Limit[a] THEN LedgerCap ELSE Limit[a]

(* The legacy reservations were within the limits when they were admitted.  *)
ASSUME LegacyAssumption ==
    \A a \in Accounts :
        Total({r \in Legacy : a \in AccountsOf[r]}, Estimate, LedgerCap) <= Cap(a)

HoldersOf(a) == {r \in Calls : a \in AccountsOf[r] /\ reservation[r] \in Held}
SettledOf(a) == {r \in Calls : a \in AccountsOf[r] /\ reservation[r] = "settled"}

Reserve(r) ==
    counter' = [a \in Accounts |->
        IF a \in AccountsOf[r]
        THEN [reserved  |-> counter[a].reserved + Estimate[r],
              committed |-> counter[a].committed] ELSE counter[a]]

Unreserve(r, charged) ==
    counter' = [a \in Accounts |->
        IF a \in AccountsOf[r]
        THEN [reserved  |-> counter[a].reserved - Estimate[r],
              committed |-> counter[a].committed + charged] ELSE counter[a]]

HoldsClaim(r) == claim[ResourceOf[r]] = [holder |-> r, state |-> "in_progress"]

(* DELETE ... WHERE id = claim_id AND execution_status = 'in_progress'      *)
DeleteClaim(r) ==
    claim' = IF HoldsClaim(r)
             THEN [claim EXCEPT ![ResourceOf[r]] = FreeClaim] ELSE claim

Goto(r, l) == pc' = [pc EXCEPT ![r] = l]

-----------------------------------------------------------------------------
(* No row exists yet but those of the legacy attempts: an older release     *)
(* left them failed/schema_invalid with measured usage, no cost amount and  *)
(* the reservation kept for reconciliation.                                 *)
Init ==
    /\ pc = [r \in Calls |-> IF r \in Legacy THEN "raised" ELSE "start"]
    /\ answer = [r \in Calls |-> NoAnswer]
    /\ status = [r \in Calls |-> IF r \in Legacy THEN "failed" ELSE "none"]
    /\ category = [r \in Calls |-> IF r \in Legacy THEN "schema_invalid" ELSE "none"]
    /\ reservation =
           [r \in Calls |-> IF r \in Legacy THEN "reconciliation_required" ELSE "none"]
    /\ counter = [a \in Accounts |->
           [reserved |-> Total({r \in Legacy : a \in AccountsOf[r]}, Estimate, LedgerCap),
            committed |-> 0]]
    /\ claim = [w \in Resources |-> FreeClaim]
    /\ metered = [r \in Calls |-> IF r \in Legacy THEN LegacyCost[r] ELSE 0]
    /\ cost1 = [r \in Calls |-> 0]
    /\ cost2 = [r \in Calls |-> 0]
    /\ credential = [k \in Credentials |-> "unverified"]
    /\ crashes = 0

-----------------------------------------------------------------------------
(* _admit: one transaction that locks the user, so two admissions of a user *)
(* are serial.  The key is consumed by its first admission.                 *)
(* Faulty variant: the reservations in flight are left out of the check.    *)
CanAdmitIgnoringReserved(r) ==
    /\ Estimate[r] \in 1..LedgerCap
    /\ \A q \in Calls : KeyOf[q] = KeyOf[r] => status[q] = "none"
    /\ \A a \in AccountsOf[r] : counter[a].committed + Estimate[r] <= Cap(a)
    /\ LedgerSpent(UserOf[r]) + Estimate[r] <= LedgerCap

CanAdmit(r) ==
    /\ Estimate[r] \in 1..LedgerCap
    /\ \A q \in Calls : KeyOf[q] = KeyOf[r] => status[q] = "none"
    /\ credential[CredentialOf[r]] \in {"unverified", "valid"}
    /\ \A a \in AccountsOf[r] :
          /\ Estimate[r] <= PerCall[a]
          /\ counter[a].committed + counter[a].reserved + Estimate[r] <= Cap(a)
    /\ LedgerSpent(UserOf[r]) + Estimate[r] <= LedgerCap

Admit(r) ==
    /\ pc[r] = "start"
    /\ CanAdmit(r)
    /\ status' = [status EXCEPT ![r] = "admitted"]
    /\ reservation' = [reservation EXCEPT ![r] = "reserved"]
    /\ Reserve(r)
    /\ Goto(r, "claiming")
    /\ UNCHANGED <<answer, category, claim, ledgerVars, credential, crashes>>

(* ZhipuLiveAdmissionError before any row is written; the live gate and the *)
(* provider, model, preference and project policies may refuse as well.     *)
RefuseAdmission(r) ==
    /\ pc[r] = "start"
    /\ Goto(r, "raised")
    /\ UNCHANGED <<answer, status, category, reservation, counter, claim,
                   ledgerVars, credential, crashes>>

(* _claim_business_resource: INSERT under the unique scope key.             *)
TakeClaim(r) ==
    /\ pc[r] = "claiming"
    /\ claim[ResourceOf[r]] = FreeClaim
    /\ claim' = [claim EXCEPT ![ResourceOf[r]] = [holder |-> r, state |-> "in_progress"]]
    /\ Goto(r, "dispatching")
    /\ UNCHANGED <<answer, status, category, reservation, counter,
                   ledgerVars, credential, crashes>>

(* Faulty variant: the conflict is raised without releasing the admission.  *)
ClaimConflictUnreleased(r) ==
    /\ pc[r] = "claiming"
    /\ claim[ResourceOf[r]] # FreeClaim
    /\ Goto(r, "raised")
    /\ UNCHANGED <<answer, status, category, reservation, counter, claim,
                   ledgerVars, credential, crashes>>

ClaimConflict(r) ==
    /\ pc[r] = "claiming"
    /\ claim[ResourceOf[r]] # FreeClaim
    /\ Goto(r, "releasing_unclaimed")
    /\ UNCHANGED <<answer, status, category, reservation, counter, claim,
                   ledgerVars, credential, crashes>>

(* _commit_dispatch: the transaction that permits the network call.  It     *)
(* also decrypts the secret, so a revoked (erased) credential rolls it back. *)
CanDispatch(r) ==
    /\ HoldsClaim(r)
    /\ status[r] = "admitted"
    /\ reservation[r] = "reserved"
    /\ credential[CredentialOf[r]] # "revoked"

CommitDispatch(r) ==
    /\ pc[r] = "dispatching"
    /\ CanDispatch(r)
    /\ status' = [status EXCEPT ![r] = "running"]
    /\ reservation' = [reservation EXCEPT ![r] = "dispatch_committed"]
    /\ Goto(r, "calling")
    /\ UNCHANGED <<answer, category, counter, claim, ledgerVars, credential, crashes>>

(* except Exception: a failed guard, a decryption error or a database error. *)
DispatchRejected(r) ==
    /\ pc[r] = "dispatching"
    /\ Goto(r, "releasing")
    /\ UNCHANGED <<answer, status, category, reservation, counter, claim,
                   ledgerVars, credential, crashes>>

(* _release_admitted_attempt, with the claim's id after a rejected dispatch *)
(* and without it after a claim conflict.                                   *)
(* Faulty variant: no look at whether recovery released it meanwhile.       *)
CanReleaseUnchecked(r) == status[r] # "none"

CanRelease(r) == status[r] = "admitted" /\ reservation[r] = "reserved"

ReleaseAdmitted(r) ==
    /\ pc[r] \in {"releasing", "releasing_unclaimed"}
    /\ CanRelease(r)
    /\ status' = [status EXCEPT ![r] = "failed"]
    /\ category' = [category EXCEPT ![r] = "pre_dispatch"]
    /\ reservation' = [reservation EXCEPT ![r] = "released"]
    /\ Unreserve(r, 0)
    /\ IF pc[r] = "releasing" THEN DeleteClaim(r) ELSE UNCHANGED claim
    /\ Goto(r, "raised")
    /\ UNCHANGED <<answer, ledgerVars, credential, crashes>>

(* "pre-dispatch admission state changed": the transaction rolls back.      *)
ReleaseRefused(r) ==
    /\ pc[r] \in {"releasing", "releasing_unclaimed"}
    /\ ~CanRelease(r)
    /\ Goto(r, "raised")
    /\ UNCHANGED <<answer, status, category, reservation, counter, claim,
                   ledgerVars, credential, crashes>>

(* The network call, outside every transaction.                             *)
ProviderAnswers(r, o) ==
    /\ pc[r] = "calling"
    /\ answer' = [answer EXCEPT ![r] = o]
    /\ Goto(r, "terminalizing")
    /\ UNCHANGED <<status, category, reservation, counter, claim,
                   ledgerVars, credential, crashes>>

(* _terminalize: accounting, terminal status, ledgers and the credential's  *)
(* validation status in one transaction.                                    *)
(* Faulty variant: every unmeasured outcome gives the money back.           *)
NewReservationReleasingUnknown(r, o) ==
    IF o.cost = 0 THEN "released"
    ELSE IF o.cost <= Estimate[r] THEN "settled" ELSE "reconciliation_required"

NewReservation(r, o) ==
    IF o.cost # 0
    THEN IF o.cost <= Estimate[r] THEN "settled" ELSE "reconciliation_required"
    ELSE IF o.kind = "not_dispatched" THEN "released" ELSE "reconciliation_required"

NewStatus(o) == CASE o.kind = "ok" -> "succeeded"
                  [] o.kind = "outcome_unknown" -> "outcome_unknown"
                  [] OTHER -> "failed"

NewValidation(old, o) ==
    IF old = "revoked" THEN old
    ELSE CASE o.kind = "ok" -> "valid"
           [] o.kind = "authentication_failed" -> "invalid"
           [] OTHER -> old

(* After it: the result goes to the caller, an unknown outcome is raised    *)
(* with the claim kept, any other error first frees the claim.              *)
(* Faulty variant: an unknown outcome frees the resource for a retry.       *)
NextStepFreeingUnknown(o) == IF o.kind = "ok" THEN "persisting" ELSE "freeing"

NextStep(o) == CASE o.kind = "ok" -> "persisting"
                 [] o.kind = "outcome_unknown" -> "raised"
                 [] OTHER -> "freeing"

Terminalize(r) ==
    LET o == answer[r]
        next == NewReservation(r, o)
    IN  /\ pc[r] = "terminalizing"
        /\ reservation[r] = "dispatch_committed"
        /\ status[r] = "running"
        /\ reservation' = [reservation EXCEPT ![r] = next]
        /\ IF next \in {"settled", "released"} THEN Unreserve(r, o.cost)
                                               ELSE UNCHANGED counter
        /\ status' = [status EXCEPT ![r] = NewStatus(o)]
        /\ category' = [category EXCEPT ![r] = IF o.kind = "ok" THEN "none" ELSE o.kind]
        /\ metered' = [metered EXCEPT ![r] = o.cost]
        /\ cost1' = [cost1 EXCEPT ![r] = o.cost]
        /\ credential' = [credential EXCEPT ![CredentialOf[r]] = NewValidation(@, o)]
        /\ answer' = [answer EXCEPT ![r] = NoAnswer]
        /\ Goto(r, NextStep(o))
        /\ UNCHANGED <<claim, cost2, crashes>>

(* _release_terminal_business_claim                                         *)
ReleaseTerminalClaim(r) ==
    /\ pc[r] = "freeing"
    /\ DeleteClaim(r)
    /\ Goto(r, "raised")
    /\ UNCHANGED <<answer, status, category, reservation, counter,
                   ledgerVars, credential, crashes>>

(* The caller's transaction stores the plan or reading and completes the    *)
(* claim in it; a stale source or a lifecycle conflict rolls it back.       *)
Persist(r) ==
    /\ pc[r] = "persisting"
    /\ HoldsClaim(r)
    /\ claim' = [claim EXCEPT ![ResourceOf[r]] = [holder |-> r, state |-> "completed"]]
    /\ Goto(r, "returned")
    /\ UNCHANGED <<answer, status, category, reservation, counter,
                   ledgerVars, credential, crashes>>

PersistFails(r) ==
    /\ pc[r] = "persisting"
    /\ Goto(r, "raised")
    /\ UNCHANGED <<answer, status, category, reservation, counter, claim,
                   ledgerVars, credential, crashes>>

-----------------------------------------------------------------------------
(* The process dies, or an exception no handler catches (a cancelled        *)
(* request) unwinds the worker between two transactions.                    *)
Crash(r) ==
    /\ pc[r] \notin Stopped \cup {"start"}
    /\ crashes < MaxCrashes
    /\ crashes' = crashes + 1
    /\ Goto(r, "crashed")
    /\ answer' = [answer EXCEPT ![r] = NoAnswer]
    /\ UNCHANGED <<status, category, reservation, counter, claim,
                   ledgerVars, credential>>

(* recover_expired_admissions, one candidate; it does not know of claims.   *)
RecoverExpired(r) ==
    /\ reservation[r] = "reserved"
    /\ status[r] = "admitted"
    /\ Unreserve(r, 0)
    /\ reservation' = [reservation EXCEPT ![r] = "released"]
    /\ status' = [status EXCEPT ![r] = "failed"]
    /\ category' = [category EXCEPT ![r] = "dispatch_not_started"]
    /\ UNCHANGED <<workerVars, claim, ledgerVars, credential, crashes>>

(* ZhipuUsageReconciliationService.reconcile: settle a schema_invalid       *)
(* attempt whose usage was measured.  A replay changes nothing.             *)
CanReconcile(r) ==
    /\ status[r] = "failed" /\ category[r] = "schema_invalid"
    /\ metered[r] # 0 /\ metered[r] <= Estimate[r]
    /\ cost2[r] = 0
    /\ reservation[r] = "reconciliation_required"
    /\ \A a \in AccountsOf[r] : counter[a].reserved >= Estimate[r]

Reconcile(r) ==
    /\ CanReconcile(r)
    /\ Unreserve(r, metered[r])
    /\ reservation' = [reservation EXCEPT ![r] = "settled"]
    /\ cost2' = [cost2 EXCEPT ![r] = metered[r]]
    /\ UNCHANGED <<workerVars, status, category, claim, metered, cost1,
                   credential, crashes>>

(* AIFoundationService.revoke_credential: the envelope is erased.           *)
RevokeCredential(k) ==
    /\ credential[k] # "revoked"
    /\ credential' = [credential EXCEPT ![k] = "revoked"]
    /\ UNCHANGED <<workerVars, status, category, reservation, counter, claim,
                   ledgerVars, crashes>>

(* Every worker has stopped: nothing more is owed by the code.              *)
Quiescent == (\A r \in Calls : pc[r] \in Stopped) /\ UNCHANGED vars

-----------------------------------------------------------------------------
Work(r) ==
    \/ Admit(r) \/ RefuseAdmission(r)
    \/ TakeClaim(r) \/ ClaimConflict(r)
    \/ CommitDispatch(r) \/ DispatchRejected(r)
    \/ ReleaseAdmitted(r) \/ ReleaseRefused(r)
    \/ \E o \in Outcomes : ProviderAnswers(r, o)
    \/ Terminalize(r) \/ ReleaseTerminalClaim(r)
    \/ Persist(r) \/ PersistFails(r)

Next ==
    \/ \E r \in Calls : Work(r) \/ Crash(r) \/ RecoverExpired(r) \/ Reconcile(r)
    \/ \E k \in Credentials : RevokeCredential(k)
    \/ Quiescent

Spec == Init /\ [][Next]_vars

(* A request in flight is run to its end by the event loop, and the network *)
(* call by its timeout.                                                     *)
FairSpec == Spec /\ \A r \in Calls : WF_vars(Work(r))

-----------------------------------------------------------------------------
(* Type invariant of the rows and of the workers' locations.                *)
Locations == {"start", "claiming", "dispatching", "releasing",
              "releasing_unclaimed", "calling", "terminalizing", "freeing",
              "persisting"} \cup Stopped
Statuses == {"none", "admitted", "running"} \cup Terminal
Reservations == {"none", "settled", "released"} \cup Held
Categories == {"none", "pre_dispatch", "dispatch_not_started", "schema_invalid",
               "authentication_failed", "upstream_error", "outcome_unknown",
               "not_dispatched"}

TypeOK ==
    /\ pc \in [Calls -> Locations]
    /\ answer \in [Calls -> Outcomes \cup {NoAnswer}]
    /\ status \in [Calls -> Statuses]
    /\ category \in [Calls -> Categories]
    /\ reservation \in [Calls -> Reservations]
    /\ counter \in [Accounts -> [reserved : Nat, committed : Nat]]
    /\ claim \in [Resources -> [holder : Calls \cup {NoCall},
                                state : {"free", "in_progress", "completed"}]]
    /\ metered \in [Calls -> 0..CostBound]
    /\ cost1 \in [Calls -> 0..CostBound]
    /\ cost2 \in [Calls -> 0..CostBound]
    /\ credential \in [Credentials -> {"unverified", "valid", "invalid", "revoked"}]
    /\ crashes \in 0..MaxCrashes

(* A call that is being paid for, was paid for, or may have been.           *)
Unresolved(r) == status[r] \in {"running", "succeeded", "outcome_unknown"}

(* The durable claim keeps retries and concurrency from spending twice on   *)
(* one business resource: of two different calls on it, at most one is      *)
(* running, succeeded or unresolved, whoever crashed in between and with    *)
(* whatever idempotency key.                                                *)
SpendOnce ==
    \A r, q \in Calls :
        ResourceOf[r] = ResourceOf[q] /\ Unresolved(r) /\ Unresolved(q) => r = q

(* The network is reached only under a claim of this very call and with the *)
(* reservation past its dispatch marker.                                    *)
EgressIsClaimed ==
    \A r \in Calls :
        pc[r] = "calling" => HoldsClaim(r) /\ reservation[r] = "dispatch_committed"

(* Every budget counter equals what the reservations and settlements of the *)
(* calls charged to it add up to: no transaction forgets, repeats or loses  *)
(* an update, in whatever order workers, recovery and reconciliation run.   *)
AccountingExact ==
    \A a \in Accounts :
        /\ counter[a].reserved = Total(HoldersOf(a), Estimate, LedgerCap)
        /\ counter[a].committed = Total(SettledOf(a), Billed, CostBound)

(* committed + reserved never exceeds the account's limit, although several *)
(* calls are in flight and their actual costs are known only later.         *)
BudgetRespected ==
    \A a \in Accounts : counter[a].committed + counter[a].reserved <= Cap(a)

(* The two cost ledger rows an attempt may get never both carry an amount,  *)
(* so summing the ledger charges no call twice; and a settled call is       *)
(* charged what its usage ledger measured.                                  *)
CostCountedOnce ==
    \A r \in Calls :
        /\ cost1[r] = 0 \/ cost2[r] = 0
        /\ reservation[r] = "settled" => Billed[r] = metered[r] /\ metered[r] # 0

(* A dispatch_committed reservation is given back only when the transport   *)
(* proved that nothing was sent; no crash, recovery or retry does it.       *)
NeverReleaseDispatched ==
    [][\A r \in Calls :
          reservation[r] = "dispatch_committed" /\ reservation'[r] = "released"
             => pc[r] = "terminalizing" /\ answer[r].kind = "not_dispatched"]_vars

(* Execution-terminal states never return active, and terminal evidence is  *)
(* not rewritten: status and category of a terminal call are final.         *)
TerminalIsFinal ==
    [][\A r \in Calls :
          status[r] \in Terminal => status'[r] = status[r]
                                 /\ category'[r] = category[r]]_<<status, category>>

(* Unless its worker dies, every admitted call reaches a terminal status,   *)
(* whether recovery and revocation interfere or not.                        *)
EveryAdmissionTerminates ==
    \A r \in Calls :
        status[r] = "admitted" ~> status[r] \in Terminal \/ pc[r] = "crashed"

(* test_pre_dispatch_failure_releases_the_committed_claim_without_transport: *)
(* when execute() raises for a call that never crossed the dispatch marker, *)
(* the business resource it had claimed is free again.                      *)
PreDispatchFailureFreesClaim ==
    \A r \in Calls :
        pc[r] = "raised" /\ category[r] \in {"pre_dispatch", "dispatch_not_started"}
            => ~HoldsClaim(r)

-----------------------------------------------------------------------------
(* The strengthening that makes the safety invariants inductive.  The       *)
(* invocation's status determines the reservation while money is held, and  *)
(* the worker's location what it may rely on after the last transaction.    *)
RowsCohere ==
    \A r \in Calls :
        /\ status[r] = "none" <=> reservation[r] = "none"
        /\ status[r] = "admitted" <=> reservation[r] = "reserved"
        /\ status[r] = "running" <=> reservation[r] = "dispatch_committed"
        /\ pc[r] = "start" => status[r] = "none"
        /\ pc[r] \in {"calling", "terminalizing"} => status[r] = "running"
        /\ pc[r] = "freeing" => status[r] = "failed"
        /\ pc[r] = "persisting" => status[r] = "succeeded"

ClaimsCohere ==
    /\ \A w \in Resources : claim[w].holder = NoCall <=> claim[w] = FreeClaim
    /\ \A r \in Calls :
          /\ pc[r] \in {"dispatching", "releasing", "calling", "terminalizing",
                       "freeing", "persisting"} => HoldsClaim(r)
          /\ pc[r] \in {"start", "claiming", "releasing_unclaimed"}
                => claim[ResourceOf[r]].holder # r
          /\ Unresolved(r) => claim[ResourceOf[r]].holder = r

(* A cost is recorded once, and a charge never exceeds what was reserved.   *)
CostsCohere ==
    \A r \in Calls :
        /\ reservation[r] \in Held => Estimate[r] \in 1..LedgerCap
        /\ reservation[r] \in {"none", "reserved", "dispatch_committed"} => cost1[r] = 0
        /\ reservation[r] # "settled" => cost2[r] = 0
        /\ cost1[r] # 0 => cost1[r] = metered[r] /\ cost2[r] = 0
        /\ reservation[r] = "reconciliation_required" /\ cost1[r] # 0
              => Estimate[r] < cost1[r]
        /\ reservation[r] = "settled" => Billed[r] = metered[r] /\ metered[r] # 0

IInv == /\ TypeOK /\ RowsCohere /\ ClaimsCohere /\ CostsCohere
        /\ AccountingExact /\ BudgetRespected

-----------------------------------------------------------------------------
(* The claim and the statuses implement the abstract spending gate.         *)
GateOwner == [w \in Resources |-> claim[w].holder]
GatePhase == [r \in Calls |->
                 CASE status[r] \in {"none", "admitted"} -> "idle"
                   [] status[r] = "running" -> "calling"
                   [] status[r] = "failed" -> "failed"
                   [] OTHER -> "kept"]

Gate == INSTANCE SpendGate WITH owner <- GateOwner, phase <- GatePhase

(* Every behaviour of the service is a behaviour of the gate.               *)
ImplementsGate == Gate!GateSpec

=============================================================================
