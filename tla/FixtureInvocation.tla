-------------------------- MODULE FixtureInvocation --------------------------
(* An invocation of AIFoundationService: create_invocation with its bounded *)
(* retries, cancel_invocation and recover_expired_admissions.  Every action *)
(* is one database transaction; a cancel is two steps, because it reads its *)
(* snapshot before it waits for the locks.                                  *)
(*                                                                          *)
(* Rows are read through a SQLAlchemy session that keeps what it has loaded *)
(* (expire_on_commit=False, no populate_existing): a SELECT ... FOR UPDATE  *)
(* locks the row but does not refresh an object the session still refers    *)
(* to.  `_create_invocation` holds on to the invocation and, through the    *)
(* returned AdmissionContext, to the two counters; `cancel_invocation`      *)
(* holds on to its snapshot.  A flush writes only the columns whose value   *)
(* was changed in memory.  Other objects are garbage collected between the  *)
(* transactions and read afresh.                                            *)
(*                                                                          *)
(* Left to nondeterminism: which policy or budget window refuses an         *)
(* admission, the 120 s admission lease and the elapsed-time limit.         *)
EXTENDS Amounts

CONSTANTS
    Requests, Keys, KeyOf,     \* create requests and their idempotency keys
    Cancels, TargetOf,         \* cancel requests and the invocation they name
    MaxAttempts,               \* payload.max_attempts, 1..3
    Accounts, AccountsOf,      \* the user's and a project's budget counter
    Estimate, Limit,           \* minor units, per invocation and per account
    Costs, CostBound,          \* cost_minor_units of a result, at most CostBound
    MaxCrashes                 \* bound: how many workers may die

ASSUME FixtureAssumption ==
    /\ IsFiniteSet(Keys) /\ KeyOf \in [Requests -> Keys]
    /\ TargetOf \in [Cancels -> Keys]
    /\ MaxAttempts \in 1..3 /\ MaxCrashes \in Nat
    /\ AccountsOf \in [Keys -> SUBSET Accounts]
    /\ Estimate \in [Keys -> Nat \ {0}] /\ Limit \in [Accounts -> Nat]
    /\ CostBound \in Nat /\ Costs \subseteq 1..CostBound

Attempts == 1..MaxAttempts
Rows == Keys \X Attempts

VARIABLES
    pc, number,     \* worker of each create request and its attempt_number
    mem,            \* the invocation object the worker's session holds
    memCounter,     \* the counters its session holds, or NoCounters
    inv,            \* invocation_requests: status, cancellation_requested_at
    att,            \* invocation_attempts: the same two columns
    reservation,    \* budget_reservations.state of each attempt
    cost,           \* ai_cost_ledger amount of each attempt, 0: none
    counter,        \* reserved and committed minor units of each account
    cpc, snap,      \* each cancel request and the snapshot its session holds
    crashes

vars == <<pc, number, mem, memCounter, inv, att, reservation, cost, counter,
          cpc, snap, crashes>>
moneyVars == <<reservation, cost, counter>>
cancelVars == <<cpc, snap>>

-----------------------------------------------------------------------------
NoRow == [status |-> "none", cancel |-> FALSE]
NoCounters == [a \in Accounts |-> [reserved |-> -1, committed |-> -1]]
NoSnapshot == [inv |-> NoRow, number |-> 0, att |-> "none", reservation |-> "none"]

Terminal == {"succeeded", "failed", "cancelled", "outcome_unknown"}
Active == {"admitted", "running"}
Held == {"reserved", "dispatch_committed", "reconciliation_required"}
Stopped == {"returned", "raised", "crashed"}

(* What the adapter may end in.  A result whose Paint Plan does not         *)
(* validate has a cost but is an error.                                     *)
Outcomes == [kind : {"ok", "invalid_output"}, cost : Costs]
            \cup [kind : {"unavailable", "rejected", "outcome_unknown"}, cost : {0}]

(* UPDATE of the columns whose in-memory value differs from the loaded one. *)
Flush(row, old, new) ==
    [status |-> IF new.status # old.status THEN new.status ELSE row.status,
     cancel |-> IF new.cancel # old.cancel THEN new.cancel ELSE row.cancel]

(* The counters as the session sees them, and their UPDATE.                 *)
Seen(r) == IF memCounter[r] = NoCounters THEN counter ELSE memCounter[r]

Charged(k, seen, reserved, committed) ==
    [a \in Accounts |->
        IF a \in AccountsOf[k]
        THEN [reserved |-> seen[a].reserved + reserved,
              committed |-> seen[a].committed + committed]
        ELSE seen[a]]

FlushCounters(k, old, new) ==
    counter' = [a \in Accounts |->
        IF a \notin AccountsOf[k] THEN counter[a]
        ELSE [reserved |-> IF new[a].reserved # old[a].reserved
                           THEN new[a].reserved ELSE counter[a].reserved,
              committed |-> IF new[a].committed # old[a].committed
                            THEN new[a].committed ELSE counter[a].committed]]

(* CHECK (committed_minor_units >= 0 AND reserved_minor_units >= 0)         *)
Nonnegative(new) == \A a \in Accounts : new[a].reserved >= 0 /\ new[a].committed >= 0

Goto(r, l) == pc' = [pc EXCEPT ![r] = l]

-----------------------------------------------------------------------------
Init ==
    /\ pc = [r \in Requests |-> "start"]
    /\ number = [r \in Requests |-> 1]
    /\ mem = [r \in Requests |-> NoRow]
    /\ memCounter = [r \in Requests |-> NoCounters]
    /\ inv = [k \in Keys |-> NoRow]
    /\ att = [x \in Rows |-> NoRow]
    /\ reservation = [x \in Rows |-> "none"]
    /\ cost = [x \in Rows |-> 0]
    /\ counter = [a \in Accounts |-> [reserved |-> 0, committed |-> 0]]
    /\ cpc = [c \in Cancels |-> "start"]
    /\ snap = [c \in Cancels |-> NoSnapshot]
    /\ crashes = 0

(* _create_pending_invocation, under the advisory lock of the key.          *)
(* Faulty variant: the key is not looked up.                                *)
CreatePendingUnchecked(r) ==
    /\ pc[r] = "start"
    /\ mem' = [mem EXCEPT ![r] = [status |-> "pending", cancel |-> FALSE]]
    /\ inv' = [inv EXCEPT ![KeyOf[r]] = [status |-> "pending", cancel |-> FALSE]]
    /\ Goto(r, "admitting")
    /\ UNCHANGED <<number, memCounter, att, moneyVars, cancelVars, crashes>>

CreatePending(r) ==
    /\ pc[r] = "start"
    /\ inv[KeyOf[r]].status = "none"
    /\ mem' = [mem EXCEPT ![r] = [status |-> "pending", cancel |-> FALSE]]
    /\ inv' = [inv EXCEPT ![KeyOf[r]] = [status |-> "pending", cancel |-> FALSE]]
    /\ Goto(r, "admitting")
    /\ UNCHANGED <<number, memCounter, att, moneyVars, cancelVars, crashes>>

Replay(r) ==
    /\ pc[r] = "start"
    /\ inv[KeyOf[r]].status # "none"
    /\ Goto(r, "returned")
    /\ UNCHANGED <<number, mem, memCounter, inv, att, moneyVars, cancelVars, crashes>>

(* _admit_attempt: policies and budget are checked again for every attempt. *)
CanAdmit(r) ==
    /\ mem[r].status \in {"pending", "running"}
    /\ ~mem[r].cancel
    /\ number[r] <= MaxAttempts
    /\ \A a \in AccountsOf[KeyOf[r]] :
          Seen(r)[a].committed + Seen(r)[a].reserved + Estimate[KeyOf[r]] <= Limit[a]

AdmitAttempt(r) ==
    LET k == KeyOf[r]
        new == [mem[r] EXCEPT !.status = "admitted"]
        books == Charged(k, Seen(r), Estimate[k], 0)
    IN  /\ pc[r] = "admitting"
        /\ CanAdmit(r)
        /\ inv' = [inv EXCEPT ![k] = Flush(@, mem[r], new)]
        /\ mem' = [mem EXCEPT ![r] = new]
        /\ att' = [att EXCEPT ![<<k, number[r]>>] = [status |-> "admitted", cancel |-> FALSE]]
        /\ reservation' = [reservation EXCEPT ![<<k, number[r]>>] = "reserved"]
        /\ FlushCounters(k, Seen(r), books)
        /\ memCounter' = [memCounter EXCEPT ![r] = books]
        /\ Goto(r, "dispatching")
        /\ UNCHANGED <<number, cost, cancelVars, crashes>>

(* A refused admission raises.  So does an expired elapsed-time limit: the  *)
(* failed status it assigns is rolled back with the transaction.            *)
RefuseAdmission(r) ==
    /\ pc[r] = "admitting"
    /\ Goto(r, "raised")
    /\ UNCHANGED <<number, mem, memCounter, inv, att, moneyVars, cancelVars, crashes>>

(* _commit_dispatch: attempt and reservation are read afresh.               *)
(* Faulty variant: only the invocation is looked at.                        *)
CanDispatchByInvocation(r) == mem[r].status = "admitted" /\ ~mem[r].cancel

CanDispatch(r) ==
    /\ mem[r].status = "admitted" /\ ~mem[r].cancel
    /\ att[<<KeyOf[r], number[r]>>].status = "admitted"
    /\ reservation[<<KeyOf[r], number[r]>>] = "reserved"

CommitDispatch(r) ==
    LET k == KeyOf[r]
        new == [mem[r] EXCEPT !.status = "running"]
    IN  /\ pc[r] = "dispatching"
        /\ CanDispatch(r)
        /\ inv' = [inv EXCEPT ![k] = Flush(@, mem[r], new)]
        /\ mem' = [mem EXCEPT ![r] = new]
        /\ att' = [att EXCEPT ![<<k, number[r]>>].status = "running"]
        /\ reservation' = [reservation EXCEPT ![<<k, number[r]>>] = "dispatch_committed"]
        /\ Goto(r, "invoked")
        /\ UNCHANGED <<number, memCounter, cost, counter, cancelVars, crashes>>

(* return False: a guard failed or the admission has expired.               *)
DispatchRefused(r) ==
    /\ pc[r] = "dispatching"
    /\ Goto(r, "returned")
    /\ UNCHANGED <<number, mem, memCounter, inv, att, moneyVars, cancelVars, crashes>>

(* The adapter's synchronous call and _terminalize_attempt.                 *)
(* Faulty variant: cancellation is looked for on the invocation only.       *)
CancelWonOnInvocation(r) == mem[r].cancel

CancelWon(r) == mem[r].cancel \/ att[<<KeyOf[r], number[r]>>].cancel

NewReservation(r, o) ==
    IF o.cost # 0 THEN "settled"
    ELSE IF CancelWon(r) \/ o.kind = "outcome_unknown" THEN "reconciliation_required"
    ELSE "released"

(* Faulty variant: an unknown outcome is tried again.                       *)
CanRetryUnknown(r, o) ==
    /\ ~CancelWon(r)
    /\ o.kind \in {"unavailable", "outcome_unknown"}
    /\ number[r] < MaxAttempts

CanRetry(r, o) ==
    ~CancelWon(r) /\ o.kind = "unavailable" /\ number[r] < MaxAttempts

NewStatus(r, o) ==
    IF CancelWon(r) THEN "cancelled"
    ELSE CASE o.kind = "ok" -> "succeeded"
           [] o.kind = "outcome_unknown" -> "outcome_unknown"
           [] OTHER -> "failed"

(* The counters of the settlement or release, as the session sees them.     *)
Books(r, o) ==
    IF NewReservation(r, o) = "reconciliation_required" THEN Seen(r)
    ELSE Charged(KeyOf[r], Seen(r), -Estimate[KeyOf[r]], o.cost)

Terminalize(r, o) ==
    LET k == KeyOf[r]
        n == number[r]
        retry == CanRetry(r, o)
        new == [mem[r] EXCEPT !.status = IF retry THEN "running" ELSE NewStatus(r, o)]
        books == Books(r, o)
    IN  /\ pc[r] = "invoked"
        /\ reservation[<<k, n>>] = "dispatch_committed" /\ att[<<k, n>>].status = "running"
        /\ reservation' = [reservation EXCEPT ![<<k, n>>] = NewReservation(r, o)]
        /\ FlushCounters(k, Seen(r), books)
        /\ memCounter' = [memCounter EXCEPT ![r] = books]
        /\ cost' = [cost EXCEPT ![<<k, n>>] = o.cost]
        /\ att' = [att EXCEPT ![<<k, n>>].status = NewStatus(r, o)]
        /\ inv' = [inv EXCEPT ![k] = Flush(@, mem[r], new)]
        /\ mem' = [mem EXCEPT ![r] = new]
        /\ number' = [number EXCEPT ![r] = IF retry THEN n + 1 ELSE n]
        /\ Goto(r, IF retry THEN "admitting" ELSE "returned")
        /\ UNCHANGED <<cancelVars, crashes>>

(* AIConflictError: the attempt was taken away meanwhile.                   *)
TerminalizeRefused(r) ==
    /\ pc[r] = "invoked"
    /\ \/ reservation[<<KeyOf[r], number[r]>>] # "dispatch_committed"
       \/ att[<<KeyOf[r], number[r]>>].status # "running"
    /\ Goto(r, "raised")
    /\ UNCHANGED <<number, mem, memCounter, inv, att, moneyVars, cancelVars, crashes>>

Crash(r) ==
    /\ pc[r] \notin Stopped \cup {"start"}
    /\ crashes < MaxCrashes
    /\ crashes' = crashes + 1
    /\ Goto(r, "crashed")
    /\ UNCHANGED <<number, mem, memCounter, inv, att, moneyVars, cancelVars>>

-----------------------------------------------------------------------------
(* cancel_invocation: the unlocked reads at the start of the transaction.   *)
ActiveAttempts(k) == {n \in Attempts : att[<<k, n>>].status \in Active}

ReadSnapshot(c) ==
    LET k == TargetOf[c]
        last == {n \in ActiveAttempts(k) : \A m \in ActiveAttempts(k) : m <= n}
    IN  /\ cpc[c] = "start"
        /\ inv[k].status # "none"
        /\ snap' = [snap EXCEPT ![c] =
              [inv |-> inv[k],
               number |-> IF last = {} THEN 0 ELSE CHOOSE n \in last : TRUE,
               att |-> IF last = {} THEN "none" ELSE att[<<k, CHOOSE n \in last : TRUE>>].status,
               reservation |-> IF last = {} THEN "none"
                               ELSE reservation[<<k, CHOOSE n \in last : TRUE>>]]]
        /\ cpc' = [cpc EXCEPT ![c] = "locking"]
        /\ UNCHANGED <<pc, number, mem, memCounter, inv, att, moneyVars, crashes>>

(* A terminal snapshot is answered as it is.                                *)
CancelTooLate(c) ==
    /\ cpc[c] = "locking"
    /\ snap[c].inv.status \in Terminal
    /\ cpc' = [cpc EXCEPT ![c] = "returned"]
    /\ UNCHANGED <<pc, number, mem, memCounter, inv, att, moneyVars, snap, crashes>>

BeforeDispatch(s) == s.inv.status \in {"pending", "admitted"} /\ s.att # "running"

(* The CHECK constraints: counters are not negative, and an invocation with *)
(* a final attempt stays succeeded.                                         *)
Storable(k, books) == Nonnegative(books) /\ inv[k].status # "succeeded"

CancelBooks(c) ==
    IF snap[c].reservation = "reserved"
    THEN Charged(TargetOf[c], counter, -Estimate[TargetOf[c]], 0)
    ELSE counter

(* What it writes once it has the locks; only the counters are read afresh. *)
CancelBeforeDispatch(c) ==
    LET s == snap[c]
        k == TargetOf[c]
    IN  /\ cpc[c] = "locking"
        /\ s.inv.status \notin Terminal
        /\ BeforeDispatch(s)
        /\ Storable(k, CancelBooks(c))
        /\ FlushCounters(k, counter, CancelBooks(c))
        /\ IF s.reservation = "reserved"
           THEN reservation' = [reservation EXCEPT ![<<k, s.number>>] = "released"]
           ELSE UNCHANGED reservation
        /\ IF s.number # 0
           THEN att' = [att EXCEPT ![<<k, s.number>>] = [status |-> "cancelled", cancel |-> TRUE]]
           ELSE UNCHANGED att
        /\ inv' = [inv EXCEPT ![k] = [status |-> "cancelled", cancel |-> TRUE]]
        /\ cpc' = [cpc EXCEPT ![c] = "returned"]
        /\ UNCHANGED <<pc, number, mem, memCounter, cost, snap, crashes>>

(* A CHECK constraint refuses the update and the transaction is rolled back.*)
CancelFails(c) ==
    /\ cpc[c] = "locking"
    /\ snap[c].inv.status \notin Terminal
    /\ BeforeDispatch(snap[c])
    /\ ~Storable(TargetOf[c], CancelBooks(c))
    /\ cpc' = [cpc EXCEPT ![c] = "raised"]
    /\ UNCHANGED <<pc, number, mem, memCounter, inv, att, moneyVars, snap, crashes>>

CancelAfterDispatch(c) ==
    LET s == snap[c]
        k == TargetOf[c]
    IN  /\ cpc[c] = "locking"
        /\ s.inv.status \notin Terminal
        /\ ~BeforeDispatch(s)
        /\ inv' = [inv EXCEPT ![k].cancel = TRUE]
        /\ IF s.number # 0 THEN att' = [att EXCEPT ![<<k, s.number>>].cancel = TRUE]
                           ELSE UNCHANGED att
        /\ cpc' = [cpc EXCEPT ![c] = "returned"]
        /\ UNCHANGED <<pc, number, mem, memCounter, moneyVars, snap, crashes>>

-----------------------------------------------------------------------------
(* recover_expired_admissions, one candidate, with populate_existing.  A    *)
(* reserved reservation has no dispatch evidence; if the two statuses are   *)
(* not both admitted it is kept for reconciliation.                         *)
CanRecover(k, n) == inv[k].status = "admitted" /\ att[<<k, n>>].status = "admitted"

RecoveryBooks(k) == Charged(k, counter, -Estimate[k], 0)

RecoverOrphan(k, n) ==
    /\ reservation[<<k, n>>] = "reserved"
    /\ CanRecover(k, n)
    /\ Nonnegative(RecoveryBooks(k))
    /\ FlushCounters(k, counter, RecoveryBooks(k))
    /\ reservation' = [reservation EXCEPT ![<<k, n>>] = "released"]
    /\ att' = [att EXCEPT ![<<k, n>>].status = "failed"]
    /\ inv' = [inv EXCEPT ![k].status = "failed"]
    /\ UNCHANGED <<pc, number, mem, memCounter, cost, cancelVars, crashes>>

(* The subtraction is unconditional: where the counter holds less than the  *)
(* estimate its CHECK refuses the UPDATE, the candidate's transaction is    *)
(* rolled back and the exception leaves the loop over the candidates.       *)
RecoveryRefused(k, n) ==
    /\ reservation[<<k, n>>] = "reserved"
    /\ CanRecover(k, n)
    /\ ~Nonnegative(RecoveryBooks(k))

RecoverFails(k, n) == RecoveryRefused(k, n) /\ UNCHANGED vars

RecoverDoubtful(k, n) ==
    /\ reservation[<<k, n>>] = "reserved"
    /\ ~CanRecover(k, n)
    /\ reservation' = [reservation EXCEPT ![<<k, n>>] = "reconciliation_required"]
    /\ IF inv[k].status \in Active /\ att[<<k, n>>].status \in Active
       THEN /\ att' = [att EXCEPT ![<<k, n>>].status = "outcome_unknown"]
            /\ inv' = [inv EXCEPT ![k].status = "outcome_unknown"]
       ELSE UNCHANGED <<att, inv>>
    /\ UNCHANGED <<pc, number, mem, memCounter, cost, counter, cancelVars, crashes>>

(* Every request has been answered, raised or died.                         *)
Quiescent ==
    /\ \A r \in Requests : pc[r] \in Stopped
    /\ \A c \in Cancels : cpc[c] \in {"start", "returned", "raised"}
    /\ UNCHANGED vars

-----------------------------------------------------------------------------
Work(r) ==
    \/ CreatePending(r) \/ Replay(r)
    \/ AdmitAttempt(r) \/ RefuseAdmission(r)
    \/ CommitDispatch(r) \/ DispatchRefused(r)
    \/ \E o \in Outcomes : Terminalize(r, o)
    \/ TerminalizeRefused(r)

CancelWork(c) ==
    \/ ReadSnapshot(c) \/ CancelTooLate(c)
    \/ CancelBeforeDispatch(c) \/ CancelFails(c) \/ CancelAfterDispatch(c)

Next ==
    \/ \E r \in Requests : Work(r) \/ Crash(r)
    \/ \E c \in Cancels : CancelWork(c)
    \/ \E k \in Keys, n \in Attempts :
          RecoverOrphan(k, n) \/ RecoverFails(k, n) \/ RecoverDoubtful(k, n)
    \/ Quiescent

Spec == Init /\ [][Next]_vars

-----------------------------------------------------------------------------
(* Type invariant; a reserved amount never becomes negative.                *)
Statuses == {"none", "pending"} \cup Active \cup Terminal
RowType == [status : Statuses, cancel : BOOLEAN]

TypeOK ==
    /\ pc \in [Requests -> {"start", "admitting", "dispatching", "invoked"} \cup Stopped]
    /\ number \in [Requests -> Attempts]
    /\ mem \in [Requests -> RowType]
    /\ inv \in [Keys -> RowType]
    /\ att \in [Rows -> RowType]
    /\ reservation \in [Rows -> {"none", "settled", "released"} \cup Held]
    /\ cost \in [Rows -> 0..CostBound]
    /\ counter \in [Accounts -> [reserved : Nat, committed : Nat]]
    /\ cpc \in [Cancels -> {"start", "locking", "returned", "raised"}]
    /\ crashes \in 0..MaxCrashes

(* No cancel has been asked for so far.  What a cancel does on its stale    *)
(* snapshot breaks several promises, so they are stated up to then.          *)
Undisturbed == \A c \in Cancels : cpc[c] = "start"

(* Settlement converts the actual cost from reserved to committed and       *)
(* releases only the unused amount: the counters equal what the             *)
(* reservations and cost ledger rows of their invocations add up to.        *)
ReservedOf == [x \in Rows |-> Estimate[x[1]]]
HoldersOf(a) == {x \in Rows : a \in AccountsOf[x[1]] /\ reservation[x] \in Held}
SettledOf(a) == {x \in Rows : a \in AccountsOf[x[1]] /\ reservation[x] = "settled"}
LargestEstimate == CHOOSE e \in {Estimate[k] : k \in Keys} :
                      \A k \in Keys : Estimate[k] <= e

AccountingExact ==
    Undisturbed =>
    \A a \in Accounts :
        /\ counter[a].reserved = Total(HoldersOf(a), ReservedOf, LargestEstimate)
        /\ counter[a].committed = Total(SettledOf(a), cost, CostBound)

(* A further attempt exists only after the one before it failed for certain *)
(* and gave its money back; an unknown outcome is never retried, even if a  *)
(* late cancel has renamed the failed attempt.                              *)
RetryAfterDefiniteFailure ==
    \A k \in Keys, n \in Attempts :
        n > 1 /\ att[<<k, n>>].status # "none"
            => /\ att[<<k, n - 1>>].status \in {"failed", "cancelled"}
               /\ reservation[<<k, n - 1>>] = "released"

(* A dispatch_committed reservation is released only by the worker itself,  *)
(* for an attempt that failed for certain.                                  *)
NeverReleaseDispatched ==
    [][\A x \in Rows :
          reservation[x] = "dispatch_committed" /\ reservation'[x] = "released"
             => /\ att'[x].status = "failed"
                /\ \E r \in Requests : KeyOf[r] = x[1] /\ pc[r] = "invoked"]_vars

(* A late success after a cancel that reached the running attempt cannot    *)
(* become the attempt's result.                                             *)
CancelledAttemptNeverSucceeds ==
    [][\A x \in Rows :
          att[x].cancel /\ att[x].status = "running" => att'[x].status # "succeeded"]_att
=============================================================================
