----------------------------- MODULE LedgerSchema -----------------------------
(* What the database itself asks of the rows FixtureInvocation writes: the  *)
(* CHECK, UNIQUE and FOREIGN KEY constraints of the ledger's tables and the *)
(* triggers on them.  A transaction that breaks one is rolled back at its   *)
(* commit, so a refusal nobody expected would lose a paid result.           *)
EXTENDS SharedCounters

(* final_attempt_id is set by the transaction in which the attempt succeeds *)
(* and is not a variable of its own.                                        *)
FinalAttempts(k) == {n \in Attempts : att[<<k, n>>].status = "succeeded"}

(* ck_invocation_requests_*, and the composite key that makes the final     *)
(* attempt one of the invocation's own.                                     *)
InvocationRows ==
    \A k \in Keys :
        /\ FinalAttempts(k) # {} => inv[k].status = "succeeded"
        /\ \A n, m \in FinalAttempts(k) : n = m

(* uq_invocation_attempts_number and uq_invocation_attempts_active.         *)
AttemptRows ==
    \A k \in Keys : \A n \in Attempts :
        /\ att[<<k, n>>].status # "none" => inv[k].status # "none"
        /\ \A m \in ActiveAttempts(k) : n \in ActiveAttempts(k) => n = m

(* fk_ and uq_budget_reservations_attempt: one row for each attempt.        *)
ReservationRows == \A x \in Rows : reservation[x] # "none" <=> att[x].status # "none"

CounterRows == Nonnegative(counter)

(* The foreign keys of the cost and usage ledgers: a cost is of an attempt  *)
(* that exists.  Nothing ties it to the state of the reservation.           *)
LedgerRows == \A x \in Rows : cost[x] > 0 => att[x].status # "none"

(* Inserting a row whose unique key is taken.                               *)
Reinserted(x) ==
    /\ att[x].status # "none" /\ att[x].status # "admitted"
    /\ att'[x].status = "admitted"

(* phase3a_reject_append_only_mutation on events, usage, cost and audit.    *)
AppendOnly == \A x \in Rows : cost[x] # 0 => cost'[x] = cost[x]

(* phase3a_verify_final_attempt: write-once, of a succeeded invocation.     *)
FinalIsWriteOnce ==
    \A k \in Keys : \A n \in FinalAttempts(k) :
        att'[<<k, n>>].status = "succeeded" /\ inv'[k].status = "succeeded"

(* Whatever requests, cancels, crashes and recovery do, what a step writes  *)
(* breaks no constraint (the CHECKs on enumerations are TypeOK's) and no    *)
(* trigger of the tables: nothing the provider was paid for is lost to them.*)
(* Only a cancel and a recovery are ever refused, which the model has as    *)
(* steps (CancelFails, RecoverFails), and a recovery only after a cancel or *)
(* after invocations that share a counter have overlapped.                  *)
SchemaAccepts ==
    [][/\ TypeOK' /\ InvocationRows' /\ AttemptRows'
       /\ ReservationRows' /\ CounterRows' /\ LedgerRows'
       /\ \A x \in Rows : ~Reinserted(x)
       /\ AppendOnly /\ FinalIsWriteOnce
       /\ RecoveryIsAccepted']_<<vars, overlapped>>
=============================================================================
