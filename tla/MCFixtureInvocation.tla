------------------------- MODULE MCFixtureInvocation -------------------------
(* Small instances of FixtureInvocation: k1 and k2 are invocations of one   *)
(* user u in a project p; r2 may repeat the idempotency key of r1.          *)
EXTENDS LedgerSchema

CONSTANTS k1, k2, r1, r2, r3, x1, x2, u, p

SameKey == [r \in Requests |-> IF r = r3 THEN k2 ELSE k1]
OwnKey == [r \in Requests |-> IF r = r1 THEN k1 ELSE k2]
CancelFirst == [c \in Cancels |-> k1]
UserAndProject == [k \in Keys |-> {u, p}]
Three == [k \in Keys |-> 3]
(* Bound: the second invocation takes part only while no cancel does.       *)
SecondWithoutCancel == inv[k2].status = "none" \/ Undisturbed

Limits == [a \in Accounts |-> IF a = u THEN 8 ELSE 7]
=============================================================================
