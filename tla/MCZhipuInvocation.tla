-------------------------- MODULE MCZhipuInvocation --------------------------
(* Small instances of ZhipuInvocation.  c1 and c2 compete for one business  *)
(* resource of project p, c4 repeats the idempotency key of c1 on it, and   *)
(* c3 is on another resource of the same user.                              *)
EXTENDS ZhipuInvocation

CONSTANTS c1, c2, c3, c4, u, p, w1, w2, s

TwoOnOne == [c \in Calls |-> IF c = c3 THEN w2 ELSE w1]
OwnKeys == [c \in Calls |-> c]
SharedKey == [c \in Calls |-> IF c = c4 THEN c1 ELSE c]
OneCredential == [c \in Calls |-> s]
OneUser == [c \in Calls |-> u]
UserAndProject == [c \in Calls |-> IF c = c3 THEN {u} ELSE {u, p}]
Two == [c \in Calls |-> 2]
PerCallLimits == [a \in Accounts |-> 2]
TightLimits == [a \in Accounts |-> IF a = u THEN 7 ELSE 4]
NoLegacyCost == [c \in {} |-> 1]
LegacyCosts == [c \in Legacy |-> 1]
=============================================================================
