--------------------------- MODULE MCBudgetWindows ---------------------------
(* A user with a live and a fixture account; a project with a live account. *)
(* c1 and c2 are paid calls of the project; f and g are fixture calls.      *)
EXTENDS Preflight, TLC

CONSTANTS user, credits, project, c1, c2, f, g

Charges == [c \in Calls |-> IF c \in {f, g} THEN {credits} ELSE {user, project}]
EstimateOf == [c \in Calls |-> 2]
LimitsOf == [a \in Accounts |-> CASE a = user -> {4} [] a = credits -> {2, 4} [] OTHER -> {3, 4}]
LengthsOf == [a \in Accounts |-> IF a = user THEN {1, 2} ELSE {1}]
WindowsOf == [a \in Accounts |-> IF a = project THEN 1 ELSE 2]
(* Every estimate is 2: calls that charge the same accounts are alike.       *)
Alike == Permutations({c1, c2}) \cup Permutations({f, g})
OneLimit == [a \in Accounts |-> {4}]
=============================================================================
