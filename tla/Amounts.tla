------------------------------ MODULE Amounts ------------------------------
(* Sums of amounts of money (integer minor units) over a set of rows, the   *)
(* way PostgreSQL's sum() and the budget counters see them.  A sum is       *)
(* written as the number of coins in a set, one coin per row and minor      *)
(* unit, so that it needs no recursion and its laws follow from the         *)
(* theorems on finite cardinalities.                                        *)
EXTENDS Integers, FiniteSets

(* The coins of the rows S when row x holds amount[x] of at most `top`.     *)
Coins(S, amount, top) == {c \in S \X (1..top) : c[2] <= amount[c[1]]}

Total(S, amount, top) == Cardinality(Coins(S, amount, top))

=============================================================================
