-------------------------- MODULE MCPaintGovernance --------------------------
(* A small instance of PaintGovernance: f1 and f2 are one fixture command   *)
(* for the first plan, sent twice with its key; r1 and r2 are two paid      *)
(* regenerations with keys of their own.  Both pairs are interchangeable.   *)
EXTENDS PlanHistory, Workbench, Geometry, TLC

CONSTANTS f1, f2, r1, r2, fixtureKey

SharedFixtureKey == [g \in Generations |-> IF g \in {f1, f2} THEN fixtureKey ELSE g]
Requests == {{f1, r1, r2}, {f2, r1, r2}, {f1, f2}}
Twins == Permutations({f1, f2}) \cup Permutations({r1, r2})

(* The server accepts exactly the curves that do not touch themselves and   *)
(* are not too small, although it never compares neighbouring edges, and so *)
(* does the page, which does not look for vertices used twice either: what  *)
(* the page lets its user save is not refused.  An overlap warning means    *)
(* that two regions of different layers have a point in common, wherever    *)
(* their drawing began.  That does not depend on the project's state: TLC   *)
(* evaluates it where the project is still empty.                           *)
EmptyProject == images = Incomplete /\ review.version = 0

SnapshotsAreSound == EmptyProject => SimpleCurves /\ ExactWarnings
=============================================================================
