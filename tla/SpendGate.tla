------------------------------ MODULE SpendGate ------------------------------
(* What the durable pre-egress claim promises, without reservations,        *)
(* workers, crashes or transactions: a resource has at most one owner, only *)
(* its owner may call the provider, and a call that succeeded or whose      *)
(* outcome is unknown keeps the resource forever.  ZhipuInvocation is shown *)
(* to implement it.                                                         *)
EXTENDS FiniteSets

CONSTANTS Calls, Resources, ResourceOf, NoCall

VARIABLES owner,   \* the call that holds each resource, or NoCall
          phase    \* what each call has done so far

gateVars == <<owner, phase>>

Phase == {"idle", "calling", "failed", "kept"}

GateInit == /\ owner = [w \in Resources |-> NoCall]
            /\ phase \in [Calls -> {"idle", "failed"}]

Take(r) == /\ owner[ResourceOf[r]] = NoCall
           /\ phase[r] \in {"idle", "failed"}
           /\ owner' = [owner EXCEPT ![ResourceOf[r]] = r]
           /\ UNCHANGED phase

Call(r) == /\ owner[ResourceOf[r]] = r
           /\ phase[r] = "idle"
           /\ phase' = [phase EXCEPT ![r] = "calling"]
           /\ UNCHANGED owner

Fail(r) == /\ phase[r] = "calling"
           /\ phase' = [phase EXCEPT ![r] = "failed"]
           /\ UNCHANGED owner

Keep(r) == /\ phase[r] = "calling"
           /\ phase' = [phase EXCEPT ![r] = "kept"]
           /\ UNCHANGED owner

(* A call given up before it reached the provider; it may free what it took. *)
Abandon(r) == /\ phase[r] = "idle"
              /\ phase' = [phase EXCEPT ![r] = "failed"]
              /\ \/ UNCHANGED owner
                 \/ /\ owner[ResourceOf[r]] = r
                    /\ owner' = [owner EXCEPT ![ResourceOf[r]] = NoCall]

Free(r) == /\ owner[ResourceOf[r]] = r
           /\ phase[r] = "failed"
           /\ owner' = [owner EXCEPT ![ResourceOf[r]] = NoCall]
           /\ UNCHANGED phase

GateNext == \E r \in Calls : Take(r) \/ Call(r) \/ Fail(r) \/ Keep(r)
                               \/ Abandon(r) \/ Free(r)

GateSpec == GateInit /\ [][GateNext]_gateVars

=============================================================================
