---------------------------- MODULE ImageHistory ----------------------------
(* What uploading images promises a project: each role has one growing      *)
(* history of immutable versions, and an upload command adds at most one.   *)
EXTENDS Naturals

CONSTANTS
    Images, Roles, RoleOf,       \* the role of each image
    Commands, CommandOf          \* the upload command that would add it

VARIABLES
    version,    \* version of each image in the history of its role, 0: none
    latest      \* number of versions of each role

hvars == <<version, latest>>

Init ==
    /\ version = [i \in Images |-> 0]
    /\ latest = [r \in Roles |-> 0]

Accept(i) ==
    /\ \A j \in Images : CommandOf[j] = CommandOf[i] => version[j] = 0
    /\ version' = [version EXCEPT ![i] = latest[RoleOf[i]] + 1]
    /\ latest' = [latest EXCEPT ![RoleOf[i]] = @ + 1]

Next == \E i \in Images : Accept(i)

Spec == Init /\ [][Next]_hvars

-----------------------------------------------------------------------------
(* No two images of a role share a version, none is above the latest, and   *)
(* no command has added two images.                                         *)
HistoryIsLinear ==
    /\ \A i \in Images : version[i] <= latest[RoleOf[i]]
    /\ \A i, j \in Images :
          i # j /\ version[i] # 0 /\ version[j] # 0
             => /\ CommandOf[i] # CommandOf[j]
                /\ RoleOf[i] = RoleOf[j] => version[i] # version[j]
=============================================================================
