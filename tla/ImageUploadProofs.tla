-------------------------- MODULE ImageUploadProofs --------------------------
(* Theorems about ImageUpload and ImageStorage for every set of uploads,    *)
(* roles, keys and payloads, any number of crashes and unanswered commits,  *)
(* and of migrations, backups and restores that stop anywhere.              *)
EXTENDS ImageStorage, TLAPS

-----------------------------------------------------------------------------
LEMMA TypeInit == Init => TypeOK
BY UploadAssumption DEF Init, TypeOK, ReferenceStatuses, Ended

LEMMA RowsTyped ==
    ASSUME TypeOK, NEW u \in Uploads, WriteRows(u)
    PROVE  /\ version' \in [Uploads -> Nat]
           /\ current' \in [Roles -> Uploads \cup {None}]
           /\ status' \in ReferenceStatuses
           /\ projectImage' \in Uploads \cup {None}
           /\ record' \in [Keys -> Uploads \cup {None}]
<1>1. NewVersion(u) \in Nat
  BY DEF TypeOK, NewVersion
<1> QED
  BY <1>1 DEF TypeOK, WriteRows, ReferenceStatuses

LEMMA TypeStep == TypeOK /\ [Next]_vars => TypeOK'
<1> SUFFICES ASSUME TypeOK, [Next]_vars
             PROVE  TypeOK'
  OBVIOUS
<1> USE UploadAssumption DEF TypeOK, Goto, EndTx, rows, bounds, Ended
<1>1. ASSUME NEW u \in Uploads, Preflight(u) PROVE TypeOK'
  BY <1>1 DEF Preflight
<1>2. ASSUME NEW u \in Uploads, Stage(u) PROVE TypeOK'
  BY <1>2 DEF Stage
<1>3. ASSUME NEW u \in Uploads, Claim(u) PROVE TypeOK'
  BY <1>3 DEF Claim
<1>4. ASSUME NEW u \in Uploads, Replay(u) PROVE TypeOK'
  BY <1>4 DEF Replay, Answer
<1>5. ASSUME NEW u \in Uploads, LockProject(u) PROVE TypeOK'
  BY <1>5 DEF LockProject, CanLock
<1>6. ASSUME NEW u \in Uploads, RejectMutation(u) PROVE TypeOK'
  BY <1>6 DEF RejectMutation, CanLock
<1>7. ASSUME NEW u \in Uploads, Publish(u) PROVE TypeOK'
  BY <1>7 DEF Publish
<1>8. ASSUME NEW u \in Uploads, PublishFails(u) PROVE TypeOK'
  BY <1>8 DEF PublishFails
<1>9. ASSUME NEW u \in Uploads, Commit(u) PROVE TypeOK'
  BY <1>9, RowsTyped DEF Commit
<1>10. ASSUME NEW u \in Uploads, Rollback(u) PROVE TypeOK'
  BY <1>10 DEF Rollback, AfterRollback
<1>11. ASSUME NEW u \in Uploads, ReadReferences(u) PROVE TypeOK'
  BY <1>11 DEF ReadReferences
<1>12. ASSUME NEW u \in Uploads, ReferencesUnverified(u) PROVE TypeOK'
  BY <1>12 DEF ReferencesUnverified
<1>13. ASSUME NEW u \in Uploads, DeleteUncommitted(u) PROVE TypeOK'
  BY <1>13 DEF DeleteUncommitted, MayDelete
<1>14. ASSUME NEW u \in Uploads, DeleteRefused(u) PROVE TypeOK'
  BY <1>14 DEF DeleteRefused
<1>15. ASSUME NEW u \in Uploads, LockTimeout(u) PROVE TypeOK'
  BY <1>15 DEF LockTimeout
<1>16. ASSUME NEW u \in Uploads, CommitUnanswered(u) PROVE TypeOK'
  BY <1>16 DEF CommitUnanswered
<1>17. ASSUME NEW u \in Uploads, ServerCommits(u) PROVE TypeOK'
  BY <1>17, RowsTyped DEF ServerCommits, InDoubt
<1>18. ASSUME NEW u \in Uploads, ServerAborts(u) PROVE TypeOK'
  BY <1>18 DEF ServerAborts, InDoubt
<1>19. ASSUME NEW u \in Uploads, Crash(u) PROVE TypeOK'
  BY <1>19 DEF Crash, InDoubt
<1>20. CASE UNCHANGED vars
  BY <1>20 DEF vars
<1> QED
  BY <1>1, <1>2, <1>3, <1>4, <1>5, <1>6, <1>7, <1>8, <1>9, <1>10, <1>11, <1>12,
     <1>13, <1>14, <1>15, <1>16, <1>17, <1>18, <1>19, <1>20
     DEF Next, Step, Server, Quiescent

(* Transactions and steps of the worker belong together, whatever fails.    *)
THEOREM UploadTypeCorrect == Spec => []TypeOK
BY TypeInit, TypeStep, PTL DEF Spec

-----------------------------------------------------------------------------
(* The locks.                                                               *)
LEMMA LocksInit == Init => LocksProtect
BY DEF Init, LocksProtect

(* The transaction that holds project and key may write, and ends.          *)
LEMMA LocksWrite ==
    ASSUME TypeOK, LocksProtect, NEW u \in Uploads, tx[u] = "locked",
           WriteRows(u), EndTx(u), base' = base
    PROVE  LocksProtect'
<1> USE UploadAssumption DEF TypeOK, EndTx
<1>1. record[KeyOf[u]] = None /\ version[u] = 0
  BY DEF LocksProtect
<1>2. NewVersion(u) \in Nat /\ NewVersion(u) # 0
  BY DEF NewVersion
<1>3. /\ tx' = [tx EXCEPT ![u] = "none"]
      /\ version' = [version EXCEPT ![u] = NewVersion(u)]
      /\ current' = [current EXCEPT ![RoleOf[u]] = u]
      /\ record' = [record EXCEPT ![KeyOf[u]] = u]
  BY DEF WriteRows
<1>4. ASSUME NEW v \in Uploads, NEW w \in Uploads
      PROVE  /\ tx'[v] = "locked" /\ tx'[w] = "locked" => v = w
             /\ tx'[v] # "none" /\ tx'[w] # "none" /\ KeyOf[v] = KeyOf[w] => v = w
  BY <1>3 DEF LocksProtect
<1>5. ASSUME NEW v \in Uploads
      PROVE  /\ tx'[v] # "none" => record'[KeyOf[v]] = None
             /\ tx'[v] # "locked"
             /\ version'[v] # 0 => record'[KeyOf[v]] = v
  BY <1>1, <1>2, <1>3 DEF LocksProtect
<1>6. ASSUME NEW r \in Roles, current'[r] # None
      PROVE  version'[current'[r]] # 0 /\ RoleOf[current'[r]] = r
  BY <1>1, <1>2, <1>3, <1>6 DEF LocksProtect
<1> QED
  BY <1>4, <1>5, <1>6 DEF LocksProtect

LEMMA LocksStep == TypeOK /\ LocksProtect /\ [Next]_vars => LocksProtect'
<1> SUFFICES ASSUME TypeOK, LocksProtect, [Next]_vars
             PROVE  LocksProtect'
  OBVIOUS
<1> USE UploadAssumption DEF TypeOK, LocksProtect, EndTx, rows, bounds
<1>1. ASSUME NEW u \in Uploads, Claim(u) PROVE LocksProtect'
  BY <1>1 DEF Claim, CanClaim, KeyClaimed
<1>2. ASSUME NEW u \in Uploads, LockProject(u) PROVE LocksProtect'
  BY <1>2 DEF LockProject, CanLock, ProjectLocked
<1>3. ASSUME NEW u \in Uploads, tx' = [tx EXCEPT ![u] = "none"],
             UNCHANGED <<base, rows>>
      PROVE  LocksProtect'
  BY <1>3
<1>4. ASSUME NEW u \in Uploads, Commit(u) PROVE LocksProtect'
  BY <1>4, LocksWrite DEF Commit
<1>5. ASSUME NEW u \in Uploads, ServerCommits(u) PROVE LocksProtect'
  BY <1>5, LocksWrite DEF ServerCommits, InDoubt
<1>6. CASE UNCHANGED <<tx, base, rows>>
  BY <1>6
<1> HIDE DEF TypeOK, LocksProtect
<1>7. \/ UNCHANGED <<tx, base, rows>>
      \/ \E u \in Uploads :
            \/ Claim(u) \/ LockProject(u) \/ Commit(u) \/ ServerCommits(u)
            \/ tx' = [tx EXCEPT ![u] = "none"] /\ UNCHANGED <<base, rows>>
  BY DEF Next, Step, Server, Quiescent, vars, Preflight, Stage, Replay,
         RejectMutation, LockTimeout, Publish, PublishFails, Rollback,
         CommitUnanswered, ServerAborts, ReadReferences, ReferencesUnverified,
         DeleteUncommitted, DeleteRefused, Crash
<1> QED
  BY <1>1, <1>2, <1>3, <1>4, <1>5, <1>6, <1>7

(* The project lock and the claimed key protect what a transaction read,    *)
(* although its COMMIT may take effect long after its worker has gone.      *)
THEOREM UploadLocksProtect == Spec => [](TypeOK /\ LocksProtect)
BY TypeInit, TypeStep, LocksInit, LocksStep, PTL DEF Spec

-----------------------------------------------------------------------------
(* The history.                                                             *)
LEMMA HistoryWrite ==
    ASSUME TypeOK, LocksProtect, NEW u \in Uploads, tx[u] = "locked", WriteRows(u)
    PROVE  History!Accept(u)
<1> USE UploadAssumption DEF TypeOK
<1>1. /\ version' = [version EXCEPT ![u] = NewVersion(u)]
      /\ current' = [current EXCEPT ![RoleOf[u]] = u]
  BY DEF WriteRows
<1>2. \A v \in Uploads : KeyOf[v] = KeyOf[u] => version[v] = 0
  BY DEF LocksProtect
<1>3. NewVersion(u) = LatestOf[RoleOf[u]] + 1
  BY DEF LocksProtect, NewVersion, LatestOf
<1>4. LatestOf' = [LatestOf EXCEPT ![RoleOf[u]] = @ + 1]
  <2>1. ASSUME NEW r \in Roles
        PROVE  LatestOf'[r] = IF r = RoleOf[u] THEN LatestOf[r] + 1 ELSE LatestOf[r]
    <3>1. CASE r = RoleOf[u]
      BY <1>1, <1>3, <3>1 DEF LatestOf
    <3>2. CASE r # RoleOf[u]
      <4>1. current'[r] = current[r] /\ current[r] # u
        BY <1>1, <3>2 DEF LocksProtect
      <4> QED
        BY <1>1, <3>2, <4>1 DEF LatestOf
    <3> QED
      BY <3>1, <3>2
  <2>2. LatestOf' = [r \in Roles |-> LatestOf'[r]] /\ LatestOf = [r \in Roles |-> LatestOf[r]]
    BY DEF LatestOf
  <2> QED
    BY <2>1, <2>2
<1> QED
  BY <1>1, <1>2, <1>3, <1>4 DEF History!Accept

LEMMA HistoryStep ==
    TypeOK /\ LocksProtect /\ [Next]_vars => [History!Next]_History!hvars
<1> SUFFICES ASSUME TypeOK, LocksProtect, [Next]_vars
             PROVE  [History!Next]_History!hvars
  OBVIOUS
<1>1. ASSUME NEW u \in Uploads, Commit(u) PROVE History!Next
  BY <1>1, HistoryWrite DEF Commit, TypeOK, History!Next
<1>2. ASSUME NEW u \in Uploads, ServerCommits(u) PROVE History!Next
  BY <1>2, HistoryWrite DEF ServerCommits, InDoubt, History!Next
<1>3. CASE UNCHANGED <<version, current>>
  BY <1>3 DEF History!hvars, LatestOf
<1>4. \/ UNCHANGED <<version, current>>
      \/ \E u \in Uploads : Commit(u) \/ ServerCommits(u)
  BY DEF Next, Step, Server, Quiescent, vars, rows, Preflight, Stage, Claim, Replay,
         LockProject, RejectMutation, LockTimeout, Publish, PublishFails, Rollback,
         CommitUnanswered, ServerAborts, ReadReferences, ReferencesUnverified,
         DeleteUncommitted, DeleteRefused, Crash
<1> QED
  BY <1>1, <1>2, <1>3, <1>4

(* Concurrent, retried, crashed and half-committed uploads add to one       *)
(* linear history per role, one image per idempotency key at most.          *)
THEOREM UploadKeepsHistory == Spec => KeepsHistory
<1>1. Init => History!Init
  BY DEF Init, History!Init, LatestOf
<1> QED
  BY <1>1, HistoryStep, UploadLocksProtect, PTL DEF Spec, KeepsHistory, History!Spec

-----------------------------------------------------------------------------
(* No two images of a role share a version and no key has added two images, *)
(* in the abstract history and so in every implementation of it.            *)
LEMMA HistoryLinearStep ==
    TypeOK /\ LocksProtect /\ History!HistoryIsLinear /\ [Next]_vars
        => History!HistoryIsLinear'
<1> SUFFICES ASSUME TypeOK, LocksProtect, History!HistoryIsLinear, [Next]_vars
             PROVE  History!HistoryIsLinear'
  OBVIOUS
<1>1. [History!Next]_History!hvars
  BY HistoryStep
<1>2. LatestOf \in [Roles -> Nat] /\ LatestOf' = [r \in Roles |-> LatestOf'[r]]
  BY DEF LatestOf, TypeOK
<1> DEFINE L == LatestOf
<1>3. L \in [Roles -> Nat]
  BY <1>2
<1> HIDE DEF L
<1>4. ASSUME NEW u \in Uploads, History!Accept(u) PROVE History!HistoryIsLinear'
  <2>1. /\ \A j \in Uploads : KeyOf[j] = KeyOf[u] => version[j] = 0
        /\ version' = [version EXCEPT ![u] = L[RoleOf[u]] + 1]
        /\ L' = [L EXCEPT ![RoleOf[u]] = @ + 1]
    BY <1>4 DEF History!Accept, L
  <2>2. /\ \A i \in Uploads : version[i] <= L[RoleOf[i]]
        /\ \A i, j \in Uploads :
              i # j /\ version[i] # 0 /\ version[j] # 0
                 => /\ KeyOf[i] # KeyOf[j]
                    /\ RoleOf[i] = RoleOf[j] => version[i] # version[j]
    BY DEF History!HistoryIsLinear, L
  <2>3. /\ \A i \in Uploads : version[i] \in Nat /\ RoleOf[i] \in Roles
        /\ \A r \in Roles : L[r] \in Nat
        /\ \A i \in Uploads :
              version'[i] = IF i = u THEN L[RoleOf[u]] + 1 ELSE version[i]
        /\ \A r \in Roles : L'[r] = IF r = RoleOf[u] THEN L[r] + 1 ELSE L[r]
    BY <1>3, <2>1, UploadAssumption DEF TypeOK
  <2>4. ASSUME NEW i \in Uploads PROVE version'[i] <= L'[RoleOf[i]]
    <3>1. version[i] <= L[RoleOf[i]]
      BY <2>2
    <3> QED
      BY <2>3, <3>1
  <2>5. ASSUME NEW i \in Uploads, NEW j \in Uploads,
               i # j, version'[i] # 0, version'[j] # 0
        PROVE  /\ KeyOf[i] # KeyOf[j]
               /\ RoleOf[i] = RoleOf[j] => version'[i] # version'[j]
    <3>1. version[i] <= L[RoleOf[i]] /\ version[j] <= L[RoleOf[j]]
      BY <2>2
    <3>2. CASE i = u
      <4>1. version[j] # 0 /\ version'[j] = version[j]
        BY <2>3, <2>5, <3>2
      <4>2. KeyOf[j] # KeyOf[u]
        BY <2>1, <4>1
      <4> QED
        BY <2>3, <3>1, <3>2, <4>1, <4>2
    <3>3. CASE j = u
      <4>1. version[i] # 0 /\ version'[i] = version[i]
        BY <2>3, <2>5, <3>3
      <4>2. KeyOf[i] # KeyOf[u]
        BY <2>1, <4>1
      <4> QED
        BY <2>3, <3>1, <3>3, <4>1, <4>2
    <3>4. CASE i # u /\ j # u
      BY <2>2, <2>3, <2>5, <3>4
    <3> QED
      BY <3>2, <3>3, <3>4
  <2> QED
    BY <2>4, <2>5 DEF History!HistoryIsLinear, L
<1>5. CASE UNCHANGED History!hvars
  BY <1>5 DEF History!hvars, History!HistoryIsLinear
<1> QED
  BY <1>1, <1>4, <1>5 DEF History!Next

THEOREM UploadHistoryIsLinear == Spec => []History!HistoryIsLinear
<1>1. Init => History!HistoryIsLinear
  BY UploadAssumption DEF Init, History!HistoryIsLinear, LatestOf
<1> QED
  BY <1>1, HistoryLinearStep, UploadLocksProtect, PTL DEF Spec

-----------------------------------------------------------------------------
(* The project and its objects.                                             *)

(* The project's image is its current primary, and DRAFT means it has none. *)
THEOREM UploadProjectFollowsPrimary == Spec => []ProjectFollowsPrimary
<1>1. Init => ProjectFollowsPrimary
  BY UploadAssumption DEF Init, ProjectFollowsPrimary
<1>2. TypeOK /\ ProjectFollowsPrimary /\ [Next]_vars => ProjectFollowsPrimary'
  <2> SUFFICES ASSUME TypeOK, ProjectFollowsPrimary, [Next]_vars
               PROVE  ProjectFollowsPrimary'
    OBVIOUS
  <2>1. ASSUME NEW u \in Uploads, WriteRows(u) PROVE ProjectFollowsPrimary'
    BY <2>1, UploadAssumption DEF WriteRows, ProjectFollowsPrimary, TypeOK
  <2>2. CASE UNCHANGED rows
    BY <2>2 DEF rows, ProjectFollowsPrimary
  <2>3. UNCHANGED rows \/ \E u \in Uploads : WriteRows(u)
    BY DEF Next, Step, Server, Quiescent, vars, rows, Preflight, Stage, Claim, Replay,
           LockProject, RejectMutation, LockTimeout, Publish, PublishFails, Commit,
           Rollback, CommitUnanswered, ServerCommits, ServerAborts, ReadReferences,
           ReferencesUnverified, DeleteUncommitted, DeleteRefused, Crash
  <2> QED
    BY <2>1, <2>2, <2>3
<1> QED
  BY <1>1, <1>2, UploadTypeCorrect, PTL DEF Spec

(* Refused and replayed uploads leave no object behind.                     *)
THEOREM UploadOrphansComeFromFailures == Spec => []OrphansComeFromFailures
<1>1. Init => OrphansComeFromFailures
  BY DEF Init, OrphansComeFromFailures
<1>2. TypeOK /\ OrphansComeFromFailures /\ [Next]_vars => OrphansComeFromFailures'
  <2> SUFFICES ASSUME TypeOK, OrphansComeFromFailures, [Next]_vars, NEW v \in objects'
               PROVE  \/ version'[v] # 0
                      \/ pc'[v] \in {"published", "compensating", "deleting",
                                     "failed", "crashed"}
    BY DEF OrphansComeFromFailures
  <2> USE DEF TypeOK, Goto, rows, OrphansComeFromFailures
  <2>1. ASSUME NEW u \in Uploads, WriteRows(u), pc' = pc \/ Goto(u, "created"),
               objects' = objects
        PROVE  version'[v] # 0 \/ pc'[v] \in {"published", "compensating", "deleting",
                                              "failed", "crashed"}
    BY <2>1 DEF WriteRows, NewVersion
  <2>2. ASSUME NEW u \in Uploads, Publish(u) \/ PublishFails(u)
        PROVE  version'[v] # 0 \/ pc'[v] \in {"published", "compensating", "deleting",
                                              "failed", "crashed"}
    BY <2>2 DEF Publish, PublishFails
  <2>3. ASSUME NEW u \in Uploads, UNCHANGED version, objects' \subseteq objects,
               \E l \in {"compensating", "deleting", "failed", "crashed"} : Goto(u, l)
        PROVE  version'[v] # 0 \/ pc'[v] \in {"published", "compensating", "deleting",
                                              "failed", "crashed"}
    BY <2>3
  <2>4. ASSUME NEW u \in Uploads, UNCHANGED <<version, objects>>,
               pc[u] \in {"start", "staging", "staged", "claimed"},
               \E l \in STRING : Goto(u, l)
        PROVE  version'[v] # 0 \/ pc'[v] \in {"published", "compensating", "deleting",
                                              "failed", "crashed"}
    BY <2>4 DEF Ended
  <2>5. CASE UNCHANGED <<version, objects, pc>>
    BY <2>5
  <2>6. \/ UNCHANGED <<version, objects, pc>>
        \/ \E u \in Uploads :
              \/ Preflight(u) \/ Stage(u) \/ Claim(u) \/ Replay(u) \/ LockProject(u)
              \/ RejectMutation(u) \/ Publish(u) \/ PublishFails(u) \/ Commit(u)
              \/ Rollback(u) \/ ReadReferences(u) \/ ReferencesUnverified(u)
              \/ DeleteUncommitted(u) \/ DeleteRefused(u) \/ LockTimeout(u)
              \/ CommitUnanswered(u) \/ ServerCommits(u) \/ Crash(u)
    BY DEF Next, Step, Server, Quiescent, vars, ServerAborts
  <2> QED
    BY <2>1, <2>2, <2>3, <2>4, <2>5, <2>6, SMTT(60)
       DEF Preflight, Stage, Claim, Replay, Answer, LockProject, CanLock,
           RejectMutation, Commit, Rollback, AfterRollback, ReadReferences,
           ReferencesUnverified, DeleteUncommitted, MayDelete, DeleteRefused,
           LockTimeout, CommitUnanswered, ServerCommits, Crash
<1> QED
  BY <1>1, <1>2, UploadTypeCorrect, PTL DEF Spec

-----------------------------------------------------------------------------
(* Compensation.                                                            *)

(* A worker that may still delete its object has one.                       *)
HoldsObject == \A u \in Uploads : pc[u] \in {"published", "compensating"} => u \in objects

LEMMA HoldsObjectStep == TypeOK /\ HoldsObject /\ [Next]_vars => HoldsObject'
<1> SUFFICES ASSUME TypeOK, HoldsObject, [Next]_vars, NEW v \in Uploads,
                    pc'[v] \in {"published", "compensating"}
             PROVE  v \in objects'
  BY DEF HoldsObject
<1> USE DEF TypeOK, Goto, HoldsObject
<1>1. ASSUME NEW u \in Uploads, Publish(u) PROVE v \in objects'
  BY <1>1 DEF Publish
<1>2. ASSUME NEW u \in Uploads, Goto(u, "failed"), objects \ {u} \subseteq objects'
      PROVE  v \in objects'
  BY <1>2
<1>3. ASSUME NEW u \in Uploads, UNCHANGED objects, pc[u] = "published",
             Goto(u, "compensating")
      PROVE  v \in objects'
  BY <1>3
<1>4. ASSUME NEW u \in Uploads, UNCHANGED objects, NEW l, Goto(u, l),
             l \notin {"published", "compensating"}
      PROVE  v \in objects'
  BY <1>4
<1>5. CASE UNCHANGED <<objects, pc>>
  BY <1>5
<1>6. \/ UNCHANGED <<objects, pc>>
      \/ \E u \in Uploads :
            \/ Preflight(u) \/ Stage(u) \/ Claim(u) \/ Replay(u) \/ LockProject(u)
            \/ RejectMutation(u) \/ Publish(u) \/ PublishFails(u) \/ Commit(u)
            \/ Rollback(u) \/ ReadReferences(u) \/ ReferencesUnverified(u)
            \/ DeleteUncommitted(u) \/ DeleteRefused(u) \/ LockTimeout(u)
            \/ CommitUnanswered(u) \/ Crash(u)
  BY DEF Next, Step, Server, Quiescent, vars, ServerAborts, ServerCommits
<1> QED
  BY <1>1, <1>2, <1>3, <1>4, <1>5, <1>6, SMTT(60)
     DEF Preflight, Stage, Claim, Replay, Answer, LockProject, CanLock,
         RejectMutation, PublishFails, Commit, Rollback, AfterRollback, ReadReferences,
         ReferencesUnverified, DeleteUncommitted, MayDelete, DeleteRefused,
         LockTimeout, CommitUnanswered, Crash

(* An asset whose worker can no longer delete its object.                   *)
Safe(u) ==
    /\ version[u] # 0 /\ u \in objects
    /\ pc[u] = "deleting" => u \in refs[u]

LEMMA SafeStep ==
    ASSUME NEW u \in Uploads
    PROVE  TypeOK /\ Safe(u) /\ [Next]_vars => Safe(u)'
<1> SUFFICES ASSUME TypeOK, Safe(u), [Next]_vars
             PROVE  Safe(u)'
  OBVIOUS
<1> USE DEF TypeOK, Goto, rows, Safe
<1>1. ASSUME NEW w \in Uploads, WriteRows(w), UNCHANGED <<objects, refs>>,
             UNCHANGED pc \/ Goto(w, "created")
      PROVE  Safe(u)'
  BY <1>1 DEF WriteRows, NewVersion
<1>2. ASSUME NEW w \in Uploads, ReadReferences(w) PROVE Safe(u)'
  BY <1>2 DEF ReadReferences
<1>3. ASSUME NEW w \in Uploads, DeleteUncommitted(w) PROVE Safe(u)'
  BY <1>3 DEF DeleteUncommitted, MayDelete
<1>4. ASSUME UNCHANGED <<version, refs>>, objects \subseteq objects',
             NEW w \in Uploads, NEW l, Goto(w, l), l # "deleting"
      PROVE  Safe(u)'
  BY <1>4
<1>5. CASE UNCHANGED <<version, refs, objects, pc>>
  BY <1>5
<1>6. \/ UNCHANGED <<version, refs, objects, pc>>
      \/ \E w \in Uploads :
            \/ Preflight(w) \/ Stage(w) \/ Claim(w) \/ Replay(w) \/ LockProject(w)
            \/ RejectMutation(w) \/ Publish(w) \/ PublishFails(w) \/ Commit(w)
            \/ Rollback(w) \/ ReadReferences(w) \/ ReferencesUnverified(w)
            \/ DeleteUncommitted(w) \/ DeleteRefused(w) \/ LockTimeout(w)
            \/ CommitUnanswered(w) \/ ServerCommits(w) \/ Crash(w)
  BY DEF Next, Step, Server, Quiescent, vars, ServerAborts
<1> QED
  BY <1>1, <1>2, <1>3, <1>4, <1>5, <1>6, SMTT(60)
     DEF Preflight, Stage, Claim, Replay, Answer, LockProject, CanLock,
         RejectMutation, Publish, PublishFails, Commit, Rollback, AfterRollback,
         ReferencesUnverified, DeleteRefused, LockTimeout, CommitUnanswered,
         ServerCommits, Crash

(* An asset that was committed before the compensation of its upload reads  *)
(* the references never loses its object.                                   *)
THEOREM UploadCommittedSurvives == Spec => CommittedBeforeCompensationSurvives
<1> SUFFICES ASSUME NEW u \in Uploads
             PROVE  Spec => [](version[u] # 0 /\ pc[u] = "compensating"
                                  => [](u \in objects))
  BY DEF CommittedBeforeCompensationSurvives
<1>1. Init => HoldsObject
  BY DEF Init, HoldsObject
<1>2. HoldsObject /\ version[u] # 0 /\ pc[u] = "compensating" => Safe(u)
  BY DEF HoldsObject, Safe
<1>3. Safe(u) => u \in objects
  BY DEF Safe
<1>4. TypeOK /\ Safe(u) /\ [Next]_vars => Safe(u)'
  BY SafeStep
<1> QED
  BY <1>1, <1>2, <1>3, <1>4, HoldsObjectStep, UploadTypeCorrect, PTL DEF Spec


-----------------------------------------------------------------------------
(* The answers.                                                             *)

(* A completed key names an upload that has its row.                        *)
RecordsHaveRows == \A k \in Keys : record[k] # None => version[record[k]] # 0

LEMMA AnswersStep ==
    TypeOK /\ LocksProtect /\ RecordsHaveRows /\ AnswersAreDurable /\ [Next]_vars
        => RecordsHaveRows' /\ AnswersAreDurable'
<1> SUFFICES ASSUME TypeOK, LocksProtect, RecordsHaveRows, AnswersAreDurable,
                    [Next]_vars
             PROVE  RecordsHaveRows' /\ AnswersAreDurable'
  OBVIOUS
<1> USE UploadAssumption DEF TypeOK, Goto, rows, RecordsHaveRows, AnswersAreDurable
<1>1. ASSUME NEW u \in Uploads, tx[u] = "locked", WriteRows(u),
             UNCHANGED pc \/ Goto(u, "created")
      PROVE  RecordsHaveRows' /\ AnswersAreDurable'
  <2>1. record[KeyOf[u]] = None
    BY <1>1 DEF LocksProtect
  <2>2. NewVersion(u) \in Nat /\ NewVersion(u) # 0
    BY DEF NewVersion
  <2>3. /\ version' = [version EXCEPT ![u] = NewVersion(u)]
        /\ record' = [record EXCEPT ![KeyOf[u]] = u]
    BY <1>1 DEF WriteRows
  <2>4. ASSUME NEW v \in Uploads, version[v] # 0 PROVE version'[v] # 0
    BY <2>2, <2>3, <2>4
  <2>5. RecordsHaveRows'
    BY <2>2, <2>3, <2>4
  <2>6. ASSUME NEW v \in Uploads, KeyOf[v] # KeyOf[u]
        PROVE  record'[KeyOf[v]] = record[KeyOf[v]]
    BY <2>3, <2>6
  <2>7. version'[u] # 0 /\ record'[KeyOf[u]] = u
    BY <2>2, <2>3
  <2>8. ASSUME NEW v \in Uploads, pc'[v] = "created"
        PROVE  version'[v] # 0 /\ record'[KeyOf[v]] = v
    BY <1>1, <2>1, <2>4, <2>6, <2>7, <2>8
  <2>9. ASSUME NEW v \in Uploads, pc'[v] = "replayed"
        PROVE  /\ record'[KeyOf[v]] # None
               /\ version'[record'[KeyOf[v]]] # 0
               /\ PayloadOf[record'[KeyOf[v]]] = PayloadOf[v]
    BY <1>1, <2>1, <2>4, <2>6, <2>9
  <2> QED
    BY <2>5, <2>8, <2>9
<1>2. ASSUME NEW u \in Uploads, Replay(u)
      PROVE  RecordsHaveRows' /\ AnswersAreDurable'
  BY <1>2 DEF Replay, Answer
<1>3. ASSUME NEW u \in Uploads, UNCHANGED <<version, record>>, NEW l, Goto(u, l),
             l \notin {"created", "replayed"}
      PROVE  RecordsHaveRows' /\ AnswersAreDurable'
  BY <1>3
<1>4. CASE UNCHANGED <<version, record, pc>>
  BY <1>4
<1>5. \/ UNCHANGED <<version, record, pc>>
      \/ \E u \in Uploads :
            \/ Preflight(u) \/ Stage(u) \/ Claim(u) \/ Replay(u) \/ LockProject(u)
            \/ RejectMutation(u) \/ Publish(u) \/ PublishFails(u) \/ Commit(u)
            \/ Rollback(u) \/ ReadReferences(u) \/ ReferencesUnverified(u)
            \/ DeleteUncommitted(u) \/ DeleteRefused(u) \/ LockTimeout(u)
            \/ CommitUnanswered(u) \/ ServerCommits(u) \/ Crash(u)
  BY DEF Next, Step, Server, Quiescent, vars, ServerAborts
<1> QED
  BY <1>1, <1>2, <1>3, <1>4, <1>5, SMTT(60)
     DEF Preflight, Stage, Claim, LockProject, CanLock, RejectMutation, Publish,
         PublishFails, Commit, Rollback, AfterRollback, ReadReferences,
         ReferencesUnverified, DeleteUncommitted, MayDelete, DeleteRefused,
         LockTimeout, CommitUnanswered, ServerCommits, InDoubt, Crash

(* Who is told of an image finds its row, and a replayed request finds that *)
(* of the same command and payload, through every crash and lost answer.    *)
THEOREM UploadAnswersAreDurable == Spec => []AnswersAreDurable
<1>1. Init => RecordsHaveRows /\ AnswersAreDurable
  BY DEF Init, RecordsHaveRows, AnswersAreDurable
<1> QED
  BY <1>1, AnswersStep, UploadLocksProtect, PTL DEF Spec


-----------------------------------------------------------------------------
(* The tools beside the uploads.                                            *)

(* They never touch what an upload works on.                                *)
LEMMA ToolsLeaveUploads == [StorageNext]_svars => [Next]_vars
<1> SUFFICES ASSUME [StorageNext]_svars
             PROVE  [Next]_vars
  OBVIOUS
<1>1. ASSUME NEW u \in Uploads, Uploading(u) PROVE [Next]_vars
  BY <1>1 DEF Uploading, Next
<1>2. CASE UNCHANGED vars
  BY <1>2
<1>3. UNCHANGED vars \/ \E u \in Uploads : Uploading(u)
  BY DEF StorageNext, svars, MoverStep, ListLocalRows, CopyVerified, UpdateProvider,
         MigrationStops, SaverStep, Snapshot, ListBucket, Download, PublishBackup,
         BackupStops, RestoreStep, StartRestore, RestoreObject, CommitRestore,
         EndRestore, RestoreStops, GoLive, StorageQuiescent
<1> QED
  BY <1>1, <1>2, <1>3

(* So all that holds of uploads alone holds of them beside a migration, a   *)
(* backup and restores.                                                     *)
THEOREM UploadsBesideTools == StorageSpec => Spec
BY ToolsLeaveUploads, PTL DEF StorageSpec, StorageInit, Spec

-----------------------------------------------------------------------------
(* Types of what the tools keep.                                            *)
Exports == [rows : SUBSET Uploads, project : Uploads \cup {None},
            inventory : SUBSET Uploads, bytes : SUBSET Uploads]

ToolsTypeOK ==
    /\ mover \in [todo : SUBSET Uploads, at : Uploads \cup {None}]
    /\ copied \subseteq Uploads /\ moved \subseteq Uploads
    /\ saver \in [step : {"idle", "downloading", "listed"}, partial : Exports]
    /\ backup \in Exports
    /\ target \in {"empty", "restored", "live"}
    /\ restored \subseteq Uploads
    /\ restorer \in [Restores -> [step : {"idle", "fresh", "again", "refused", "done"},
                                  existing : SUBSET Uploads]]

(* Unless a COMMIT went unanswered, a transaction that holds the project    *)
(* has its worker, and rows have an upload that was answered and an object. *)
NothingInDoubt ==
    lost = 0 => \A u \in Uploads :
        /\ tx[u] = "locked" => pc[u] \in {"locked", "published"}
        /\ version[u] # 0 => pc[u] = "created" /\ u \in objects

(* A row is pointed at the bucket after its copy lies there.                *)
CopyComesFirst ==
    /\ moved \subseteq copied
    /\ mover.at # None => mover.at \in copied

(* An export is one state of the rows.                                      *)
OneState(e) ==
    /\ e.project \in e.rows \cup {None}
    /\ {u \in e.rows : StoreOf[u] = "s3"} \subseteq e.inventory
    /\ e.inventory \subseteq e.rows /\ e.bytes \subseteq e.inventory

(* Nobody restores what is not published, and what is published stays.      *)
BackupThenRestore ==
    /\ OneState(saver.partial) /\ OneState(backup)
    /\ backup.bytes = backup.inventory
    /\ saver.step # "idle" => backup = NoBackup
    /\ backup = NoBackup =>
          target = "empty" /\ \A r \in Restores : restorer[r].step = "idle"


LEMMA NoBackupIsAnExport == NoBackup \in Exports /\ OneState(NoBackup)
BY DEF NoBackup, Exports, OneState

LEMMA ExportIsOneState ==
    ASSUME TypeOK, LocksProtect, ProjectFollowsPrimary
    PROVE  Export \in Exports /\ OneState(Export)
<1>1. Rows \subseteq Uploads /\ Inventory \subseteq Rows
  BY DEF Rows, Inventory
<1>2. projectImage \in Rows \cup {None}
  BY UploadAssumption DEF Rows, ProjectFollowsPrimary, LocksProtect, TypeOK
<1>3. {u \in Rows : StoreOf[u] = "s3"} \subseteq Inventory
  BY DEF Inventory, ProviderOf
<1> QED
  BY <1>1, <1>2, <1>3 DEF Export, Exports, OneState, TypeOK

LEMMA ToolsTypeStep ==
    TypeOK /\ LocksProtect /\ ProjectFollowsPrimary /\ ToolsTypeOK /\ [StorageNext]_svars
        => ToolsTypeOK'
<1> SUFFICES ASSUME TypeOK, LocksProtect, ProjectFollowsPrimary, ToolsTypeOK,
                    [StorageNext]_svars
             PROVE  ToolsTypeOK'
  OBVIOUS
<1> USE DEF ToolsTypeOK, moving, saving, restoring, AtRest
<1>1. CASE UNCHANGED tools
  BY <1>1 DEF tools
<1>2. ASSUME ListLocalRows PROVE ToolsTypeOK'
  BY <1>2 DEF ListLocalRows, Rows
<1>3. ASSUME NEW u \in Uploads, CopyVerified(u) PROVE ToolsTypeOK'
  BY <1>3 DEF CopyVerified
<1>4. ASSUME NEW u \in Uploads, UpdateProvider(u) PROVE ToolsTypeOK'
  BY <1>4 DEF UpdateProvider
<1>5. ASSUME MigrationStops PROVE ToolsTypeOK'
  BY <1>5 DEF MigrationStops, NothingToMove
<1>6. ASSUME Snapshot PROVE ToolsTypeOK'
  BY <1>6, ExportIsOneState DEF Snapshot
<1>7. ASSUME ListBucket PROVE ToolsTypeOK'
  BY <1>7 DEF ListBucket
<1>8. ASSUME NEW u \in Uploads, Download(u) PROVE ToolsTypeOK'
  BY <1>8 DEF Download, Exports
<1>9. ASSUME PublishBackup PROVE ToolsTypeOK'
  BY <1>9, NoBackupIsAnExport DEF PublishBackup
<1>10. ASSUME BackupStops PROVE ToolsTypeOK'
  BY <1>10, NoBackupIsAnExport DEF BackupStops
<1>11. ASSUME NEW r \in Restores, StartRestore(r) PROVE ToolsTypeOK'
  BY <1>11 DEF StartRestore
<1>12. ASSUME NEW r \in Restores, NEW u \in Uploads, RestoreObject(r, u)
       PROVE  ToolsTypeOK'
  BY <1>12 DEF RestoreObject
<1>13. ASSUME NEW r \in Restores, CommitRestore(r) PROVE ToolsTypeOK'
  BY <1>13 DEF CommitRestore
<1>14. ASSUME NEW r \in Restores, EndRestore(r) PROVE ToolsTypeOK'
  BY <1>14 DEF EndRestore
<1>15. ASSUME NEW r \in Restores, RestoreStops(r) PROVE ToolsTypeOK'
  BY <1>15 DEF RestoreStops
<1>16. ASSUME GoLive PROVE ToolsTypeOK'
  BY <1>16 DEF GoLive
<1> QED
  BY <1>1, <1>2, <1>3, <1>4, <1>5, <1>6, <1>7, <1>8, <1>9, <1>10, <1>11, <1>12,
     <1>13, <1>14, <1>15, <1>16
     DEF StorageNext, svars, Uploading, MoverStep, SaverStep, RestoreStep,
         StorageQuiescent

LEMMA ToolsTypeInit == StorageInit => ToolsTypeOK
BY NoBackupIsAnExport DEF StorageInit, ToolsTypeOK, NothingToMove, AtRest

-----------------------------------------------------------------------------
(* Rows and their objects.                                                  *)
LEMMA NothingInDoubtStep ==
    TypeOK /\ HoldsObject /\ NothingInDoubt /\ [Next]_vars => NothingInDoubt'
<1> SUFFICES ASSUME TypeOK, HoldsObject, NothingInDoubt, [Next]_vars, lost' = 0,
                    NEW v \in Uploads
             PROVE  /\ tx'[v] = "locked" => pc'[v] \in {"locked", "published"}
                    /\ version'[v] # 0 => pc'[v] = "created" /\ v \in objects'
  BY DEF NothingInDoubt
<1> DEFINE Kept == /\ tx'[v] = "locked" => pc'[v] \in {"locked", "published"}
                   /\ version'[v] # 0 => pc'[v] = "created" /\ v \in objects'
<1> USE DEF TypeOK, Goto, EndTx, rows, bounds
<1>1. lost = 0
  <2>1. CASE UNCHANGED lost
    BY <2>1
  <2>2. ASSUME NEW u \in Uploads, CommitUnanswered(u) PROVE FALSE
    BY <2>2 DEF CommitUnanswered
  <2> QED
    BY <2>1, <2>2
       DEF Next, Step, Server, Quiescent, vars, Preflight, Stage, Claim, Replay,
           LockProject, RejectMutation, LockTimeout, Publish, PublishFails, Commit,
           Rollback, ServerCommits, ServerAborts, ReadReferences,
           ReferencesUnverified, DeleteUncommitted, DeleteRefused, Crash
<1>2. \A u \in Uploads :
         /\ tx[u] = "locked" => pc[u] \in {"locked", "published"}
         /\ version[u] # 0 => pc[u] = "created" /\ u \in objects
         /\ ~InDoubt(u)
  BY <1>1 DEF NothingInDoubt, InDoubt
<1>3. ASSUME NEW u \in Uploads, Commit(u) PROVE Kept
  BY <1>2, <1>3 DEF Commit, WriteRows, HoldsObject
<1>4. ASSUME NEW u \in Uploads, UNCHANGED <<version>>, objects \ {u} \subseteq objects',
             pc[u] # "created", EndTx(u), NEW l, Goto(u, l)
      PROVE  Kept
  BY <1>2, <1>4
<1>5. ASSUME NEW u \in Uploads, LockProject(u) \/ Publish(u) PROVE Kept
  BY <1>2, <1>5 DEF LockProject, CanLock, Publish
<1>6. ASSUME NEW u \in Uploads, UNCHANGED <<version, tx>>, tx[u] # "locked",
             objects \ {u} \subseteq objects', pc[u] # "created", NEW l, Goto(u, l)
      PROVE  Kept
  BY <1>2, <1>6
<1>7. ASSUME NEW u \in Uploads, Claim(u) PROVE Kept
  BY <1>2, <1>7 DEF Claim
<1>8. CASE UNCHANGED <<version, tx, pc, objects>>
  BY <1>2, <1>8
<1>9. \/ UNCHANGED <<version, tx, pc, objects>>
      \/ \E u \in Uploads :
            \/ Preflight(u) \/ Stage(u) \/ Claim(u) \/ Replay(u) \/ LockProject(u)
            \/ RejectMutation(u) \/ Publish(u) \/ PublishFails(u) \/ Commit(u)
            \/ Rollback(u) \/ ReadReferences(u) \/ ReferencesUnverified(u)
            \/ DeleteUncommitted(u) \/ DeleteRefused(u) \/ LockTimeout(u)
            \/ Crash(u)
  <2>1. \A u \in Uploads : ~CommitUnanswered(u) /\ ~Server(u)
    BY <1>1, <1>2 DEF CommitUnanswered, Server, ServerCommits, ServerAborts
  <2> QED
    BY <2>1 DEF Next, Step, Quiescent, vars
<1>10. ASSUME NEW u \in Uploads,
              \/ Preflight(u) \/ Stage(u) \/ Replay(u) \/ ReadReferences(u)
              \/ ReferencesUnverified(u) \/ DeleteUncommitted(u) \/ DeleteRefused(u)
       PROVE  Kept
  BY <1>2, <1>6, <1>10
     DEF Preflight, Stage, Replay, Answer, ReadReferences, ReferencesUnverified,
         DeleteUncommitted, MayDelete, DeleteRefused
<1>11. ASSUME NEW u \in Uploads,
              RejectMutation(u) \/ PublishFails(u) \/ Rollback(u) \/ LockTimeout(u)
       PROVE  Kept
  BY <1>4, <1>11 DEF RejectMutation, CanLock, PublishFails, Rollback, LockTimeout
<1>12. ASSUME NEW u \in Uploads, Crash(u) PROVE Kept
  BY <1>2, <1>4, <1>12 DEF Crash, Ended
<1> QED
  BY <1>3, <1>5, <1>7, <1>8, <1>9, <1>10, <1>11, <1>12

LEMMA CopyComesFirstStep ==
    ToolsTypeOK /\ CopyComesFirst /\ [StorageNext]_svars => CopyComesFirst'
<1> SUFFICES ASSUME ToolsTypeOK, CopyComesFirst, [StorageNext]_svars
             PROVE  CopyComesFirst'
  OBVIOUS
<1> USE UploadAssumption DEF ToolsTypeOK, CopyComesFirst, moving
<1>1. ASSUME ListLocalRows \/ MigrationStops PROVE CopyComesFirst'
  BY <1>1 DEF ListLocalRows, MigrationStops, NothingToMove
<1>2. ASSUME NEW u \in Uploads, CopyVerified(u) PROVE CopyComesFirst'
  BY <1>2 DEF CopyVerified
<1>3. ASSUME NEW u \in Uploads, UpdateProvider(u) PROVE CopyComesFirst'
  BY <1>3 DEF UpdateProvider, MayUpdate
<1>4. CASE UNCHANGED moving
  BY <1>4
<1> QED
  BY <1>1, <1>2, <1>3, <1>4
     DEF StorageNext, svars, tools, Uploading, MoverStep, SaverStep, Snapshot,
         ListBucket, Download, PublishBackup, BackupStops, RestoreStep, StartRestore,
         RestoreObject, CommitRestore, EndRestore, RestoreStops, GoLive,
         StorageQuiescent

(* While rows are moved to S3 one by one and uploads go on, every row finds *)
(* its object in the store its provider names.                              *)
THEOREM RowsKeepTheirObjects == StorageSpec => []RowsHaveObjects
<1>1. StorageInit => ToolsTypeOK /\ CopyComesFirst /\ HoldsObject /\ NothingInDoubt
  BY ToolsTypeInit
     DEF StorageInit, Init, CopyComesFirst, HoldsObject, NothingInDoubt, NothingToMove
<1>2. ToolsTypeOK /\ CopyComesFirst /\ NothingInDoubt => RowsHaveObjects
  BY StorageAssumption
     DEF ToolsTypeOK, CopyComesFirst, NothingInDoubt, RowsHaveObjects, Rows,
         ProviderOf, Bucket, LocalFiles
<1> QED
  BY <1>1, <1>2, UploadsBesideTools, UploadLocksProtect, UploadProjectFollowsPrimary,
     ToolsLeaveUploads, ToolsTypeStep, CopyComesFirstStep, HoldsObjectStep,
     NothingInDoubtStep, PTL
     DEF StorageSpec


-----------------------------------------------------------------------------
(* Backups and restores.                                                    *)

(* What a restore in its turn relies on: whoever was told of success, or    *)
(* whoever sees rows, sees every object of the backup.                      *)
RestoresAreWhole ==
    /\ target # "empty" => backup.inventory \subseteq restored
    /\ \A r \in Restores : restorer[r].step = "done" => target # "empty"

LEMMA BackupThenRestoreStep ==
    TypeOK /\ LocksProtect /\ ProjectFollowsPrimary /\ ToolsTypeOK /\ BackupThenRestore
            /\ [StorageNext]_svars
        => BackupThenRestore'
<1> SUFFICES ASSUME TypeOK, LocksProtect, ProjectFollowsPrimary, ToolsTypeOK,
                    BackupThenRestore, [StorageNext]_svars
             PROVE  BackupThenRestore'
  OBVIOUS
<1> USE DEF BackupThenRestore, saving, restoring, AtRest
<1>1. CASE UNCHANGED <<saving, restoring>>
  BY <1>1 DEF OneState
<1>2. ASSUME Snapshot PROVE BackupThenRestore'
  <2>1. saver'.partial = Export /\ UNCHANGED <<backup, target, restorer>>
    BY <1>2 DEF Snapshot
  <2>2. OneState(saver'.partial)
    BY <2>1, ExportIsOneState
  <2>3. backup = NoBackup
    BY <1>2 DEF Snapshot
  <2> QED
    BY <2>1, <2>2, <2>3 DEF OneState
<1>3. ASSUME ListBucket PROVE BackupThenRestore'
  <2>1. saver'.partial = saver.partial /\ UNCHANGED <<backup, target, restorer>>
    BY <1>3 DEF ListBucket, ToolsTypeOK
  <2> QED
    BY <1>3, <2>1 DEF ListBucket, OneState
<1>4. ASSUME NEW u \in Uploads, Download(u) PROVE BackupThenRestore'
  <2>1. /\ saver'.partial.rows = saver.partial.rows
        /\ saver'.partial.project = saver.partial.project
        /\ saver'.partial.inventory = saver.partial.inventory
        /\ saver'.partial.bytes = saver.partial.bytes \cup {u}
        /\ saver'.step = saver.step
        /\ u \in saver.partial.inventory
    BY <1>4 DEF Download, ToolsTypeOK, Exports
  <2>2. UNCHANGED <<backup, target, restorer>>
    BY <1>4 DEF Download
  <2> QED
    BY <2>1, <2>2 DEF OneState
<1>5. ASSUME PublishBackup PROVE BackupThenRestore'
  <2>1. backup' = saver.partial /\ saver'.partial = NoBackup /\ saver'.step = "idle"
    BY <1>5 DEF PublishBackup
  <2>2. saver.partial.bytes = saver.partial.inventory /\ saver.partial.rows # {}
    BY <1>5 DEF PublishBackup, CanPublish
  <2>3. backup' # NoBackup
    BY <2>1, <2>2 DEF NoBackup
  <2> QED
    BY <2>1, <2>2, <2>3, NoBackupIsAnExport DEF OneState
<1>6. ASSUME BackupStops PROVE BackupThenRestore'
  <2>1. /\ saver'.partial = NoBackup /\ saver'.step = "idle"
        /\ UNCHANGED <<backup, target, restorer>>
    BY <1>6 DEF BackupStops
  <2> QED
    BY <2>1, NoBackupIsAnExport DEF OneState
<1>7. ASSUME backup # NoBackup, UNCHANGED saving PROVE BackupThenRestore'
  BY <1>7 DEF OneState
<1>8. ASSUME NEW r \in Restores,
             RestoreStep(r) \/ RestoreStops(r)
      PROVE  backup # NoBackup /\ UNCHANGED saving
  BY <1>8 DEF RestoreStep, StartRestore, RestoreObject, CommitRestore, CanCommit,
              EndRestore, RestoreStops, Running
<1>9. ASSUME GoLive PROVE backup # NoBackup /\ UNCHANGED saving
  BY <1>9 DEF GoLive
<1> QED
  BY <1>1, <1>2, <1>3, <1>4, <1>5, <1>6, <1>7, <1>8, <1>9
     DEF StorageNext, svars, tools, Uploading, MoverStep, SaverStep, ListLocalRows,
         CopyVerified, UpdateProvider, MigrationStops, StorageQuiescent

LEMMA RestoresAreWholeStep ==
    ToolsTypeOK /\ BackupThenRestore /\ RestoresAreWhole /\ [StorageNext]_svars
        => RestoresAreWhole'
<1> SUFFICES ASSUME ToolsTypeOK, BackupThenRestore, RestoresAreWhole,
                    [StorageNext]_svars
             PROVE  RestoresAreWhole'
  OBVIOUS
<1> USE DEF ToolsTypeOK, RestoresAreWhole, saving, restoring, AtRest
<1>1. CASE UNCHANGED <<backup, restoring>>
  BY <1>1
<1>2. ASSUME PublishBackup PROVE RestoresAreWhole'
  BY <1>2 DEF PublishBackup, CanPublish, BackupThenRestore
<1>3. ASSUME NEW r \in Restores, StartRestore(r) PROVE RestoresAreWhole'
  BY <1>3 DEF StartRestore
<1>4. ASSUME NEW r \in Restores, NEW u \in Uploads, RestoreObject(r, u)
      PROVE  RestoresAreWhole'
  BY <1>4 DEF RestoreObject, Running
<1>5. ASSUME NEW r \in Restores, CommitRestore(r) PROVE RestoresAreWhole'
  BY <1>5 DEF CommitRestore, CanCommit
<1>6. ASSUME NEW r \in Restores, EndRestore(r) PROVE RestoresAreWhole'
  BY <1>6 DEF EndRestore
<1>7. ASSUME NEW r \in Restores, RestoreStops(r) PROVE RestoresAreWhole'
  BY <1>7 DEF RestoreStops
<1>8. ASSUME GoLive PROVE RestoresAreWhole'
  BY <1>8 DEF GoLive
<1> QED
  BY <1>1, <1>2, <1>3, <1>4, <1>5, <1>6, <1>7, <1>8
     DEF StorageNext, svars, tools, Uploading, MoverStep, SaverStep, ListLocalRows,
         CopyVerified, UpdateProvider, MigrationStops, Snapshot, ListBucket, Download,
         BackupStops, RestoreStep, StorageQuiescent

(* A published backup is one state of the rows with the bytes of all its S3 *)
(* rows, and no restore, alone or beside others, stopped anywhere, leaves   *)
(* rows without their images or reports a success that is none.             *)
THEOREM BackupsAndRestoresAreWhole == StorageSpec => []CopiesAreWhole
<1>1. StorageInit => ToolsTypeOK /\ BackupThenRestore /\ RestoresAreWhole
  BY ToolsTypeInit, NoBackupIsAnExport
     DEF StorageInit, BackupThenRestore, RestoresAreWhole, AtRest, OneState, NoBackup
<1>2. BackupThenRestore /\ RestoresAreWhole => CopiesAreWhole
  BY DEF BackupThenRestore, RestoresAreWhole, CopiesAreWhole, OneState
<1> QED
  BY <1>1, <1>2, UploadsBesideTools, UploadLocksProtect, UploadProjectFollowsPrimary,
     ToolsTypeStep, BackupThenRestoreStep, RestoresAreWholeStep, PTL
     DEF StorageSpec
==============================================================================
