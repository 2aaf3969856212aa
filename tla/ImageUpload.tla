----------------------------- MODULE ImageUpload -----------------------------
(* ImageAssetService.upload_image on one project: preflight, staging, one   *)
(* transaction that claims the idempotency key, locks the project, stores   *)
(* the object and inserts the asset, and the compensation of an object      *)
(* whose transaction failed.  The object store and the database fail        *)
(* independently; a COMMIT whose answer is lost may still take effect.      *)
(*                                                                          *)
(* An upload stands for its file, its asset row and its object key (a fresh *)
(* uuid).  Left to nondeterminism: validation of the file, lock timeouts    *)
(* and every storage or database error.  No code moves a project to the two *)
(* statuses from which a primary image could be replaced.                   *)
EXTENDS Naturals, FiniteSets

CONSTANTS
    Uploads, None,
    Roles, Primary, RoleOf,
    Keys, KeyOf,               \* idempotency keys
    Payloads, PayloadOf,       \* image_payload_hash, bytes included
    MaxCrashes, MaxLost        \* bounds: workers that die, commits unanswered

ASSUME UploadAssumption ==
    /\ None \notin Uploads /\ Primary \in Roles
    /\ RoleOf \in [Uploads -> Roles] /\ KeyOf \in [Uploads -> Keys]
    /\ PayloadOf \in [Uploads -> Payloads]
    /\ MaxCrashes \in Nat /\ MaxLost \in Nat

VARIABLES
    pc,             \* worker of each upload request
    tx,             \* its database transaction: none, open or locked (project)
    base,           \* current asset of the role as read under the lock
    refs,           \* referenced_storage_keys as read by the compensation
    objects,        \* keys present in the object store
    version,        \* image_assets.version, 0: no row
    current,        \* the row of each role with is_current
    status,         \* paint_projects.status
    projectImage,   \* paint_projects.current_image_asset_id
    record,         \* command_idempotency_records: the upload that completed
    crashes, lost

vars == <<pc, tx, base, refs, objects, version, current, status, projectImage,
          record, crashes, lost>>
rows == <<version, current, status, projectImage, record>>
bounds == <<crashes, lost>>

-----------------------------------------------------------------------------
Ended == {"created", "replayed", "rejected", "failed", "crashed"}

ReplacementStatuses == {"IMAGE_REVIEW_REQUIRED", "IMAGE_VALIDATION_FAILED"}
ReferenceStatuses == {"DRAFT", "IMAGE_UPLOADED"} \cup ReplacementStatuses

(* evaluate_image_asset_mutation                                            *)
Allowed(u) ==
    IF RoleOf[u] = Primary
    THEN status \in (IF current[Primary] = None THEN {"DRAFT"} ELSE ReplacementStatuses)
    ELSE status \in ReferenceStatuses

(* Row locks: the project row, and the uncommitted row of the key.          *)
ProjectLocked == \E v \in Uploads : tx[v] = "locked"
KeyClaimed(k) == \E v \in Uploads : KeyOf[v] = k /\ tx[v] # "none"

Goto(u, l) == pc' = [pc EXCEPT ![u] = l]
EndTx(u) == tx' = [tx EXCEPT ![u] = "none"]

-----------------------------------------------------------------------------
Init ==
    /\ pc = [u \in Uploads |-> "start"]
    /\ tx = [u \in Uploads |-> "none"]
    /\ base = [u \in Uploads |-> None]
    /\ refs = [u \in Uploads |-> {}]
    /\ objects = {}
    /\ version = [u \in Uploads |-> 0]
    /\ current = [r \in Roles |-> None]
    /\ status = "DRAFT"
    /\ projectImage = None
    /\ record = [k \in Keys |-> None]
    /\ crashes = 0 /\ lost = 0

(* _preflight_image_mutation: a used key or an allowed mutation goes on.    *)
CanStage(u) == record[KeyOf[u]] # None \/ Allowed(u)

Preflight(u) ==
    /\ pc[u] = "start" /\ ~ProjectLocked
    /\ Goto(u, IF CanStage(u) THEN "staging" ELSE "rejected")
    /\ UNCHANGED <<tx, base, refs, objects, rows, bounds>>

(* stage_upload and validate_image_file.                                    *)
Stage(u) ==
    /\ pc[u] = "staging"
    /\ \E l \in {"staged", "rejected", "failed"} : Goto(u, l)
    /\ UNCHANGED <<tx, base, refs, objects, rows, bounds>>

(* claim_upload_command: INSERT ON CONFLICT DO NOTHING waits for another    *)
(* uncommitted claim of the key.  Faulty variant: it does not wait.         *)
CanClaimUnarbitrated(u) == record[KeyOf[u]] = None

CanClaim(u) == record[KeyOf[u]] = None /\ ~KeyClaimed(KeyOf[u])

Claim(u) ==
    /\ pc[u] = "staged"
    /\ CanClaim(u)
    /\ tx' = [tx EXCEPT ![u] = "open"]
    /\ Goto(u, "claimed")
    /\ UNCHANGED <<base, refs, objects, rows, bounds>>

(* A completed claim is replayed; a different payload is a reused key.      *)
(* Faulty variant: the payload is not compared.                             *)
AnswerAnyPayload(u) == "replayed"

Answer(u) ==
    IF PayloadOf[record[KeyOf[u]]] = PayloadOf[u] THEN "replayed" ELSE "rejected"

Replay(u) ==
    /\ pc[u] = "staged"
    /\ record[KeyOf[u]] # None
    /\ Goto(u, Answer(u))
    /\ UNCHANGED <<tx, base, refs, objects, rows, bounds>>

(* get_owned_project FOR UPDATE and the decision under the lock.            *)
(* Faulty variant: the row is not locked.                                   *)
CanLockUnlocked(u) == pc[u] = "claimed"

CanLock(u) == pc[u] = "claimed" /\ ~ProjectLocked

LockProject(u) ==
    /\ CanLock(u)
    /\ Allowed(u)
    /\ tx' = [tx EXCEPT ![u] = "locked"]
    /\ base' = [base EXCEPT ![u] = current[RoleOf[u]]]
    /\ Goto(u, "locked")
    /\ UNCHANGED <<refs, objects, rows, bounds>>

(* Faulty variant: the transaction is left open.                            *)
RejectMutationHolding(u) ==
    /\ CanLock(u)
    /\ ~Allowed(u)
    /\ Goto(u, "rejected")
    /\ UNCHANGED <<tx, base, refs, objects, rows, bounds>>

RejectMutation(u) ==
    /\ CanLock(u)
    /\ ~Allowed(u)
    /\ EndTx(u)
    /\ Goto(u, "rejected")
    /\ UNCHANGED <<base, refs, objects, rows, bounds>>

(* lock_timeout or statement_timeout while it waits for a lock.             *)
LockTimeout(u) ==
    /\ \/ pc[u] = "start" /\ ProjectLocked
       \/ pc[u] = "staged" /\ KeyClaimed(KeyOf[u])
       \/ pc[u] = "claimed" /\ ProjectLocked
    /\ EndTx(u)
    /\ Goto(u, "failed")
    /\ UNCHANGED <<base, refs, objects, rows, bounds>>

(* put_from_temp, inside the transaction.                                   *)
Publish(u) ==
    /\ pc[u] = "locked"
    /\ objects' = objects \cup {u}
    /\ Goto(u, "published")
    /\ UNCHANGED <<tx, base, refs, rows, bounds>>

(* It raises without a receipt: a collision, or an error before or after    *)
(* the object became visible (fsync, a PUT answered late).                  *)
PublishFails(u) ==
    /\ pc[u] = "locked"
    /\ objects' \in {objects, objects \cup {u}}
    /\ EndTx(u)
    /\ Goto(u, "failed")
    /\ UNCHANGED <<base, refs, rows, bounds>>

(* The rows the transaction writes: supersede the current asset, insert the *)
(* new one, move the project, complete the idempotency record.              *)
NewVersion(u) == IF base[u] = None THEN 1 ELSE version[base[u]] + 1

WriteRows(u) ==
    /\ version' = [version EXCEPT ![u] = NewVersion(u)]
    /\ current' = [current EXCEPT ![RoleOf[u]] = u]
    /\ IF RoleOf[u] = Primary
       THEN projectImage' = u /\ status' = "IMAGE_UPLOADED"
       ELSE UNCHANGED <<projectImage, status>>
    /\ record' = [record EXCEPT ![KeyOf[u]] = u]

Commit(u) ==
    /\ pc[u] = "published"
    /\ WriteRows(u)
    /\ EndTx(u)
    /\ Goto(u, "created")
    /\ UNCHANGED <<base, refs, objects, bounds>>

(* An error before or in COMMIT, with the transaction rolled back.          *)
(* Faulty variant: the error is taken for a lost answer of a success.       *)
AfterRollbackOptimistic(u) == "created"

AfterRollback(u) == "compensating"

Rollback(u) ==
    /\ pc[u] = "published"
    /\ EndTx(u)
    /\ Goto(u, AfterRollback(u))
    /\ UNCHANGED <<base, refs, objects, rows, bounds>>

(* The connection breaks after COMMIT was sent: the server decides later.   *)
CommitUnanswered(u) ==
    /\ pc[u] = "published"
    /\ lost < MaxLost
    /\ lost' = lost + 1
    /\ Goto(u, "compensating")
    /\ UNCHANGED <<tx, base, refs, objects, rows, crashes>>

InDoubt(u) == tx[u] = "locked" /\ pc[u] \notin {"locked", "published"}

ServerCommits(u) ==
    /\ InDoubt(u)
    /\ WriteRows(u)
    /\ EndTx(u)
    /\ UNCHANGED <<pc, base, refs, objects, bounds>>

ServerAborts(u) ==
    /\ InDoubt(u)
    /\ EndTx(u)
    /\ UNCHANGED <<pc, base, refs, objects, rows, bounds>>

-----------------------------------------------------------------------------
(* _compensate: the references are read in a transaction of their own.      *)
ReadReferences(u) ==
    /\ pc[u] = "compensating"
    /\ refs' = [refs EXCEPT ![u] = {v \in Uploads : version[v] # 0}]
    /\ Goto(u, "deleting")
    /\ UNCHANGED <<tx, base, objects, rows, bounds>>

ReferencesUnverified(u) ==
    /\ pc[u] = "compensating"
    /\ Goto(u, "failed")
    /\ UNCHANGED <<tx, base, refs, objects, rows, bounds>>

(* delete_uncommitted.  Faulty variant: the receipt alone authorizes it.    *)
MayDeleteByReceipt(u) == pc[u] = "deleting"

MayDelete(u) == pc[u] = "deleting" /\ u \notin refs[u]

DeleteUncommitted(u) ==
    /\ MayDelete(u)
    /\ objects' = objects \ {u}
    /\ Goto(u, "failed")
    /\ UNCHANGED <<tx, base, refs, rows, bounds>>

(* Refused because of a reference or a changed identity, or failed.         *)
DeleteRefused(u) ==
    /\ pc[u] = "deleting"
    /\ Goto(u, "failed")
    /\ UNCHANGED <<tx, base, refs, objects, rows, bounds>>

(* The worker dies; a transaction that has not sent COMMIT is rolled back.  *)
Crash(u) ==
    /\ pc[u] \notin Ended \cup {"start"}
    /\ crashes < MaxCrashes
    /\ crashes' = crashes + 1
    /\ IF InDoubt(u) THEN UNCHANGED tx ELSE EndTx(u)
    /\ Goto(u, "crashed")
    /\ UNCHANGED <<base, refs, objects, rows, lost>>

Quiescent ==
    /\ \A u \in Uploads : pc[u] \in Ended /\ tx[u] = "none"
    /\ UNCHANGED vars

-----------------------------------------------------------------------------
Step(u) ==
    \/ Preflight(u) \/ Stage(u) \/ Claim(u) \/ Replay(u)
    \/ LockProject(u) \/ RejectMutation(u)
    \/ Publish(u) \/ PublishFails(u) \/ Commit(u) \/ Rollback(u)
    \/ ReadReferences(u) \/ ReferencesUnverified(u)
    \/ DeleteUncommitted(u) \/ DeleteRefused(u)

Server(u) == ServerCommits(u) \/ ServerAborts(u)

Next ==
    \/ \E u \in Uploads :
          Step(u) \/ LockTimeout(u) \/ CommitUnanswered(u) \/ Server(u) \/ Crash(u)
    \/ Quiescent

Spec == Init /\ [][Next]_vars

-----------------------------------------------------------------------------
(* Type invariant, and which transactions belong to which step.             *)
TypeOK ==
    /\ pc \in [Uploads -> {"start", "staging", "staged", "claimed", "locked",
                           "published", "compensating", "deleting"} \cup Ended]
    /\ tx \in [Uploads -> {"none", "open", "locked"}]
    /\ base \in [Uploads -> Uploads \cup {None}]
    /\ refs \in [Uploads -> SUBSET Uploads]
    /\ objects \subseteq Uploads
    /\ version \in [Uploads -> Nat]
    /\ current \in [Roles -> Uploads \cup {None}]
    /\ status \in ReferenceStatuses
    /\ projectImage \in Uploads \cup {None}
    /\ record \in [Keys -> Uploads \cup {None}]
    /\ crashes \in 0..MaxCrashes /\ lost \in 0..MaxLost
    /\ \A u \in Uploads :
          /\ tx[u] = "open" <=> pc[u] = "claimed"
          /\ pc[u] \in {"locked", "published"} => tx[u] = "locked"

(* What the transactions rely on: one of them holds the project, one the    *)
(* key, the key of an open one is unused, and what was read under the lock  *)
(* is still current when it is written.                                     *)
LocksProtect ==
    /\ \A u, v \in Uploads :
          /\ tx[u] = "locked" /\ tx[v] = "locked" => u = v
          /\ tx[u] # "none" /\ tx[v] # "none" /\ KeyOf[u] = KeyOf[v] => u = v
    /\ \A u \in Uploads :
          /\ tx[u] # "none" => record[KeyOf[u]] = None
          /\ tx[u] = "locked" => base[u] = current[RoleOf[u]]
          /\ version[u] # 0 => record[KeyOf[u]] = u
    /\ \A r \in Roles :
          current[r] # None => version[current[r]] # 0 /\ RoleOf[current[r]] = r

(* Versions form one history per role and a retried command adds at most    *)
(* one image, with any number of concurrent uploads.                        *)
LatestOf == [r \in Roles |-> IF current[r] = None THEN 0 ELSE version[current[r]]]

History == INSTANCE ImageHistory WITH
    Images <- Uploads, Commands <- Keys, CommandOf <- KeyOf, latest <- LatestOf

KeepsHistory == History!Spec

(* Failure is never reported as success: an answered upload has its row, or *)
(* is the replay of one with the same payload.                              *)
AnswersAreDurable ==
    \A u \in Uploads :
        /\ pc[u] = "created" => version[u] # 0 /\ record[KeyOf[u]] = u
        /\ pc[u] = "replayed" => /\ record[KeyOf[u]] # None
                                 /\ version[record[KeyOf[u]]] # 0
                                 /\ PayloadOf[record[KeyOf[u]]] = PayloadOf[u]

(* Compensation never deletes an object the database refers to.             *)
ReferencedObjectExists == \A u \in Uploads : version[u] # 0 => u \in objects

(* What holds of it: an asset committed before the compensation looks for   *)
(* references keeps its object for good.                                    *)
CommittedBeforeCompensationSurvives ==
    \A u \in Uploads :
        [](version[u] # 0 /\ pc[u] = "compensating" => [](u \in objects))

(* An object nobody refers to is in the hands of its worker, or its worker  *)
(* failed: refused and replayed requests leave nothing behind.              *)
OrphansComeFromFailures ==
    \A u \in objects :
        version[u] # 0 \/ pc[u] \in {"published", "compensating", "deleting",
                                     "failed", "crashed"}

(* The project's image is its current primary, and it has one exactly when  *)
(* it has left DRAFT.                                                       *)
ProjectFollowsPrimary ==
    /\ projectImage = current[Primary]
    /\ status = "DRAFT" <=> projectImage = None
=============================================================================
