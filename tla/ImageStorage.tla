---------------------------- MODULE ImageStorage ----------------------------
(* The operator's tools beside the uploads: the copy of local files into    *)
(* the S3 bucket, the backup of rows and bucket, and its restore into a     *)
(* fresh environment.  The tools ask for a quiesced API but cannot check    *)
(* it, so here uploads go on while they run.                                *)
(*                                                                          *)
(* An object of ImageUpload lies in the store of the API process that took  *)
(* the upload.  A tool may stop at any step: it dies, a store or database   *)
(* error, bytes, schema, signature or version that are not what they should *)
(* be; what it then leaves behind is what the properties are about.         *)
EXTENDS ImageUpload

CONSTANTS
    StoreOf,            \* the configured store of the process of each upload
    Scenarios,          \* which uploads come, and whether the tools run
    Restores,           \* workers that restore, one beside the other
    MaxStops            \* bound: tool runs that stop before their end

ASSUME StorageAssumption ==
    /\ StoreOf \in [Uploads -> {"local_filesystem", "s3"}]
    /\ \A s \in Scenarios : s.uploads \subseteq Uploads /\ s.tools \in BOOLEAN
    /\ MaxStops \in Nat

VARIABLES
    scenario,
    mover,      \* migrate: rows still to move, and the one just copied
    copied,     \* keys it has copied into the bucket
    moved,      \* rows it has pointed at the bucket
    saver,      \* _backup: its step and its partial directory
    backup,     \* the published backup
    target,     \* tables of the database to restore into
    restored,   \* keys in the bucket to restore into
    restorer,   \* restore: the step of each worker and the keys it listed
    stops

tools == <<mover, copied, moved, saver, backup, target, restored, restorer, stops>>
moving == <<mover, copied, moved>>
saving == <<saver, backup>>
restoring == <<target, restored, restorer>>
svars == <<vars, scenario, tools>>

-----------------------------------------------------------------------------
Rows == {u \in Uploads : version[u] # 0}

(* image_assets.storage_provider                                            *)
ProviderOf(u) == IF u \in moved THEN "s3" ELSE StoreOf[u]

Bucket == {u \in objects : StoreOf[u] = "s3"} \cup copied
LocalFiles == {u \in objects : StoreOf[u] = "local_filesystem"}

(* _database_object_inventory                                               *)
Inventory == {u \in Rows : ProviderOf(u) = "s3"}

(* _export_table and _pointer_snapshot, of what an upload writes.           *)
Export == [rows |-> Rows, project |-> projectImage, inventory |-> Inventory,
           bytes |-> {}]

NoBackup == [rows |-> {}, project |-> None, inventory |-> {}, bytes |-> {}]
NothingToMove == [todo |-> {}, at |-> None]
AtRest(step) == [step |-> step, existing |-> {}]

StorageInit ==
    /\ Init
    /\ scenario \in Scenarios
    /\ mover = NothingToMove /\ copied = {} /\ moved = {}
    /\ saver = [step |-> "idle", partial |-> NoBackup]
    /\ backup = NoBackup
    /\ target = "empty" /\ restored = {}
    /\ restorer = [r \in Restores |-> AtRest("idle")]
    /\ stops = 0

-----------------------------------------------------------------------------
(* migrate.  The rows are listed once, the oldest first; a row that is      *)
(* inserted later is left for another run.                                  *)
ListLocalRows ==
    /\ scenario.tools
    /\ mover.todo = {}
    /\ mover' = [todo |-> Rows \ Inventory, at |-> None]
    /\ mover'.todo # {}
    /\ UNCHANGED <<vars, scenario, copied, moved, saving, restoring, stops>>

(* The source is read and verified, then copy_verified_object: an existing  *)
(* key is verified instead of written.                                      *)
CopyVerified(u) ==
    /\ mover.at = None /\ u \in mover.todo
    /\ u \in LocalFiles
    /\ copied' = copied \cup {u}
    /\ mover' = [mover EXCEPT !.at = u]
    /\ UNCHANGED <<vars, scenario, moved, saving, restoring, stops>>

(* The conditional UPDATE.  Faulty variant: it goes before the copy.        *)
MayUpdateUncopied(u) == u \in mover.todo

MayUpdate(u) == u = mover.at

UpdateProvider(u) ==
    /\ MayUpdate(u)
    /\ moved' = IF ProviderOf(u) = "local_filesystem" THEN moved \cup {u} ELSE moved
    /\ mover' = [todo |-> mover.todo \ {u}, at |-> None]
    /\ UNCHANGED <<vars, scenario, copied, saving, restoring, stops>>

MigrationStops ==
    /\ mover.todo # {}
    /\ stops < MaxStops
    /\ stops' = stops + 1
    /\ mover' = NothingToMove
    /\ UNCHANGED <<vars, scenario, copied, moved, saving, restoring>>

-----------------------------------------------------------------------------
(* _backup.  The first comparison of inventory and bucket only refuses what *)
(* the second would, and is BackupStops.  The REPEATABLE READ snapshot:     *)
Snapshot ==
    /\ scenario.tools
    /\ saver.step = "idle" /\ backup = NoBackup
    /\ saver' = [step |-> "downloading", partial |-> Export]
    /\ UNCHANGED <<vars, scenario, moving, backup, restoring, stops>>

(* _download_objects: the bucket is listed, then every object is fetched.   *)
ListBucket ==
    /\ saver.step = "downloading"
    /\ Bucket = saver.partial.inventory
    /\ saver' = [saver EXCEPT !.step = "listed"]
    /\ UNCHANGED <<vars, scenario, moving, backup, restoring, stops>>

Download(u) ==
    /\ saver.step = "listed"
    /\ u \in (saver.partial.inventory \ saver.partial.bytes) \cap Bucket
    /\ saver' = [saver EXCEPT !.partial.bytes = @ \cup {u}]
    /\ UNCHANGED <<vars, scenario, moving, backup, restoring, stops>>

(* The manifest is signed and the directory renamed.  Faulty variant: it is *)
(* renamed while objects are still missing.                                 *)
CanPublishPartial == saver.step = "listed"

CanPublish ==
    /\ saver.step = "listed"
    /\ saver.partial.bytes = saver.partial.inventory

PublishBackup ==
    /\ CanPublish
    /\ saver.partial.rows # {}
    /\ backup' = saver.partial
    /\ saver' = [step |-> "idle", partial |-> NoBackup]
    /\ UNCHANGED <<vars, scenario, moving, restoring, stops>>

(* Refused or failed: the partial directory is removed.                     *)
BackupStops ==
    /\ saver.step # "idle"
    /\ \/ saver.step = "downloading" /\ Bucket # saver.partial.inventory
          /\ UNCHANGED stops
       \/ stops < MaxStops /\ stops' = stops + 1
    /\ saver' = [step |-> "idle", partial |-> NoBackup]
    /\ UNCHANGED <<vars, scenario, moving, backup, restoring>>

-----------------------------------------------------------------------------
(* restore.  The target's tables are empty (or hold the migrations' seed),  *)
(* or exactly the backup, or it is refused.  Faulty variant: a bucket that  *)
(* is not empty is no fresh one.                                            *)
CanRestoreFresh == target = "restored" \/ (target = "empty" /\ restored = {})

CanRestore == target \in {"empty", "restored"} /\ restored \subseteq backup.inventory

StartRestore(r) ==
    /\ restorer[r].step = "idle" /\ backup # NoBackup
    /\ IF CanRestore
       THEN restorer' = [restorer EXCEPT
                ![r] = [step |-> IF target = "empty" THEN "fresh" ELSE "again",
                        existing |-> restored]]
       ELSE restorer' = [restorer EXCEPT ![r] = AtRest("refused")]
    /\ UNCHANGED <<vars, scenario, moving, saving, target, restored, stops>>

Running(r) == restorer[r].step \in {"fresh", "again"}

(* _restore_objects: a key it had listed is verified, another is put with   *)
(* IfNoneMatch, which fails when somebody else has put it since.            *)
RestoreObject(r, u) ==
    /\ Running(r)
    /\ u \in backup.inventory \ restorer[r].existing
    /\ IF u \in restored
       THEN restorer' = [restorer EXCEPT ![r] = AtRest("idle")] /\ UNCHANGED restored
       ELSE /\ restored' = restored \cup {u}
            /\ restorer' = [restorer EXCEPT ![r].existing = @ \cup {u}]
    /\ UNCHANGED <<vars, scenario, moving, saving, target, stops>>

(* One transaction restores every table and compares tables and bucket with *)
(* the backup before it commits; a second one is stopped by the primary     *)
(* keys of the first.  Faulty variant: the rows go first.                   *)
CanCommitEarly(r) == restorer[r].step = "fresh" /\ target = "empty"

CanCommit(r) ==
    /\ restorer[r] = [step |-> "fresh", existing |-> backup.inventory]
    /\ target = "empty" /\ restored = backup.inventory

CommitRestore(r) ==
    /\ CanCommit(r)
    /\ target' = "restored"
    /\ \E step \in {"done", "idle"} :   \* idle: its answer is lost
          restorer' = [restorer EXCEPT ![r] = AtRest(step)]
    /\ UNCHANGED <<vars, scenario, moving, saving, restored, stops>>

(* An exact retry, or the loser of two.                                     *)
EndRestore(r) ==
    /\ Running(r) /\ restorer[r].existing = backup.inventory
    /\ restorer[r].step = "again" \/ target # "empty"
    /\ restorer' = [restorer EXCEPT ![r] =
          AtRest(IF restorer[r].step = "again" /\ target = "restored" THEN "done"
                 ELSE "idle")]
    /\ UNCHANGED <<vars, scenario, moving, saving, target, restored, stops>>

RestoreStops(r) ==
    /\ Running(r)
    /\ stops < MaxStops
    /\ stops' = stops + 1
    /\ restorer' = [restorer EXCEPT ![r] = AtRest("idle")]
    /\ UNCHANGED <<vars, scenario, moving, saving, target, restored>>

(* The restored environment is put to use: it gets rows of its own.         *)
GoLive ==
    /\ target = "restored"
    /\ \E r \in Restores : restorer[r].step = "done"
    /\ target' = "live"
    /\ UNCHANGED <<vars, scenario, moving, saving, restored, restorer, stops>>

-----------------------------------------------------------------------------
Uploading(u) ==
    /\ u \in scenario.uploads
    /\ \/ Step(u) \/ LockTimeout(u) \/ Server(u) \/ Crash(u)
       \/ ~scenario.tools /\ CommitUnanswered(u)
    /\ UNCHANGED <<scenario, tools>>

RestoreStep(r) ==
    \/ StartRestore(r) \/ \E u \in Uploads : RestoreObject(r, u)
    \/ CommitRestore(r) \/ EndRestore(r)

MoverStep ==
    ListLocalRows \/ \E u \in Uploads : CopyVerified(u) \/ UpdateProvider(u)

SaverStep ==
    Snapshot \/ ListBucket \/ (\E u \in Uploads : Download(u)) \/ PublishBackup

StorageQuiescent ==
    /\ \A u \in scenario.uploads : pc[u] \in Ended
    /\ UNCHANGED svars

StorageNext ==
    \/ \E u \in Uploads : Uploading(u)
    \/ MoverStep \/ MigrationStops
    \/ SaverStep \/ BackupStops
    \/ \E r \in Restores : RestoreStep(r) \/ RestoreStops(r)
    \/ GoLive
    \/ StorageQuiescent

StorageSpec == StorageInit /\ [][StorageNext]_svars

(* A request runs until it is answered, the server decides a COMMIT it has  *)
(* received, and a tool that was started goes on; an operator repeats a     *)
(* restore that did not succeed.                                            *)
FairStorageSpec ==
    /\ StorageSpec
    /\ \A u \in Uploads :
          /\ WF_svars(u \in scenario.uploads /\ Step(u) /\ UNCHANGED <<scenario, tools>>)
          /\ WF_svars(u \in scenario.uploads /\ Server(u) /\ UNCHANGED <<scenario, tools>>)
    /\ \A r \in Restores : WF_svars(RestoreStep(r))

-----------------------------------------------------------------------------
(* A row's object is in the store its provider names, also while the row is *)
(* being moved; only a COMMIT in doubt can break that (ReferencedObjectExists). *)
RowsHaveObjects ==
    lost = 0 => \A u \in Rows :
        u \in IF ProviderOf(u) = "s3" THEN Bucket ELSE LocalFiles

(* A published backup is whole although uploads and a migration went on:    *)
(* one state of the rows, with the bytes of every row that is in S3.  And   *)
(* the target's tables are empty, or it has every object of the backup: no  *)
(* stop of a restore, and no second one beside it, leaves rows without      *)
(* their images, and whoever is told of success finds them.                 *)
CopiesAreWhole ==
    /\ backup # NoBackup =>
        /\ backup.project \in backup.rows \cup {None}
        /\ {u \in backup.rows : StoreOf[u] = "s3"} \subseteq backup.bytes
        /\ backup.bytes = backup.inventory /\ backup.bytes \subseteq backup.rows
    /\ target # "empty" => backup.inventory \subseteq restored
    /\ \A r \in Restores : restorer[r].step = "done" => target # "empty"

(* Every upload is answered, whatever its competitors hold or lose.         *)
EveryUploadEnds ==
    \A u \in Uploads : u \in scenario.uploads ~> pc[u] \in Ended

(* Stopped, repeated and competing restores converge: the partial bucket a  *)
(* stopped one leaves behind never refuses the next.                        *)
RestoreConverges == backup # NoBackup ~> target # "empty"
=============================================================================
