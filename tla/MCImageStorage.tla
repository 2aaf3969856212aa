---------------------------- MODULE MCImageStorage ----------------------------
(* Small instances of ImageStorage: u1 and u2 repeat the command of a       *)
(* primary image and u3 competes with them; u4 and u5 are two versions of a *)
(* reference image, of which u5 reuses the key of u1 for another file.      *)
EXTENDS ImageStorage, TLC

CONSTANTS u1, u2, u3, u4, u5, k1, k2, p1, p2, front, back, r1, r2

MCRoleOf == [u \in Uploads |-> IF u \in {u4, u5} THEN back ELSE front]
MCKeyOf == [u \in Uploads |-> IF u \in {u3, u4} THEN k2 ELSE k1]
MCPayloadOf == [u \in Uploads |-> IF u = u5 THEN p2 ELSE p1]

(* The API that takes u4 is still configured for local files.               *)
MCStoreOf == [u \in Uploads |-> IF u = u4 THEN "local_filesystem" ELSE "s3"]

(* Uploads alone; or one to each store while the tools run.                 *)
MCScenarios == {[uploads |-> {u1, u2, u3}, tools |-> FALSE],
                [uploads |-> {u1, u4, u5}, tools |-> FALSE],
                [uploads |-> {u1, u4}, tools |-> TRUE]}
=============================================================================
