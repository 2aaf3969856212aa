---------------------------- MODULE MCImageUpload ----------------------------
(* One upload of a primary image.                                           *)
EXTENDS ImageUpload

CONSTANTS u1, k1, p1, front, back

AllPrimary == [u \in Uploads |-> front]
OneKey == [u \in Uploads |-> k1]
OneFile == [u \in Uploads |-> p1]
=============================================================================
