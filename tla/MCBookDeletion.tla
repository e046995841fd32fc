--------------------------- MODULE MCBookDeletion ---------------------------
(* Instances of BookDeletion for TLC. *)
EXTENDS BookDeletion, TLC

CONSTANTS b1, b2
=============================================================================
