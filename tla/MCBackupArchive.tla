-------------------------- MODULE MCBackupArchive --------------------------
(* Instances of BackupArchive for TLC. *)
EXTENDS BackupArchive

CONSTANTS b1, b2
===========================================================================
