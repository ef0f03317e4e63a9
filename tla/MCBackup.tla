------------------------------ MODULE MCBackup ------------------------------
(* Backup for TLC. *)
EXTENDS Backup
=============================================================================
