------------------------------ MODULE MCBackup ------------------------------
(***************************************************************************)
(* Backup for TLC: two backups are kept of four, and the local clock may   *)
(* step back.                                                              *)
(***************************************************************************)
EXTENDS Backup

AnyClock == {"fails", "sameSecond", "stepsBack"}

=============================================================================
