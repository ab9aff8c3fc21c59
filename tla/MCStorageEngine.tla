-------------------------- MODULE MCStorageEngine --------------------------
(***************************************************************************)
(* StorageEngine for TLC: two processes, each saving and loading.          *)
(***************************************************************************)
EXTENDS StorageEngine, TLC

AllFaults == {"fails", "dies", "powerCut"}
NoFaults  == {}
Coarse    == {"coarse"}
PowerOnly == {"powerCut"}

=============================================================================
