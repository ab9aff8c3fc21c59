------------------------------- MODULE MCWAL -------------------------------
(***************************************************************************)
(* WAL for TLC: a channel of one or two slots and a rotation limit of one  *)
(* entry, so that the channel fills and rotation happens with entries in   *)
(* every stage of the pipeline.                                            *)
(***************************************************************************)
EXTENDS WAL

NoBad  == {}
Bad2   == {2}

CallFeatures ==
  {"sync", "truncate", "close", "closeBuffer", "closeTimeout", "filesFail", "drainTimeouts"}

=============================================================================
