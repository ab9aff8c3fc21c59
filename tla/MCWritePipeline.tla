-------------------------- MODULE MCWritePipeline --------------------------
(***************************************************************************)
(* WritePipeline for TLC: three callers over a channel of one slot and a   *)
(* batch limit of two, so that the channel is full, batches are cut by the *)
(* limit and by the ticker, and callers race with Flush and Close.         *)
(***************************************************************************)
EXTENDS WritePipeline

CONSTANTS c1, c2, c3

MCClients == {c1, c2, c3}

=============================================================================
