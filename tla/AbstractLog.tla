---------------------------- MODULE AbstractLog ----------------------------
(***************************************************************************)
(* What the write-ahead log promises to its user: an append-only sequence  *)
(* whose entries become durable in the order in which they were accepted.  *)
(* A crash keeps a prefix of what is in the log, never less than what was  *)
(* durable, never with a gap or a change of order.  An entry may be given  *)
(* up only before it is durable, and only with an excuse: an entry of its  *)
(* batch cannot be written, or the file is gone.                           *)
(***************************************************************************)
EXTENDS Naturals, Sequences, SequencesExt

\* Entries are numbered in order of acceptance, so a log in order is known by
\* the set of its entries.
InOrder(s) == \A i, j \in DOMAIN s : i < j => s[i] < s[j]

VARIABLES
  log,       \* the accepted entries that still exist, in order of acceptance
  stable,    \* how many of them are durable
  accepted,  \* how many entries have been accepted
  alive,     \* the process is running
  excuse     \* entries may be given up; the environment decides when

logVars == <<log, stable, accepted, alive>>

LogInit == log = <<>> /\ stable = 0 /\ accepted = 0 /\ alive = TRUE

Accept ==
  /\ alive
  /\ accepted' = accepted + 1
  /\ log' = Append(log, accepted')
  /\ UNCHANGED <<stable, alive>>

\* Some entries are given up, and some of the others become durable.
Persist ==
  /\ alive
  /\ \E given \in SUBSET {log[i] : i \in stable + 1 .. Len(log)} :
       /\ given # {} => excuse
       /\ ToSet(log') = ToSet(log) \ given /\ InOrder(log')
  /\ stable' \in stable .. Len(log')
  /\ UNCHANGED <<accepted, alive>>

Crash ==
  /\ alive
  /\ alive' = FALSE
  /\ \E k \in stable .. Len(log) : log' = SubSeq(log, 1, k) /\ stable' = k
  /\ UNCHANGED accepted

LogNext == Accept \/ Persist \/ Crash

LogSpec == LogInit /\ [][LogNext]_logVars

=============================================================================
