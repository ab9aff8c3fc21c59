---------------------------- MODULE AtomicFile ----------------------------
(***************************************************************************)
(* What the state file promises its users, several processes at once: a    *)
(* Save replaces the whole file in one step or leaves it as it was, a Load *)
(* answers with something that the file held while the Load was running,   *)
(* and a power cut leaves the file, or what was known to be on disk.       *)
(*                                                                         *)
(* excuse is TRUE while the promise is suspended.                          *)
(***************************************************************************)
CONSTANTS
  P,         \* processes
  Contents,  \* what a file may hold, no file included
  None       \* no value

VARIABLES
  file,    \* what the file holds
  stable,  \* what is known to be on disk
  wanted,  \* what the Save of a process is to store, None outside a Save
  look,    \* what the file has held since the Load of a process began
  answer,  \* the answer of the last Load
  excuse

fileVars == <<file, stable, wanted, look, answer>>

AtomicInit ==
  /\ file = None /\ stable = None
  /\ wanted = [p \in P |-> None]
  /\ look = [p \in P |-> {}]
  /\ answer = [p \in P |-> None]

\* Whoever is loading sees the new file too.
Seen == [q \in P |-> IF look[q] = {} THEN {} ELSE look[q] \cup {file'}]

BeginSave(p) ==
  /\ wanted[p] = None
  /\ \E v \in Contents \ {None} : wanted' = [wanted EXCEPT ![p] = v]
  /\ UNCHANGED <<file, stable, look, answer>>

\* The Save succeeds.
Replace(p) ==
  /\ wanted[p] # None
  /\ file' = wanted[p]
  /\ wanted' = [wanted EXCEPT ![p] = None]
  /\ look' = Seen
  /\ UNCHANGED <<stable, answer>>

\* The Save fails: nothing has happened.
GiveUp(p) ==
  /\ wanted[p] # None
  /\ wanted' = [wanted EXCEPT ![p] = None]
  /\ UNCHANGED <<file, stable, look, answer>>

BeginLoad(p) ==
  /\ look' = [look EXCEPT ![p] = {file}]
  /\ answer' = [answer EXCEPT ![p] = None]
  /\ UNCHANGED <<file, stable, wanted>>

EndLoad(p) ==
  /\ \E v \in look[p] : answer' = [answer EXCEPT ![p] = v]
  /\ look' = [look EXCEPT ![p] = {}]
  /\ UNCHANGED <<file, stable, wanted>>

\* The Load fails and answers nothing.
FailLoad(p) ==
  /\ look' = [look EXCEPT ![p] = {}]
  /\ UNCHANGED <<file, stable, wanted, answer>>

\* A process that dies gives up what it was doing.
Die(p) ==
  /\ wanted' = [wanted EXCEPT ![p] = None]
  /\ look' = [look EXCEPT ![p] = {}]
  /\ answer' = [answer EXCEPT ![p] = None]
  /\ UNCHANGED <<file, stable>>

Settle ==
  /\ stable' = file
  /\ UNCHANGED <<file, wanted, look, answer>>

PowerCut ==
  /\ file' \in {file, stable} /\ stable' = file'
  /\ wanted' = [p \in P |-> None]
  /\ look' = [p \in P |-> {}]
  /\ answer' = [p \in P |-> None]

AtomicNext ==
  \/ excuse \/ excuse'
  \/ Settle \/ PowerCut
  \/ \E p \in P : \/ BeginSave(p) \/ Replace(p) \/ GiveUp(p)
                  \/ BeginLoad(p) \/ EndLoad(p) \/ FailLoad(p) \/ Die(p)

AtomicSpec == AtomicInit /\ [][AtomicNext]_fileVars

=============================================================================
