------------------------- MODULE KeyRotationProofs -------------------------
(***************************************************************************)
(* Theorems about the change of keys, for any keys, any number of writes,  *)
(* calls, failed saves and crashes.                                        *)
(***************************************************************************)
EXTENDS KeyRotation, TLAPS

USE KeyAssumption

-----------------------------------------------------------------------------
(***************************************************************************)
(* The invariant.                                                          *)
(***************************************************************************)

\* Unless ChangeKeys overlap, one is under way at most, and the key of the
\* engine is one that the application has reason to try: the new one from
\* UpdateKey on, which is in the state file when the call is about to succeed.
OneCall ==
  ~overlap => \A c, d \in Callers : pc[c] # "idle" /\ pc[d] # "idle" => c = d

EngineBelieved ==
  ~overlap /\ up =>
    /\ engine \in believed
    /\ \A c \in Callers : pc[c] # "idle" => newKey[c] \in believed

NewKeySet ==
  ~overlap => \A c \in Callers :
    /\ pc[c] = "configured" => config = newKey[c]
    /\ pc[c] \in {"updated", "flush", "clear"} => engine = newKey[c]
    /\ pc[c] = "clear" => file.key = newKey[c]

\* The configuration and the engine differ only between their assignments, and
\* an export keeps the configuration as it is.
ConfigAgrees ==
  /\ ~overlap /\ up => config = engine \/ \E c \in Callers : pc[c] = "configured"
  /\ export # NoKey => export = config

\* Where the writes are that are to survive.
KeptSomewhere ==
  /\ up => kept \subseteq data
  /\ \A i \in kept : [key |-> logKey, id |-> i] \in log \/ i \in file.writes
  /\ ~overlap /\ file.key \notin {NoKey, logKey} => kept \subseteq file.writes
  /\ \A c \in Callers : pc[c] = "clear" => file.key # NoKey
  /\ file.key = NoKey => acked = logKey

IInv ==
  /\ TypeOK /\ OneCall /\ EngineBelieved /\ NewKeySet /\ ConfigAgrees
  /\ KeptSomewhere /\ SomeKeyOpens

Parts ==
  /\ OneCall /\ EngineBelieved /\ NewKeySet /\ ConfigAgrees /\ KeptSomewhere
  /\ SomeKeyOpens

\* The invariant holds at first.
LEMMA InitIInv == Init => IInv
<1> SUFFICES ASSUME Init PROVE IInv
  OBVIOUS
<1>1. TypeOK
  <2>1. /\ pc \in [Callers -> {"idle", "checked", "configured", "updated", "flush", "clear"}]
        /\ newKey \in [Callers -> Keys \cup {NoKey}]
        /\ \A c \in Callers : pc[c] = "idle" /\ newKey[c] = NoKey
    BY DEF Init
  <2>2. file \in [key : Keys \cup {NoKey}, writes : SUBSET Ids] /\ log \subseteq [key : Keys, id : Ids]
    BY DEF Init
  <2>3. /\ writes \in 0 .. MaxWrites /\ calls \in 0 .. MaxCalls
        /\ fails \in 0 .. MaxFails /\ crashes \in 0 .. MaxCrashes
    BY DEF Init
  <2> QED BY <2>1, <2>2, <2>3 DEF Init, TypeOK
<1>2. Parts
  BY DEF Init, Parts, OneCall, EngineBelieved, NewKeySet, ConfigAgrees,
     KeptSomewhere, SomeKeyOpens
<1> QED BY <1>1, <1>2 DEF IInv, Parts

\* Every step keeps the types.
LEMMA StepTypeOK == TypeOK /\ [Next]_vars => TypeOK'
<1> SUFFICES ASSUME TypeOK, [Next]_vars PROVE TypeOK'
  OBVIOUS
<1>1. CASE Write
  BY <1>1 DEF Write, memVars, diskVars, callVars, counters, history, TypeOK, Ids
<1>2. CASE PeriodicSave
  BY <1>2 DEF PeriodicSave, Saved, SaveFailed, memVars, diskVars, callVars, counters, history, TypeOK, Ids
<1>3. CASE PeriodicClear
  BY <1>3 DEF PeriodicClear, Saved, memVars, diskVars, callVars, counters, history, TypeOK, Ids
<1>4. ASSUME NEW c \in Callers, CheckKey(c) PROVE TypeOK'
  BY <1>4 DEF CheckKey, Goto, memVars, diskVars, callVars, counters, history, TypeOK, Ids
<1>5. ASSUME NEW c \in Callers, SetConfig(c) PROVE TypeOK'
  BY <1>5 DEF SetConfig, Goto, memVars, diskVars, callVars, counters, history, TypeOK, Ids
<1>6. ASSUME NEW c \in Callers, SetEngine(c) PROVE TypeOK'
  BY <1>6 DEF SetEngine, Goto, memVars, diskVars, callVars, counters, history, TypeOK, Ids
<1>7. ASSUME NEW c \in Callers, MarkDirty(c) PROVE TypeOK'
  BY <1>7 DEF MarkDirty, Goto, memVars, diskVars, callVars, counters, history, TypeOK, Ids
<1>8. ASSUME NEW c \in Callers, Flush(c) PROVE TypeOK'
  BY <1>8 DEF Flush, Goto, Saved, memVars, diskVars, callVars, counters, history, TypeOK, Ids
<1>9. ASSUME NEW c \in Callers, FlushFails(c) PROVE TypeOK'
  BY <1>9 DEF FlushFails, Goto, SaveFailed, memVars, diskVars, callVars, counters, history, TypeOK, Ids
<1>10. ASSUME NEW c \in Callers, ClearAndReturn(c) PROVE TypeOK'
  BY <1>10 DEF ClearAndReturn, Goto, Saved, memVars, diskVars, callVars, counters, history, TypeOK, Ids
<1>11. CASE ExportBegin
  BY <1>11 DEF ExportBegin, memVars, diskVars, callVars, counters, history, TypeOK, Ids
<1>12. CASE ExportEnd
  BY <1>12 DEF ExportEnd, memVars, diskVars, callVars, counters, history, TypeOK, Ids
<1>13. CASE Crash
  <2>1. /\ pc' = [c \in Callers |-> "idle"] /\ newKey' = [c \in Callers |-> NoKey]
        /\ up' = FALSE /\ saver' = "idle" /\ export' = NoKey
    BY <1>13 DEF Crash
  <2>2. crashes' \in 0 .. MaxCrashes
    BY <1>13 DEF Crash, TypeOK
  <2> QED BY <1>13, <2>1, <2>2 DEF Crash, diskVars, history, TypeOK
<1>14. ASSUME NEW k \in Keys, Reopen(k) PROVE TypeOK'
  <2>1. data' \subseteq Ids
    BY <1>14 DEF Reopen, Recovered, TypeOK
  <2>2. /\ up' = TRUE /\ config' = k /\ engine' = k /\ logKey' = k /\ dirty' = FALSE
        /\ acked' = k /\ believed' = {k} /\ kept' = data'
        /\ overlap' = FALSE
        /\ UNCHANGED <<file, log, pc, newKey, saver, export, writes, calls, fails, crashes>>
    BY <1>14 DEF Reopen, diskVars, callVars, counters
  <2> QED BY <2>1, <2>2 DEF TypeOK
<1>15. CASE UNCHANGED vars
  BY <1>15 DEF vars, memVars, diskVars, callVars, counters, history, TypeOK, Ids
<1> QED BY <1>1, <1>2, <1>3, <1>4, <1>5, <1>6, <1>7, <1>8, <1>9, <1>10, <1>11, <1>12, <1>13, <1>14, <1>15 DEF Next, ChangeKeyStep

\* Every step keeps the rest of it.
LEMMA StepParts == IInv /\ TypeOK' /\ [Next]_vars => Parts'
<1> SUFFICES ASSUME IInv, TypeOK', [Next]_vars PROVE Parts'
  OBVIOUS
<1> USE DEF IInv
<1>1. CASE Write
  <2>1. OneCall'
    BY <1>1 DEF Write, memVars, diskVars, callVars, counters, history, TypeOK, OneCall
  <2>2. EngineBelieved'
    BY <1>1 DEF Write, memVars, diskVars, callVars, counters, history, TypeOK, EngineBelieved
  <2>3. NewKeySet'
    BY <1>1 DEF Write, memVars, diskVars, callVars, counters, history, TypeOK, NewKeySet, OneCall
  <2>4. ConfigAgrees'
    BY <1>1 DEF Write, memVars, diskVars, callVars, counters, history, TypeOK, ConfigAgrees
  <2>5. KeptSomewhere'
    BY <1>1 DEF Write, memVars, diskVars, callVars, counters, history, TypeOK, KeptSomewhere, SomeKeyOpens
  <2>6. SomeKeyOpens'
    BY <1>1 DEF Write, memVars, diskVars, callVars, counters, history, TypeOK, SomeKeyOpens
  <2> QED BY <2>1, <2>2, <2>3, <2>4, <2>5, <2>6 DEF Parts
<1>2. CASE PeriodicSave
  BY <1>2 DEF PeriodicSave, Saved, SaveFailed, memVars, diskVars, callVars, counters, history, Parts, TypeOK, OneCall, EngineBelieved, NewKeySet, ConfigAgrees, KeptSomewhere, SomeKeyOpens
<1>3. CASE PeriodicClear
  BY <1>3 DEF PeriodicClear, Saved, memVars, diskVars, callVars, counters, history, Parts, TypeOK, OneCall, EngineBelieved, NewKeySet, ConfigAgrees, KeptSomewhere, SomeKeyOpens
<1>4. ASSUME NEW c \in Callers, CheckKey(c) PROVE Parts'
  <2>1. OneCall'
    BY <1>4 DEF CheckKey, Goto, memVars, diskVars, callVars, counters, history, TypeOK, OneCall
  <2>2. EngineBelieved'
    BY <1>4 DEF CheckKey, Goto, memVars, diskVars, callVars, counters, history, TypeOK, EngineBelieved
  <2>3. NewKeySet'
    BY <1>4 DEF CheckKey, Goto, memVars, diskVars, callVars, counters, history, TypeOK, NewKeySet, OneCall
  <2>4. ConfigAgrees'
    BY <1>4 DEF CheckKey, Goto, memVars, diskVars, callVars, counters, history, TypeOK, ConfigAgrees
  <2>5. KeptSomewhere'
    BY <1>4 DEF CheckKey, Goto, memVars, diskVars, callVars, counters, history, TypeOK, KeptSomewhere
  <2>6. SomeKeyOpens'
    BY <1>4 DEF CheckKey, Goto, memVars, diskVars, callVars, counters, history, TypeOK, SomeKeyOpens
  <2> QED BY <2>1, <2>2, <2>3, <2>4, <2>5, <2>6 DEF Parts
<1>5. ASSUME NEW c \in Callers, SetConfig(c) PROVE Parts'
  BY <1>5 DEF SetConfig, Goto, memVars, diskVars, callVars, counters, history, Parts, TypeOK, OneCall, EngineBelieved, NewKeySet, ConfigAgrees, KeptSomewhere, SomeKeyOpens
<1>6. ASSUME NEW c \in Callers, SetEngine(c) PROVE Parts'
  BY <1>6 DEF SetEngine, Goto, memVars, diskVars, callVars, counters, history, Parts, TypeOK, OneCall, EngineBelieved, NewKeySet, ConfigAgrees, KeptSomewhere, SomeKeyOpens
<1>7. ASSUME NEW c \in Callers, MarkDirty(c) PROVE Parts'
  BY <1>7 DEF MarkDirty, Goto, memVars, diskVars, callVars, counters, history, Parts, TypeOK, OneCall, EngineBelieved, NewKeySet, ConfigAgrees, KeptSomewhere, SomeKeyOpens
<1>8. ASSUME NEW c \in Callers, Flush(c) PROVE Parts'
  BY <1>8 DEF Flush, Goto, Saved, memVars, diskVars, callVars, counters, history, Parts, TypeOK, OneCall, EngineBelieved, NewKeySet, ConfigAgrees, KeptSomewhere, SomeKeyOpens
<1>9. ASSUME NEW c \in Callers, FlushFails(c) PROVE Parts'
  BY <1>9 DEF FlushFails, Goto, SaveFailed, memVars, diskVars, callVars, counters, history, Parts, TypeOK, OneCall, EngineBelieved, NewKeySet, ConfigAgrees, KeptSomewhere, SomeKeyOpens
<1>10. ASSUME NEW c \in Callers, ClearAndReturn(c) PROVE Parts'
  BY <1>10 DEF ClearAndReturn, Goto, Saved, memVars, diskVars, callVars, counters, history, Parts, TypeOK, OneCall, EngineBelieved, NewKeySet, ConfigAgrees, KeptSomewhere, SomeKeyOpens
<1>11. CASE ExportBegin
  BY <1>11 DEF ExportBegin, memVars, diskVars, callVars, counters, history, Parts, TypeOK, OneCall, EngineBelieved, NewKeySet, ConfigAgrees, KeptSomewhere, SomeKeyOpens
<1>12. CASE ExportEnd
  BY <1>12 DEF ExportEnd, memVars, diskVars, callVars, counters, history, Parts, TypeOK, OneCall, EngineBelieved, NewKeySet, ConfigAgrees, KeptSomewhere, SomeKeyOpens
<1>13. CASE Crash
  BY <1>13 DEF Crash, memVars, diskVars, callVars, counters, history, Parts, TypeOK, OneCall, EngineBelieved, NewKeySet, ConfigAgrees, KeptSomewhere, SomeKeyOpens
<1>14. ASSUME NEW k \in Keys, Reopen(k) PROVE Parts'
  BY <1>14 DEF Reopen, Opens, Recovered, memVars, diskVars, callVars, counters, history, Parts, TypeOK, OneCall, EngineBelieved, NewKeySet, ConfigAgrees, KeptSomewhere, SomeKeyOpens
<1>15. CASE UNCHANGED vars
  BY <1>15 DEF vars, memVars, diskVars, callVars, counters, history, Parts, TypeOK, OneCall, EngineBelieved, NewKeySet, ConfigAgrees, KeptSomewhere, SomeKeyOpens
<1> QED BY <1>1, <1>2, <1>3, <1>4, <1>5, <1>6, <1>7, <1>8, <1>9, <1>10, <1>11, <1>12, <1>13, <1>14, <1>15 DEF Next, ChangeKeyStep

\* The invariant of the specification.
LEMMA Invariance == Spec => []IInv
<1>1. IInv /\ [Next]_vars => IInv'
  BY StepTypeOK, StepParts DEF IInv, Parts
<1> QED BY <1>1, InitIInv, PTL DEF Spec

-----------------------------------------------------------------------------
(***************************************************************************)
(* Theorems.                                                               *)
(***************************************************************************)

\* Type correctness: every variable keeps its type, and a process that is down
\* has no ChangeKey, save or export under way.
THEOREM TypeCorrect == Spec => []TypeOK
<1>1. IInv => TypeOK
  BY DEF IInv
<1> QED BY <1>1, Invariance, PTL

\* Wherever ChangeKey fails or the process dies, the state file opens with a
\* key that the application has reason to try.
THEOREM StateFileOpens == Spec => []SomeKeyOpens
<1>1. IInv => SomeKeyOpens
  BY DEF IInv
<1> QED BY <1>1, Invariance, PTL

\* A key that is set in the engine and not yet in the state file is forgotten
\* only by a periodic save that clears the mark of a later ChangeKey, or by
\* ChangeKeys that overlap: not by failed saves, crashes or starts, nor by the
\* clear that ends a ChangeKey of its own.
THEOREM OnlyLateClears == Spec => OnlyLateClearsStrand
<1>1. IInv /\ [Next]_vars
        => [Stranded' /\ ~Stranded
              => PeriodicClear \/ (overlap /\ \E c \in Callers : ClearAndReturn(c))]_vars
  <2> SUFFICES ASSUME IInv, Next, Stranded', ~Stranded
               PROVE  PeriodicClear \/ (overlap /\ \E c \in Callers : ClearAndReturn(c))
    OBVIOUS
  <2> USE DEF IInv, Stranded
  <2>1. CASE Write
    BY <2>1 DEF Write, memVars, callVars
  <2>2. CASE PeriodicSave
    BY <2>2 DEF PeriodicSave, Saved, memVars
  <2>3. ASSUME NEW c \in Callers, CheckKey(c) PROVE FALSE
    BY <2>3 DEF CheckKey, Goto, memVars, diskVars, TypeOK
  <2>4. ASSUME NEW c \in Callers, SetConfig(c) PROVE FALSE
    BY <2>4 DEF SetConfig, Goto, diskVars, TypeOK
  <2>5. ASSUME NEW c \in Callers, SetEngine(c) PROVE FALSE
    BY <2>5 DEF SetEngine, Goto, diskVars, TypeOK
  <2>6. ASSUME NEW c \in Callers, MarkDirty(c) PROVE FALSE
    BY <2>6 DEF MarkDirty, Goto
  <2>7. ASSUME NEW c \in Callers, Flush(c) PROVE FALSE
    BY <2>7 DEF Flush, Goto, Saved, memVars
  <2>8. ASSUME NEW c \in Callers, FlushFails(c) PROVE FALSE
    BY <2>8 DEF FlushFails, Goto, memVars, diskVars, TypeOK
  <2>9. ASSUME NEW c \in Callers, ClearAndReturn(c), ~overlap PROVE FALSE
    <3>1. engine = newKey[c] /\ file.key = newKey[c]
      BY <2>9 DEF ClearAndReturn, Goto, NewKeySet
    <3> QED BY <2>9, <3>1 DEF ClearAndReturn, diskVars
  <2>10. CASE ExportBegin \/ ExportEnd
    BY <2>10 DEF ExportBegin, ExportEnd, memVars, diskVars
  <2>11. CASE Crash
    BY <2>11 DEF Crash
  <2>12. ASSUME NEW k \in Keys, Reopen(k) PROVE FALSE
    BY <2>12 DEF Reopen, Opens, diskVars
  <2> QED
    BY <2>1, <2>2, <2>3, <2>4, <2>5, <2>6, <2>7, <2>8, <2>9, <2>10, <2>11, <2>12
    DEF Next, ChangeKeyStep
<1> QED BY <1>1, Invariance, PTL DEF Spec, OnlyLateClearsStrand

\* Writes answered while the only key was that of the log survive any step of
\* ChangeKey, whichever of the keys opens the database.
THEOREM RotationKeepsWrites == Spec => KeptSurvives
<1>1. IInv /\ [Next]_vars
        => [\A k \in Keys : Reopen(k) /\ ~overlap => kept \subseteq data']_vars
  <2> SUFFICES ASSUME IInv, NEW k \in Keys, Reopen(k), ~overlap
               PROVE  kept \subseteq data'
    OBVIOUS
  <2> USE DEF IInv, KeptSomewhere
  <2>1. data' = Recovered(k) /\ file.key \in {NoKey, k} /\ (k = acked \/ ~Opens(acked))
    BY DEF Reopen, Opens
  <2>2. CASE k = logKey
    <3> SUFFICES ASSUME NEW i \in kept, i \notin file.writes PROVE i \in Recovered(k)
      BY <2>1 DEF Recovered
    <3>1. [key |-> k, id |-> i] \in {r \in log : r.key = k}
      BY <2>2
    <3> QED BY <3>1 DEF Recovered
  <2>3. CASE k # logKey
    <3>1. file.key # NoKey
      BY <2>1, <2>3 DEF Opens
    <3> QED BY <2>1, <2>3, <3>1 DEF Recovered
  <2> QED BY <2>2, <2>3
<1> QED BY <1>1, Invariance, PTL DEF Spec, KeptSurvives

\* An export is under the key its caller has shown, but for one that begins
\* between the two assignments of ChangeKey.
THEOREM ExportsUnderCallersKey == Spec => ExportUnderCallersKey
<1>1. IInv /\ [Next]_vars
        => [ExportEnd /\ ~overlap /\ (\A c \in Callers : pc[c] # "configured")
              => engine = export]_vars
  BY DEF IInv, TypeOK, ConfigAgrees, ExportEnd
<1> QED BY <1>1, Invariance, PTL DEF Spec, ExportUnderCallersKey

=============================================================================
