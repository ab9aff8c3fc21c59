---------------------------- MODULE KeyRotation ----------------------------
(***************************************************************************)
(* Changing the encryption key of a polarysdb database: ChangeKey and      *)
(* ExportEncrypted of database.go, UpdateKey and Save of                   *)
(* modules/storage/engine.go, next to the periodic save, the worker that   *)
(* applies and logs writes, crashes, and the Init that follows.            *)
(*                                                                         *)
(* A running database has three copies of its key: in its configuration,   *)
(* in the storage engine, and in the configuration of the write-ahead log, *)
(* which is made by Init and never changed.  ChangeKey sets the first two  *)
(* under two different mutexes.  Save encrypts, writes and renames under   *)
(* the mutex of the engine and is one step here (module StorageEngine has  *)
(* its parts); log records are durable at once (module WAL has when).      *)
(* Import, Close and the rotation of the log are in module Database.       *)
(***************************************************************************)
EXTENDS Integers

CONSTANTS
  Keys,        \* encryption keys
  FirstKey,    \* that of the first Init
  Callers,     \* goroutines that call ChangeKey
  NoKey,       \* no key: no call, no state file
  MaxWrites,   \* bounds: writes, calls of ChangeKey, failed saves, crashes
  MaxCalls, MaxFails, MaxCrashes

ASSUME KeyAssumption ==
  /\ NoKey \notin Keys /\ FirstKey \in Keys
  /\ {MaxWrites, MaxCalls, MaxFails, MaxCrashes} \subseteq Nat

VARIABLES
  up,       \* the database is open
  config,   \* db.config.EncryptionKey
  engine,   \* db.storage.key
  logKey,   \* db.wal.config.Key
  data,     \* the writes in db.data
  dirty,    \* db.dirtyFlag
  file,     \* the state file: its key and its writes
  log,      \* the records of the log: their keys and writes
  writes,   \* writes so far
  pc,       \* ChangeKey: "idle", "checked", "configured", "updated", "flush", "clear"
  newKey,   \* its argument
  saver,    \* periodicSave: "idle", or "clear" between Save and CompareAndSwap
  export,   \* ExportEncrypted: the key it was called with, or NoKey
  calls, fails, crashes,
  \* history:
  acked,     \* the key of the last ChangeKey that succeeded, or of Init
  believed,  \* keys that the application has reason to try
  overlap,   \* two ChangeKeys have run at a time in this process
  kept       \* writes answered while the only key was that of the log

memVars  == <<up, config, engine, logKey, data, dirty>>
diskVars == <<file, log>>
callVars == <<pc, newKey, saver, export>>
counters == <<writes, calls, fails, crashes>>
history  == <<acked, believed, overlap, kept>>
vars == <<memVars, diskVars, callVars, counters, history>>

Ids == 1 .. MaxWrites

\* Type invariant; a database is closed without calls.
TypeOK ==
  /\ up \in BOOLEAN /\ dirty \in BOOLEAN
  /\ config \in Keys /\ engine \in Keys /\ logKey \in Keys
  /\ data \subseteq Ids
  /\ file \in [key : Keys \cup {NoKey}, writes : SUBSET Ids]
  /\ log \subseteq [key : Keys, id : Ids]
  /\ pc \in [Callers -> {"idle", "checked", "configured", "updated", "flush", "clear"}]
  /\ newKey \in [Callers -> Keys \cup {NoKey}]
  /\ \A c \in Callers : newKey[c] = NoKey <=> pc[c] = "idle"
  /\ saver \in {"idle", "clear"} /\ export \in Keys \cup {NoKey}
  /\ writes \in 0 .. MaxWrites /\ calls \in 0 .. MaxCalls
  /\ fails \in 0 .. MaxFails /\ crashes \in 0 .. MaxCrashes
  /\ acked \in Keys /\ believed \subseteq Keys /\ kept \subseteq Ids
  /\ overlap \in BOOLEAN
  /\ ~up => export = NoKey /\ saver = "idle" /\ \A c \in Callers : pc[c] = "idle"

Init ==
  /\ up = TRUE /\ dirty = FALSE
  /\ config = FirstKey /\ engine = FirstKey /\ logKey = FirstKey
  /\ data = {} /\ log = {}
  /\ file = [key |-> NoKey, writes |-> {}]
  /\ pc = [c \in Callers |-> "idle"] /\ newKey = [c \in Callers |-> NoKey]
  /\ saver = "idle" /\ export = NoKey
  /\ writes = 0 /\ calls = 0 /\ fails = 0 /\ crashes = 0
  /\ acked = FirstKey /\ believed = {FirstKey} /\ overlap = FALSE
  /\ kept = {}

-----------------------------------------------------------------------------
\* The worker stores a write, logs it under the key of the log and answers, all
\* under dataMutex, so not while an export holds its read lock.
Write ==
  /\ up /\ export = NoKey /\ writes < MaxWrites
  /\ writes' = writes + 1
  /\ data' = data \cup {writes'} /\ dirty' = TRUE
  /\ log' = log \cup {[key |-> logKey, id |-> writes']}
  /\ kept' = IF believed = {logKey} THEN kept \cup {writes'} ELSE kept
  /\ UNCHANGED <<up, config, engine, logKey, file, callVars, calls, fails, crashes,
                 acked, believed, overlap>>

-----------------------------------------------------------------------------
(***************************************************************************)
(* Save, for flushToDisk.                                                  *)
(***************************************************************************)

\* Mutant: Save encrypts with the key in the configuration of the log.
SavedLogKey == [key |-> logKey, writes |-> data]

\* What a Save writes now: all the data under the key of the engine.
Saved == [key |-> engine, writes |-> data]

SaveFailed == fails < MaxFails /\ fails' = fails + 1

\* Mutant: nothing is saved unless there are new writes.
PeriodicSaveNewData ==
  /\ up /\ dirty /\ saver = "idle" /\ data # file.writes
  /\ \/ /\ file' = Saved /\ saver' = "clear"
        /\ UNCHANGED fails
     \/ SaveFailed /\ UNCHANGED <<file, saver>>
  /\ UNCHANGED <<memVars, log, pc, newKey, export, writes, calls, crashes, history>>

\* periodicSave
PeriodicSave ==
  /\ up /\ dirty /\ saver = "idle"
  /\ \/ /\ file' = Saved /\ saver' = "clear"
        /\ UNCHANGED fails
     \/ SaveFailed /\ UNCHANGED <<file, saver>>
  /\ UNCHANGED <<memVars, log, pc, newKey, export, writes, calls, crashes, history>>

PeriodicClear ==
  /\ saver = "clear" /\ saver' = "idle"
  /\ dirty' = FALSE
  /\ UNCHANGED <<up, config, engine, logKey, data, diskVars, pc, newKey, export,
                 counters, acked, believed, overlap, kept>>

-----------------------------------------------------------------------------
(***************************************************************************)
(* ChangeKey(oldKey, newKey).                                              *)
(***************************************************************************)

Goto(c, from, to) == pc[c] = from /\ pc' = [pc EXCEPT ![c] = to]

\* The check of oldKey under the read lock; any other oldKey is refused.
CheckKey(c) ==
  /\ up /\ Goto(c, "idle", "checked") /\ calls < MaxCalls
  /\ \E k \in Keys : /\ newKey' = [newKey EXCEPT ![c] = k]
                     /\ believed' = believed \cup {k}
  /\ calls' = calls + 1
  /\ overlap' = (overlap \/ \E d \in Callers : pc[d] # "idle")
  /\ UNCHANGED <<memVars, diskVars, saver, export, writes, fails, crashes, acked,
                 kept>>

\* Mutant: without dataMutex.
SetConfigUnlocked(c) ==
  /\ Goto(c, "checked", "configured")
  /\ config' = newKey[c]
  /\ UNCHANGED <<up, engine, logKey, data, dirty, diskVars, newKey, saver, export,
                 counters, history>>

\* Under dataMutex.
SetConfig(c) ==
  /\ export = NoKey /\ Goto(c, "checked", "configured")
  /\ config' = newKey[c]
  /\ UNCHANGED <<up, engine, logKey, data, dirty, diskVars, newKey, saver, export,
                 counters, history>>

\* storage.UpdateKey, under the mutex of the engine and not under dataMutex.
SetEngine(c) ==
  /\ Goto(c, "configured", "updated")
  /\ engine' = newKey[c]
  /\ UNCHANGED <<up, config, logKey, data, dirty, diskVars, newKey, saver, export,
                 counters, history>>

\* Mutant: the data is not marked as changed.
MarkDirtyNot(c) ==
  /\ Goto(c, "updated", "flush")
  /\ UNCHANGED <<memVars, diskVars, newKey, saver, export, counters, history>>

MarkDirty(c) ==
  /\ Goto(c, "updated", "flush")
  /\ dirty' = TRUE
  /\ UNCHANGED <<up, config, engine, logKey, data, diskVars, newKey, saver, export,
                 counters, history>>

Flush(c) ==
  /\ Goto(c, "flush", "clear")
  /\ file' = Saved
  /\ UNCHANGED <<memVars, log, newKey, saver, export, counters, history>>

\* The error is returned, and everything stays as it was set.
FlushFails(c) ==
  /\ Goto(c, "flush", "idle") /\ SaveFailed
  /\ newKey' = [newKey EXCEPT ![c] = NoKey]
  /\ UNCHANGED <<memVars, diskVars, saver, export, writes, calls, crashes, history>>

\* dirtyFlag is cleared as by any flushToDisk, and success is returned.
ClearAndReturn(c) ==
  /\ Goto(c, "clear", "idle")
  /\ newKey' = [newKey EXCEPT ![c] = NoKey]
  /\ dirty' = FALSE
  /\ acked' = newKey[c] /\ believed' = {newKey[c]}
  /\ UNCHANGED <<up, config, engine, logKey, data, diskVars, saver, export,
                 counters, overlap, kept>>

ChangeKeyStep(c) ==
  \/ SetConfig(c) \/ SetEngine(c) \/ MarkDirty(c) \/ Flush(c) \/ FlushFails(c)
  \/ ClearAndReturn(c)

-----------------------------------------------------------------------------
(***************************************************************************)
(* ExportEncrypted(key).                                                   *)
(***************************************************************************)

\* The check under the read lock, which is held to the end.
ExportBegin ==
  /\ up /\ export = NoKey /\ export' = config
  /\ UNCHANGED <<memVars, diskVars, pc, newKey, saver, counters, history>>

\* storage.ExportEncrypted: getKey, and the file is encrypted with what the
\* engine has.
ExportEnd ==
  /\ export # NoKey /\ export' = NoKey
  /\ UNCHANGED <<memVars, diskVars, pc, newKey, saver, counters, history>>

-----------------------------------------------------------------------------
(***************************************************************************)
(* Crash, and Init with a key.                                             *)
(***************************************************************************)

Crash ==
  /\ up /\ crashes < MaxCrashes /\ crashes' = crashes + 1
  /\ up' = FALSE
  /\ pc' = [c \in Callers |-> "idle"] /\ newKey' = [c \in Callers |-> NoKey]
  /\ saver' = "idle" /\ export' = NoKey
  /\ UNCHANGED <<config, engine, logKey, data, dirty, diskVars, writes, calls, fails, history>>

\* storage.Load with key k: a file under another key is an error, which Init
\* returns; without a file the database is empty.
Opens(k) == file.key \in {NoKey, k}

\* Mutant: a log is only read with the key of a state file.
RecoveredWithFile(k) ==
  file.writes \cup {r.id : r \in {r \in log : r.key = file.key}}

\* The file, and the records of the log that k decrypts; readEntry fails on
\* the others, and ReadAll goes on.
Recovered(k) ==
  file.writes \cup {r.id : r \in {r \in log : r.key = k}}

\* The application tries the key it was last told of, and others it has asked
\* for when the state file refuses that one.
Reopen(k) ==
  /\ ~up /\ up' = TRUE
  /\ Opens(k) /\ k \in believed /\ (k = acked \/ ~Opens(acked))
  /\ config' = k /\ engine' = k /\ logKey' = k
  /\ data' = Recovered(k) /\ dirty' = FALSE
  /\ acked' = k /\ believed' = {k} /\ kept' = data'
  /\ overlap' = FALSE
  /\ UNCHANGED <<diskVars, callVars, counters>>

Next ==
  \/ Write \/ PeriodicSave \/ PeriodicClear
  \/ \E c \in Callers : CheckKey(c) \/ ChangeKeyStep(c)
  \/ ExportBegin \/ ExportEnd
  \/ Crash \/ \E k \in Keys : Reopen(k)

Spec == Init /\ [][Next]_vars

\* The ticker of periodicSave, a call that goes on, an export that ends.
FairSpec ==
  /\ Spec
  /\ WF_vars(PeriodicSave) /\ WF_vars(PeriodicClear) /\ WF_vars(ExportEnd)
  /\ \A c \in Callers : SF_vars(ChangeKeyStep(c))

-----------------------------------------------------------------------------
(***************************************************************************)
(* Properties.                                                             *)
(***************************************************************************)

\* Wherever a ChangeKey fails or the process dies, the state file can be
\* opened with a key that the application has reason to try, and after a
\* success with the new key: no Save that began before UpdateKey can end after
\* it.  Only ChangeKeys that overlap may leave another key.
SomeKeyOpens ==
  ~overlap => file.key \in believed \cup {NoKey}

\* The state file is under another key than the engine, and nothing will save it:
\* dirtyFlag is not set and no ChangeKey is about to set it.
Stranded ==
  /\ up /\ file.key \notin {NoKey, engine}
  /\ ~dirty /\ \A c \in Callers : pc[c] # "updated"

\* From UpdateKey on, dirtyFlag holds until the state file is under the new key,
\* through failed saves and saves that began earlier.  It is forgotten in two
\* ways only: by a periodic save that clears the mark of a ChangeKey that came
\* after its Save, and by ChangeKeys that overlap.
OnlyLateClearsStrand ==
  [][Stranded' /\ ~Stranded
     => PeriodicClear \/ (overlap /\ \E c \in Callers : ClearAndReturn(c))]_vars

\* Writes answered before the first ChangeKey of a process, or once the key is
\* that of its log again, are there when the database is opened again, whichever
\* step of ChangeKey the process died in and whichever of the keys opens it.
KeptSurvives == [][\A k \in Keys : Reopen(k) /\ ~overlap => kept \subseteq data']_vars

\* An export is encrypted under the key that its caller has shown, also when
\* ChangeKey is called meanwhile; not so if ChangeKey had set the configuration
\* and not the engine when the export began.
ExportUnderCallersKey ==
  [][ExportEnd /\ ~overlap /\ (\A c \in Callers : pc[c] # "configured")
     => engine = export]_vars

\* A new key reaches the state file, if need be by the periodic save after a
\* Save that failed, unless its mark is forgotten as above.
RotationCompletes ==
  up /\ file.key \notin {NoKey, engine}
    ~> ~up \/ engine = file.key \/ Stranded

\* README.md:410: ChangeKey is "atomic - save with new key first, rollback on
\* failure": a ChangeKey that fails leaves the key as it was.
FailedChangeKeepsKey ==
  [][\A c \in Callers : FlushFails(c) /\ ~overlap => config' = acked]_vars

\* What overlapping ChangeKeys would have to respect.
KeysAgree == up /\ (\A c \in Callers : pc[c] = "idle") => config = engine

\* README.md:561, every write is in the log: an answered write is there when
\* the database is opened again.
NothingLost == [][\A k \in Keys : Reopen(k) => data \subseteq data']_vars

\* All writes being to one place: what the log adds to the state file at a start
\* is not older than what the file holds (CHANGELOG.md:119, ChangeKey is atomic).
NothingOlder ==
  [][\A k \in Keys : Reopen(k) /\ (\E r \in log : r.key = k)
       => \E r \in log : r.key = k /\ \A w \in file.writes : w <= r.id]_vars

\* Without the two exceptions: a new key always reaches the state file.
NeverStranded == ~Stranded

\* An export under the key its caller has shown, without exception.
ExportAlwaysRight == [][ExportEnd => engine = export]_vars

=============================================================================
