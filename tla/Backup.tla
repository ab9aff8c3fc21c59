------------------------------- MODULE Backup -------------------------------
(***************************************************************************)
(* The automatic backups of polarysdb, modules/backup/backup.go: one       *)
(* goroutine creates them on a ticker, and each creation leaves behind a   *)
(* goroutine that removes old ones, of which several may be at work.       *)
(*                                                                         *)
(* A backup is named by the local second of its creation, after the        *)
(* snapshot has been taken; names sort by time as long as the local clock  *)
(* does not step back.  os.WriteFile truncates the file first and writes   *)
(* then.  The directory outlives the process, the rest does not.  A        *)
(* snapshot (createBackupSnapshot) is a number here.                       *)
(***************************************************************************)
EXTENDS Integers, FiniteSets, FiniteSetsExt

CONSTANTS
  KeepCount,      \* backups to keep (database.go passes 10)
  MaxBackups,     \* bounds: snapshots taken, seconds, crashes
  MaxTime,
  MaxCrashes,
  BackupFeatures  \* "fails", "sameSecond", "stepsBack": what a run lets happen

ASSUME BackupAssumption ==
  /\ {KeepCount, MaxTime} \subseteq Nat \ {0}
  /\ {MaxBackups, MaxCrashes} \subseteq Nat

VARIABLES
  files,     \* the backup directory: what each name holds
  now,       \* the local time
  taken,     \* snapshots taken so far
  creator,   \* CreateBackup: "idle", "snapped", "writing"
  name,      \* its filename
  starting,  \* cleaners that have not listed the directory yet
  todo,      \* what each cleaner has still to remove
  crashes,
  \* history:
  lastDone,   \* the last snapshot whose backup was completed
  overwrote,  \* a backup was created under the name of another
  trouble     \* a crash, a failed write or a failed removal has happened

backupVars == <<files, now, taken, creator, name, starting, todo, crashes,
                lastDone, overwrote, trouble>>

Names   == 1 .. MaxTime
Backups == 1 .. MaxBackups
Missing == 0      \* contents of a name without a file,
Partial == -1     \* and of a file that is not written to the end

Present    == {n \in Names : files[n] # Missing}
WholeFiles == {n \in Names : files[n] \in Backups}

\* Type invariant.
BackupTypeOK ==
  /\ files \in [Names -> Backups \cup {Missing, Partial}]
  /\ now \in Names /\ taken \in 0 .. MaxBackups
  /\ creator \in {"idle", "snapped", "writing"} /\ name \in Names
  /\ starting \subseteq Backups /\ todo \in [Backups -> SUBSET Names]
  /\ \A c \in starting : todo[c] = {}
  /\ crashes \in 0 .. MaxCrashes /\ lastDone \in 0 .. taken
  /\ overwrote \in BOOLEAN /\ trouble \in BOOLEAN

BackupInit ==
  /\ files = [n \in Names |-> Missing] /\ now = 1 /\ taken = 0
  /\ creator = "idle" /\ name = 1
  /\ starting = {} /\ todo = [c \in Backups |-> {}] /\ crashes = 0
  /\ lastDone = 0 /\ overwrote = FALSE /\ trouble = FALSE

-----------------------------------------------------------------------------

\* The local clock; it steps back when summer time ends or when it is set.
Tick ==
  /\ \/ now < MaxTime /\ now' = now + 1
     \/ "stepsBack" \in BackupFeatures /\ now > 1 /\ now' = now - 1
  /\ UNCHANGED <<files, taken, creator, name, starting, todo, crashes, lastDone,
                 overwrote, trouble>>

\* CreateBackup: the snapshot,
Snapshot ==
  /\ creator = "idle" /\ taken < MaxBackups
  /\ creator' = "snapped" /\ taken' = taken + 1
  /\ UNCHANGED <<files, now, name, starting, todo, crashes, lastDone, overwrote, trouble>>

\* the name, and os.WriteFile up to its O_TRUNC,
OpenFile ==
  /\ creator = "snapped" /\ creator' = "writing"
  /\ "sameSecond" \in BackupFeatures \/ files[now] = Missing
  /\ name' = now
  /\ files' = [files EXCEPT ![now] = Partial]
  /\ overwrote' = (overwrote \/ files[now] # Missing)
  /\ UNCHANGED <<now, taken, starting, todo, crashes, lastDone, trouble>>

\* the rest of os.WriteFile, and the start of a cleaner,
WriteFile ==
  /\ creator = "writing" /\ creator' = "idle"
  /\ files' = [files EXCEPT ![name] = taken]
  /\ lastDone' = taken
  /\ starting' = starting \cup {taken}
  /\ UNCHANGED <<now, taken, name, todo, crashes, overwrote, trouble>>

\* or an error of os.WriteFile: the file stays as it is.
WriteFails ==
  /\ "fails" \in BackupFeatures
  /\ creator = "writing" /\ creator' = "idle"
  /\ trouble' = TRUE
  /\ UNCHANGED <<files, now, taken, name, starting, todo, crashes, lastDone, overwrote>>

-----------------------------------------------------------------------------

\* Mutant: one backup too few is kept.
OldestOffByOne == {n \in Present : Cardinality({m \in Present : m > n}) >= KeepCount - 1}

\* sort.Strings, and all but the last KeepCount.
Oldest == {n \in Present : Cardinality({m \in Present : m > n}) >= KeepCount}

\* cleanOldBackups: filepath.Glob, which also sees what is being written.
List(c) ==
  /\ c \in starting /\ starting' = starting \ {c}
  /\ todo' = [todo EXCEPT ![c] = Oldest]
  /\ UNCHANGED <<files, now, taken, creator, name, crashes, lastDone, overwrote, trouble>>

\* Mutant: a cleaner gives up at the first removal that fails.
RemoveStops(c) ==
  /\ todo[c] # {}
  /\ LET n == Min(todo[c])
     IN /\ todo' = [todo EXCEPT ![c] = IF files[n] = Missing THEN {} ELSE @ \ {n}]
        /\ files' = [files EXCEPT ![n] = Missing]
  /\ UNCHANGED <<now, taken, creator, name, starting, crashes, lastDone, overwrote, trouble>>

\* os.Remove of the next name of the list; another cleaner may have removed it
\* already, and an error is only logged.
RemoveBackup(c) ==
  /\ \E n \in todo[c] :
       /\ \A m \in todo[c] : n <= m
       /\ todo' = [todo EXCEPT ![c] = @ \ {n}]
       /\ \/ files' = [files EXCEPT ![n] = Missing] /\ UNCHANGED trouble
          \/ "fails" \in BackupFeatures /\ trouble' = TRUE /\ UNCHANGED files
  /\ UNCHANGED <<now, taken, creator, name, starting, crashes, lastDone, overwrote>>

\* The process ends; nothing waits for the cleaners on Close either.
ProcessEnds ==
  /\ crashes < MaxCrashes /\ crashes' = crashes + 1
  /\ creator' = "idle" /\ starting' = {} /\ todo' = [c \in Backups |-> {}]
  /\ trouble' = TRUE
  /\ UNCHANGED <<files, now, taken, name, lastDone, overwrote>>

BackupNext ==
  \/ Tick \/ Snapshot \/ OpenFile \/ WriteFile \/ WriteFails \/ ProcessEnds
  \/ \E c \in Backups : List(c) \/ RemoveBackup(c)

BackupSpec == BackupInit /\ [][BackupNext]_backupVars

-----------------------------------------------------------------------------
(***************************************************************************)
(* Properties.                                                             *)
(***************************************************************************)

\* Only a backup with KeepCount newer ones beside it is removed, although
\* several cleaners work from lists that are no longer true.
NewestKept ==
  [][\A n \in Present :
       files'[n] = Missing
         => Cardinality({m \in Present : m > n}) >= KeepCount]_backupVars

\* Once a backup was completed there is a complete one, unless KeepCount were
\* cut off by crashes or errors, or one was overwritten: the file that is being
\* written counts among those to keep, so of KeepCount = 1 nothing may be left.
OneIsWhole ==
  lastDone # 0 /\ ~overwrote /\ Cardinality(Present \ WholeFiles) < KeepCount
    => WholeFiles # {}

\* GetLatestBackup, the last name, is the backup of the last snapshot that was
\* completed, or one that was not completed.
LatestIsNewest ==
  Present # {} => files[Max(Present)] \in {Partial, lastDone}

\* When the cleaners are done there are no more than KeepCount backups.
Cleaned ==
  ~trouble /\ creator = "idle" /\ starting = {} /\ (\A c \in Backups : todo[c] = {})
    => Cardinality(Present) <= KeepCount

\* What RestoreBackup(GetLatestBackup()) would have to rely on.
LatestIsWhole == Present # {} => files[Max(Present)] # Partial

=============================================================================
