--------------------------- MODULE StorageEngine ---------------------------
(***************************************************************************)
(* Save and Load of the storage engine of polarysdb,                       *)
(* modules/storage/engine.go, in several processes that share one state    *)
(* file (each watches it for the saves of the others), with crashes of a   *)
(* process and power cuts.                                                 *)
(*                                                                         *)
(* A file name leads to an inode; flock(2) locks the inode that a process  *)
(* has open, and rename(2) moves a name whatever the locks are.  The file  *)
(* descriptor is closed, and so the lock released, when a call returns; the*)
(* locks are read off the program counters.  Within a process mutex lets   *)
(* one Save at a time run, and no Load beside it: a process here runs one  *)
(* call at a time.  What is in the file is one value; the key is in module *)
(* KeyRotation.                                                            *)
(***************************************************************************)
EXTENDS Integers, FiniteSets

CONSTANTS
  P,         \* processes that have the database open
  Watchers,  \* those of them that load it
  Vals,      \* what may be saved
  None,      \* no file, no value
  MaxSaves,  \* bound on the calls of Save, and so on inodes
  Features   \* "fails", "dies", "powerCut", "coarse": what a run lets happen

ASSUME StorageAssumption ==
  /\ MaxSaves \in Nat /\ Watchers \subseteq P
  /\ Vals \cap {"empty", "torn"} = {}
  /\ None \notin Vals /\ None \notin {"empty", "torn"} /\ None \notin 1 .. MaxSaves

VARIABLES
  dir,       \* where the names e.path and e.path + ".tmp" lead
  durable,   \* dir as of the last commit of the file system's journal
  content,   \* what each inode holds
  synced,    \* what each inode held at its last fsync
  mtime,     \* time of the last change of each inode
  clock,
  saves,     \* calls of Save so far
  pc, fd,    \* per process: where it is in Save or Load, the inode it has open
  wanted,    \* what its Save is to store
  modTime,   \* info.ModTime() of its Load
  loaded,    \* data and time of its last successful Load
  \* history:
  alone,     \* nobody else has opened the temporary file during its Save
  look,      \* what the file has held since its Load began
  answer     \* what its last Load has read

diskVars == <<dir, durable, content, synced, mtime, clock>>
procVars == <<saves, pc, fd, wanted, modTime, loaded, alone, look, answer>>
vars == <<diskVars, procVars>>

Inodes == 1 .. MaxSaves
Names  == Inodes \cup {None}
\* A file just truncated, and one that is neither of the values it was meant
\* to hold: AES-GCM refuses to decrypt both.
Garbled  == {"empty", "torn"}
Contents == Vals \cup Garbled

\* contended (history): the file may hold what was not saved as a whole,
\* since several Saves had the temporary file open at a time.
Dirs == [path : Names, tmp : Names, contended : BOOLEAN]

FileAt(name) == IF name = None THEN None ELSE content[name]
File == FileAt(dir.path)

\* The Saves that have the temporary file open.
Saving(p) == pc[p] \in {"lock", "write", "sync", "rename"}

\* Type invariant.
TypeOK ==
  /\ dir \in Dirs /\ durable \in Dirs
  /\ content \in [Inodes -> Contents] /\ synced \in [Inodes -> Contents]
  /\ mtime \in [Inodes -> Nat] /\ clock \in Nat
  /\ saves \in 0 .. MaxSaves
  /\ pc \in [P -> {"idle", "open", "lock", "write", "sync", "rename",
                   "stat", "openLoad", "lockLoad", "read"}]
  /\ fd \in [P -> Names]
  /\ wanted \in [P -> Vals \cup {None}]
  /\ modTime \in [P -> Nat]
  /\ loaded \in [P -> [val : Vals \cup {None}, time : Nat]]
  /\ alone \in [P -> BOOLEAN]
  /\ look \in [P -> SUBSET (Contents \cup {None})]
  /\ answer \in [P -> Contents \cup {None}]

Init ==
  /\ dir = [path |-> None, tmp |-> None, contended |-> FALSE]
  /\ durable = dir
  /\ content = [i \in Inodes |-> "empty"] /\ synced = content
  /\ mtime = [i \in Inodes |-> 0] /\ clock = 0 /\ saves = 0
  /\ pc = [p \in P |-> "idle"] /\ fd = [p \in P |-> None]
  /\ wanted = [p \in P |-> None] /\ modTime = [p \in P |-> 0]
  /\ loaded = [p \in P |-> [val |-> None, time |-> 0]]
  /\ alone = [p \in P |-> TRUE]
  /\ look = [p \in P |-> {}] /\ answer = [p \in P |-> None]

-----------------------------------------------------------------------------

Goto(p, from, to) == pc[p] = from /\ pc' = [pc EXCEPT ![p] = to]

\* The locks held on an inode.
Exclusive(i) == \E q \in P : fd[q] = i /\ pc[q] \in {"write", "sync", "rename"}
Shared(i)    == \E q \in P : fd[q] = i /\ pc[q] = "read"

\* The time that a change of an inode is stamped with; timestamps of a coarse
\* clock may repeat.
Stamp(i) ==
  /\ \E t \in IF "coarse" \in Features /\ clock > 0 THEN {clock, clock + 1}
              ELSE {clock + 1} :
       clock' = t /\ mtime' = [mtime EXCEPT ![i] = t]

\* The Loads under way see what the file holds now, and cannot be told what
\* to see while it is contended.
Watch == [q \in P |-> IF look[q] = {} THEN {}
                      ELSE IF dir'.contended THEN Contents \cup {None}
                      ELSE look[q] \cup {IF dir'.path = None THEN None
                                         ELSE content'[dir'.path]}]

-----------------------------------------------------------------------------
(***************************************************************************)
(* Save.                                                                   *)
(***************************************************************************)

\* mutex; json.Marshal and crypto.Encrypt.
SaveCall(p) ==
  /\ Goto(p, "idle", "open") /\ saves < MaxSaves
  /\ \E v \in Vals : wanted' = [wanted EXCEPT ![p] = v]
  /\ saves' = saves + 1
  /\ UNCHANGED <<diskVars, fd, modTime, loaded, alone, look, answer>>

\* The inode that O_CREATE finds or makes.
TmpInode == IF dir.tmp # None THEN dir.tmp
            ELSE CHOOSE i \in Inodes : /\ mtime[i] = 0
                                       /\ \A j \in 1 .. i - 1 : mtime[j] > 0

\* Mutant: OpenTmp without O_TRUNC.
OpenTmpKeep(p) ==
  /\ Goto(p, "open", "lock")
  /\ fd' = [fd EXCEPT ![p] = TmpInode]
  /\ Stamp(TmpInode)
  /\ LET others == {q \in P \ {p} : Saving(q)}
     IN /\ alone' = [q \in P |-> IF q = p THEN others = {}
                                 ELSE alone[q] /\ q \notin others]
        /\ dir' = [dir EXCEPT !.tmp = TmpInode,
                              !.contended = @ \/ others # {}]
  /\ UNCHANGED <<durable, content, synced, saves, wanted, modTime, loaded, answer>>
  /\ look' = Watch

\* os.OpenFile with O_CREATE and O_TRUNC: truncates before any lock is asked.
OpenTmp(p) ==
  /\ Goto(p, "open", "lock")
  /\ fd' = [fd EXCEPT ![p] = TmpInode]
  /\ content' = [content EXCEPT ![TmpInode] = "empty"]
  /\ Stamp(TmpInode)
  /\ LET others == {q \in P \ {p} : Saving(q)}
     IN /\ alone' = [q \in P |-> IF q = p THEN others = {}
                                 ELSE alone[q] /\ q \notin others]
        /\ dir' = [dir EXCEPT !.tmp = TmpInode,
                              !.contended = @ \/ others # {}]
  /\ UNCHANGED <<durable, synced, saves, wanted, modTime, loaded, answer>>
  /\ look' = Watch

\* Mutant: the lock is also waited for while others wait for it.
LockTmpPolite(p) ==
  /\ Goto(p, "lock", "write")
  /\ ~Exclusive(fd[p]) /\ \A q \in P \ {p} : fd[q] # fd[p]
  /\ UNCHANGED <<diskVars, saves, fd, wanted, modTime, loaded, alone, look, answer>>

\* unix.Flock(LOCK_EX)
LockTmp(p) ==
  /\ Goto(p, "lock", "write")
  /\ ~Exclusive(fd[p]) /\ ~Shared(fd[p])
  /\ UNCHANGED <<diskVars, saves, fd, wanted, modTime, loaded, alone, look, answer>>

\* What a write from offset 0 leaves: more of what was there, if it was longer.
Written(i, v) == IF content[i] \in {"empty", v} THEN {v} ELSE {v, "torn"}

WriteTmp(p) ==
  /\ Goto(p, "write", "sync")
  /\ \E c \in Written(fd[p], wanted[p]) :
       content' = [content EXCEPT ![fd[p]] = c]
  /\ Stamp(fd[p])
  /\ UNCHANGED <<dir, durable, synced, saves, fd, wanted, modTime, loaded, alone,
                 answer>>
  /\ look' = Watch

\* Mutant: no fsync.
SyncSkip(p) ==
  /\ Goto(p, "sync", "rename")
  /\ UNCHANGED <<diskVars, saves, fd, wanted, modTime, loaded, alone, look, answer>>

SyncTmp(p) ==
  /\ Goto(p, "sync", "rename")
  /\ synced' = [synced EXCEPT ![fd[p]] = content[fd[p]]]
  /\ UNCHANGED <<dir, durable, content, mtime, clock, saves, fd, wanted, modTime,
                 loaded, alone, look, answer>>

\* The return, with the deferred unlock and Close.
Return(p) ==
  /\ pc' = [pc EXCEPT ![p] = "idle"]
  /\ fd' = [fd EXCEPT ![p] = None]

\* os.Rename moves whatever the temporary name leads to by now, and fails when
\* another Save has moved it away.
Rename(p) ==
  /\ pc[p] = "rename" /\ Return(p)
  /\ dir' = IF dir.tmp = None THEN dir
            ELSE [path |-> dir.tmp, tmp |-> None,
                  contended |-> dir.contended /\ ~alone[p]]
  /\ wanted' = [wanted EXCEPT ![p] = None]
  /\ alone' = [alone EXCEPT ![p] = TRUE]
  /\ UNCHANGED <<durable, content, synced, mtime, clock, saves, modTime, loaded, answer>>
  /\ look' = Watch

\* A system call of a Save fails; a failed write may have written a part.
SaveFails(p) ==
  /\ "fails" \in Features
  /\ pc[p] \in {"open", "lock", "write", "sync", "rename"} /\ Return(p)
  /\ IF pc[p] = "write"
     THEN /\ content' \in {content, [content EXCEPT ![fd[p]] = "torn"]}
          /\ Stamp(fd[p])
     ELSE UNCHANGED <<content, mtime, clock>>
  /\ wanted' = [wanted EXCEPT ![p] = None]
  /\ alone' = [alone EXCEPT ![p] = TRUE]
  /\ UNCHANGED <<dir, durable, synced, saves, modTime, loaded, answer>>
  /\ look' = Watch

-----------------------------------------------------------------------------
(***************************************************************************)
(* Load.                                                                   *)
(***************************************************************************)

LoadCall(p) ==
  /\ p \in Watchers /\ Goto(p, "idle", "stat")
  /\ look' = [look EXCEPT ![p] = IF dir.contended THEN Contents \cup {None} ELSE {File}]
  /\ answer' = [answer EXCEPT ![p] = None]
  /\ UNCHANGED <<diskVars, saves, fd, wanted, modTime, loaded, alone>>

\* os.Stat; without a file the answer is an empty database.
LoadStat(p) ==
  /\ dir.path # None
  /\ Goto(p, "stat", "openLoad")
  /\ modTime' = [modTime EXCEPT ![p] = mtime[dir.path]]
  /\ UNCHANGED <<diskVars, saves, fd, wanted, loaded, alone, look, answer>>

LoadMissing(p) ==
  /\ dir.path = None
  /\ Goto(p, "stat", "idle")
  /\ loaded' = [loaded EXCEPT ![p] = [val |-> None, time |-> 0]]
  /\ look' = [look EXCEPT ![p] = {}]
  /\ answer' = [answer EXCEPT ![p] = None]
  /\ UNCHANGED <<diskVars, saves, fd, wanted, modTime, alone>>

LoadOpen(p) ==
  /\ Goto(p, "openLoad", "lockLoad")
  /\ fd' = [fd EXCEPT ![p] = dir.path]
  /\ UNCHANGED <<diskVars, saves, wanted, modTime, loaded, alone, look, answer>>

\* unix.Flock(LOCK_SH)
LoadLock(p) ==
  /\ Goto(p, "lockLoad", "read")
  /\ ~Exclusive(fd[p])
  /\ UNCHANGED <<diskVars, saves, fd, wanted, modTime, loaded, alone, look, answer>>

\* Mutant: the time of the file is taken when its content has been read.
LoadReadLateStat(p) ==
  /\ pc[p] = "read" /\ Return(p)
  /\ answer' = [answer EXCEPT ![p] = content[fd[p]]]
  /\ loaded' = IF content[fd[p]] \in Garbled THEN loaded
               ELSE [loaded EXCEPT ![p] = [val |-> content[fd[p]],
                                           time |-> mtime[dir.path]]]
  /\ look' = [look EXCEPT ![p] = {}]
  /\ modTime' = [modTime EXCEPT ![p] = 0]
  /\ UNCHANGED <<diskVars, saves, wanted, alone>>

\* io.ReadAll under the lock, crypto.Decrypt, json.Unmarshal.  What cannot be
\* decrypted is an error, and the database keeps what it had loaded before.
LoadRead(p) ==
  /\ pc[p] = "read" /\ Return(p)
  /\ answer' = [answer EXCEPT ![p] = content[fd[p]]]
  /\ loaded' = IF content[fd[p]] \in Garbled THEN loaded
               ELSE [loaded EXCEPT ![p] = [val |-> content[fd[p]],
                                           time |-> modTime[p]]]
  /\ look' = [look EXCEPT ![p] = {}]
  /\ modTime' = [modTime EXCEPT ![p] = 0]
  /\ UNCHANGED <<diskVars, saves, wanted, alone>>

\* A system call of a Load fails: its error is returned, and nothing loaded.
LoadFails(p) ==
  /\ "fails" \in Features
  /\ pc[p] \in {"stat", "openLoad", "lockLoad", "read"} /\ Return(p)
  /\ look' = [look EXCEPT ![p] = {}]
  /\ modTime' = [modTime EXCEPT ![p] = 0]
  /\ UNCHANGED <<diskVars, saves, wanted, loaded, alone, answer>>

-----------------------------------------------------------------------------
(***************************************************************************)
(* The file system, crashes.                                               *)
(***************************************************************************)

\* What the directory says is on disk some time after a rename: atomicWrite
\* does not fsync the directory.
JournalCommit ==
  /\ durable # dir /\ durable' = dir
  /\ UNCHANGED <<dir, content, synced, mtime, clock, procVars>>

\* Forgets what a process was doing and, when it is gone, what it had loaded.
Gone(dead) ==
  /\ pc' = [p \in P |-> IF p \in dead THEN "idle" ELSE pc[p]]
  /\ fd' = [p \in P |-> IF p \in dead THEN None ELSE fd[p]]
  /\ wanted' = [p \in P |-> IF p \in dead THEN None ELSE wanted[p]]
  /\ modTime' = [p \in P |-> IF p \in dead THEN 0 ELSE modTime[p]]
  /\ loaded' = [p \in P |-> IF p \in dead THEN [val |-> None, time |-> 0]
                            ELSE loaded[p]]
  /\ alone' = [p \in P |-> p \in dead \/ alone[p]]
  /\ look' = [p \in P |-> IF p \in dead THEN {} ELSE look[p]]
  /\ answer' = [p \in P |-> IF p \in dead THEN None ELSE answer[p]]

\* A process dies and is started again: its locks are gone, and its temporary
\* file stays.
Die(p) ==
  /\ "dies" \in Features /\ pc[p] # "idle"
  /\ Gone({p})
  /\ UNCHANGED <<diskVars, saves>>

\* The names are as of the last commit or as they were, and an inode that was
\* not synced since its last change may hold anything in between.
PowerCut ==
  /\ "powerCut" \in Features
  /\ dir' \in {dir, durable} /\ durable' = dir'
  /\ LET unsynced == {i \in Inodes : content[i] # synced[i]}
     IN \E torn, old \in SUBSET unsynced :
          content' = [i \in Inodes |-> IF i \in torn THEN "torn"
                                      ELSE IF i \in old THEN synced[i] ELSE content[i]]
  /\ synced' = content'
  /\ Gone(P)
  /\ UNCHANGED <<mtime, clock, saves>>

SaveStep(p) == OpenTmp(p) \/ LockTmp(p) \/ WriteTmp(p) \/ SyncTmp(p) \/ Rename(p)
LoadStep(p) == LoadStat(p) \/ LoadMissing(p) \/ LoadOpen(p) \/ LoadLock(p) \/ LoadRead(p)

Next ==
  \/ \E p \in P : \/ SaveCall(p) \/ SaveStep(p) \/ SaveFails(p)
                  \/ LoadCall(p) \/ LoadStep(p) \/ LoadFails(p) \/ Die(p)
  \/ JournalCommit \/ PowerCut

Spec == Init /\ [][Next]_vars

\* A process goes on with its call; a lock that is free again and again is
\* obtained in the end.
FairSpec == Spec /\ \A p \in P : SF_vars(SaveStep(p)) /\ SF_vars(LoadStep(p))

-----------------------------------------------------------------------------
(***************************************************************************)
(* Properties.                                                             *)
(***************************************************************************)

\* Unless Saves of two processes have met, and no Save has run alone since,
\* the state file is missing or holds one saved value, whatever failed Saves,
\* crashes and power cuts left in the temporary file.
WholeUnlessContended == ~dir.contended => File \notin Garbled

\* The watcher of the file reloads when the time of the file is not that of
\* the last Load: while the times are equal, what was loaded is what the file
\* holds, even if Saves have met.  The Stat of Load precedes its read, and
\* a file once replaced never comes back.
WatcherMissesNothing ==
  \A p \in P : dir.path # None /\ loaded[p].time = mtime[dir.path]
               => loaded[p].val = File

\* A Save replaces the file in one step or fails without effect, and a Load
\* answers with something the file held in the meantime, across crashes and
\* power cuts, as long as Saves of two processes do not meet.
Abstract == INSTANCE AtomicFile WITH
  Contents <- Contents \cup {None}, file <- File, stable <- FileAt(durable.path),
  excuse <- dir.contended

ImplementsAtomicFile == Abstract!AtomicSpec

\* Every Save and Load returns, however the locks are contended.
CallsReturn == \A p \in P : pc[p] # "idle" ~> pc[p] = "idle"

\* What a reader of atomicWrite would expect: the file that is published is
\* always whole.
AlwaysWhole == File \notin Garbled

\* A Save that has returned survives a power cut.
SavedIsDurable == [][PowerCut => FileAt(dir.path)' = File]_vars

=============================================================================
