------------------------ MODULE StorageEngineProofs ------------------------
(***************************************************************************)
(* What holds of the state file for any number of processes, of values and *)
(* of Saves, with every fault the model knows: a Save replaces the file in *)
(* one step (the refinement of AtomicFile), what is published is whole     *)
(* unless Saves have met, and, if no two changes have one time, the        *)
(* watcher misses nothing.                                                 *)
(***************************************************************************)
EXTENDS StorageEngine, FiniteSetTheorems, TLAPS

USE StorageAssumption

\* Saves that have yet to open the temporary file.
Opening == {p \in P : pc[p] = "open"}

\* O_CREATE finds a new inode: inodes are taken in order, and each Save takes
\* one at most.
InodesLeft ==
  /\ IsFiniteSet(Opening)
  /\ \E n \in 0 .. MaxSaves : /\ \A i \in Inodes : mtime[i] > 0 <=> i <= n
                              /\ n + Cardinality(Opening) <= saves

\* The inodes that are in use.
InUse(i) == i # None => i \in Inodes /\ mtime[i] > 0

\* Every inode in use has been written to, and what was published is never
\* the temporary file again.
NamesApart ==
  /\ InUse(dir.path) /\ InUse(dir.tmp) /\ InUse(durable.path) /\ InUse(durable.tmp)
  /\ \A p \in P : InUse(fd[p])
  /\ dir.tmp # None => dir.tmp \notin {dir.path, durable.path}
  /\ durable.tmp # None => durable.tmp # durable.path

\* A Save that nobody has disturbed owns the temporary file, and knows what is
\* in it.
Undisturbed ==
  \A p \in P : Saving(p) /\ alone[p] =>
    /\ fd[p] = dir.tmp /\ \A q \in P \ {p} : ~Saving(q)
    /\ pc[p] \in {"lock", "write"} => content[fd[p]] = "empty"
    /\ pc[p] \in {"sync", "rename"} => content[fd[p]] = wanted[p]
    /\ pc[p] = "rename" => synced[fd[p]] = wanted[p]

\* What a name leads to that was published by an undisturbed Save is whole, on
\* disk, and open in no Save.
Published(d) ==
  ~d.contended /\ d.path # None =>
    /\ content[d.path] \in Vals /\ synced[d.path] = content[d.path]
    /\ \A p \in P : Saving(p) => fd[p] # d.path

AllPublished ==
  /\ Published(dir) /\ Published(durable)
  /\ ~dir.contended => \A p \in P : Saving(p) => alone[p]

\* Where a Load is.
Loading(p) == pc[p] \in {"stat", "openLoad", "lockLoad", "read"}

\* A file is open in the calls that use one, a value is wanted by each Save.
Opened ==
  \A p \in P : /\ fd[p] # None <=> Saving(p) \/ pc[p] \in {"lockLoad", "read"}
               /\ wanted[p] # None <=> Saving(p) \/ pc[p] = "open"
               /\ pc[p] \in {"openLoad", "lockLoad", "read"} => dir.path # None

\* Whoever loads has seen the file, and what it will read.
Everything == Contents \cup {None}

Looked ==
  \A p \in P :
    /\ Loading(p) <=> look[p] # {}
    /\ Loading(p) /\ ~dir.contended => File \in look[p]
    /\ Loading(p) /\ dir.contended => look[p] = Everything
    /\ pc[p] \in {"lockLoad", "read"} =>
         \/ look[p] = Everything
         \/ /\ content[fd[p]] \in look[p] /\ fd[p] # dir.tmp
            /\ \A q \in P : Saving(q) => fd[q] # fd[p]

IInv == TypeOK /\ InodesLeft /\ NamesApart /\ Undisturbed /\ AllPublished
          /\ Opened /\ Looked

\* The times of changes differ, and a Load took the time of a file that had
\* been published by then.
Times ==
  /\ \A i \in Inodes : mtime[i] <= clock
  /\ \A i, j \in Inodes : mtime[i] > 0 /\ mtime[i] = mtime[j] => i = j
  /\ \A p \in P :
       /\ modTime[p] <= clock /\ loaded[p].time <= clock
       /\ dir.tmp # None => mtime[dir.tmp] \notin {modTime[p], loaded[p].time}
       /\ pc[p] \in {"lockLoad", "read"} /\ modTime[p] = mtime[dir.path]
            => fd[p] = dir.path

WatchInv == Times /\ WatcherMissesNothing

\* O_CREATE finds the temporary file, or an inode that nobody has used.
LEMMA TmpFound ==
  ASSUME TypeOK, InodesLeft, NamesApart, NEW p \in P, pc[p] = "open"
  PROVE  /\ TmpInode \in Inodes
         /\ dir.tmp = None => /\ mtime[TmpInode] = 0
                              /\ \A j \in 1 .. TmpInode - 1 : mtime[j] > 0
         /\ dir.tmp # None => TmpInode = dir.tmp
<1>1. CASE dir.tmp # None
  BY <1>1 DEF TmpInode, NamesApart, InUse
<1>2. CASE dir.tmp = None
  <2>1. PICK n \in 0 .. MaxSaves : /\ \A i \in Inodes : mtime[i] > 0 <=> i <= n
                                   /\ n + Cardinality(Opening) <= saves
    BY DEF InodesLeft
  <2>2. p \in Opening /\ IsFiniteSet(Opening)
    BY DEF Opening, InodesLeft
  <2>3. Cardinality(Opening) \in Nat /\ Cardinality(Opening) # 0
    BY <2>2, FS_CardinalityType, FS_EmptySet
  <2>4. n + 1 \in Inodes
    BY <2>1, <2>3 DEF Inodes, TypeOK
  <2>5. mtime[n + 1] = 0 /\ \A j \in 1 .. (n + 1) - 1 : mtime[j] > 0
    BY <2>1, <2>4 DEF Inodes, TypeOK
  <2>6. \E i \in Inodes : mtime[i] = 0 /\ \A j \in 1 .. i - 1 : mtime[j] > 0
    BY <2>4, <2>5
  <2> QED BY <1>2, <2>6 DEF TmpInode
<1> QED BY <1>1, <1>2

\* A change of an inode is stamped with a time that is not in the past.
LEMMA Stamped ==
  ASSUME TypeOK, NEW i \in Inodes, Stamp(i)
  PROVE  /\ clock' \in Nat /\ clock' >= clock /\ clock' > 0
         /\ "coarse" \notin Features => clock' > clock
         /\ mtime' = [mtime EXCEPT ![i] = clock'] /\ mtime' \in [Inodes -> Nat]
  BY DEF Stamp, TypeOK

\* Whoever is loading goes on loading, and has seen what the file holds.
LEMMA Watched ==
  ASSUME TypeOK, dir' \in Dirs, content' \in [Inodes -> Contents], look' = Watch
  PROVE  /\ look' \in [P -> SUBSET Everything]
         /\ \A q \in P : look[q] = {} <=> look'[q] = {}
         /\ \A q \in P : look[q] # {} /\ ~dir'.contended => look'[q] = look[q] \cup {File'}
         /\ \A q \in P : look[q] # {} /\ dir'.contended => look'[q] = Everything
<1>1. dir'.path = None \/ dir'.path \in Inodes
  BY DEF Dirs, Names
<1>2. File' \in Everything
  BY <1>1 DEF File, FileAt, Everything
<1>3. \A q \in P : look'[q] = IF look[q] = {} THEN {}
                              ELSE IF dir'.contended THEN Everything ELSE look[q] \cup {File'}
  BY DEF Watch, File, FileAt, Everything
<1>4. Everything # {}
  BY DEF Everything
<1>5. \A q \in P : look[q] \subseteq Everything
  BY DEF TypeOK, Everything
<1>6. look' \in [P -> SUBSET Everything]
  BY <1>2, <1>5 DEF Watch, Everything, File, FileAt
<1> QED BY <1>3, <1>4, <1>6

\* Every step keeps the types.
LEMMA StepTypeOK ==
  TypeOK /\ InodesLeft /\ NamesApart /\ Opened /\ [Next]_vars
    => TypeOK'
<1> SUFFICES ASSUME TypeOK, InodesLeft, NamesApart, Opened, [Next]_vars
    PROVE TypeOK'
  OBVIOUS
<1>1. ASSUME NEW p \in P, SaveCall(p) PROVE TypeOK'
  BY <1>1 DEF SaveCall, Goto, TypeOK, diskVars, procVars, Saving, Dirs, Names,
     Contents, Garbled
<1>2. ASSUME NEW p \in P, OpenTmp(p) PROVE TypeOK'
  <2> USE <1>2 DEF OpenTmp, Goto
  <2>1. TmpInode \in Inodes
    BY TmpFound DEF TypeOK, Names, Opened, Saving
  <2>2. clock' \in Nat /\ mtime' \in [Inodes -> Nat]
    BY <2>1, Stamped DEF TypeOK
  <2>3. dir' \in Dirs /\ durable' \in Dirs /\ synced' \in [Inodes -> Contents]
    BY <2>1 DEF TypeOK, Dirs, Names
  <2>4. content' \in [Inodes -> Contents]
    BY <2>1 DEF TypeOK, Contents, Garbled
  <2>5. look' \in [P -> SUBSET (Contents \cup {None})]
    BY <2>3, <2>4, Watched DEF Everything
  <2>6. pc' \in [P -> {"idle", "open", "lock", "write", "sync", "rename",
                     "stat", "openLoad", "lockLoad", "read"}]
        /\ fd' \in [P -> Names] /\ wanted' \in [P -> Vals \cup {None}]
        /\ alone' \in [P -> BOOLEAN]
    BY <2>1 DEF TypeOK, Names
  <2> QED BY <2>2, <2>3, <2>4, <2>5, <2>6 DEF TypeOK
<1>3. ASSUME NEW p \in P, LockTmp(p) PROVE TypeOK'
  BY <1>3 DEF LockTmp, Goto, TypeOK, diskVars, procVars, Saving, Dirs, Names,
     Contents, Garbled
<1>4. ASSUME NEW p \in P, WriteTmp(p) PROVE TypeOK'
  <2> USE <1>4 DEF WriteTmp, Goto
  <2>1. fd[p] \in Inodes
    BY  DEF TypeOK, Names, Opened, Saving
  <2>2. clock' \in Nat /\ mtime' \in [Inodes -> Nat]
    BY <2>1, Stamped DEF TypeOK
  <2>3. dir' \in Dirs /\ durable' \in Dirs /\ synced' \in [Inodes -> Contents]
    BY <2>1 DEF TypeOK, Dirs, Names
  <2>4. content' \in [Inodes -> Contents]
    BY <2>1 DEF TypeOK, Contents, Garbled, Written, Opened, Saving
  <2>5. look' \in [P -> SUBSET (Contents \cup {None})]
    BY <2>3, <2>4, Watched DEF Everything
  <2>6. pc' \in [P -> {"idle", "open", "lock", "write", "sync", "rename",
                     "stat", "openLoad", "lockLoad", "read"}]
        /\ fd' \in [P -> Names] /\ wanted' \in [P -> Vals \cup {None}]
        /\ alone' \in [P -> BOOLEAN]
    BY <2>1 DEF TypeOK, Names
  <2> QED BY <2>2, <2>3, <2>4, <2>5, <2>6 DEF TypeOK
<1>5. ASSUME NEW p \in P, SyncTmp(p) PROVE TypeOK'
  BY <1>5 DEF SyncTmp, Goto, TypeOK, diskVars, procVars, Saving, Dirs, Names,
     Contents, Garbled
<1>6. ASSUME NEW p \in P, Rename(p) PROVE TypeOK'
  <2> USE <1>6 DEF Rename, Return
  <2>1. dir' \in Dirs
    BY DEF TypeOK, Dirs, Names
  <2>2. look' \in [P -> SUBSET (Contents \cup {None})]
    BY <2>1, Watched DEF TypeOK, Everything
  <2> QED BY <2>1, <2>2 DEF TypeOK, Names
<1>7. ASSUME NEW p \in P, SaveFails(p) PROVE TypeOK'
  <2> USE <1>7 DEF SaveFails, Return
  <2>1. /\ content' \in [Inodes -> Contents]
        /\ clock' \in Nat /\ mtime' \in [Inodes -> Nat]
    <3>1. CASE pc[p] = "write"
      <4>1. fd[p] \in Inodes
        BY <3>1 DEF TypeOK, Names, Opened, Saving
      <4> QED BY <3>1, <4>1, Stamped DEF TypeOK, Contents, Garbled
    <3> QED BY <3>1 DEF TypeOK
  <2>2. look' \in [P -> SUBSET (Contents \cup {None})]
    BY <2>1, Watched DEF TypeOK, Everything
  <2>3. fd' \in [P -> Names] /\ wanted' \in [P -> Vals \cup {None}]
        /\ alone' \in [P -> BOOLEAN]
    BY DEF TypeOK, Names
  <2> QED BY <2>1, <2>2, <2>3 DEF TypeOK
<1>8. ASSUME NEW p \in P, LoadCall(p) PROVE TypeOK'
  <2> USE <1>8 DEF LoadCall, Goto, diskVars
  <2>1. File \in Contents \cup {None}
    BY DEF File, FileAt, TypeOK, Dirs, Names
  <2> QED BY <2>1 DEF TypeOK
<1>9. ASSUME NEW p \in P, LoadStat(p) PROVE TypeOK'
  BY <1>9 DEF LoadStat, Goto, TypeOK, diskVars, procVars, Saving, Dirs, Names,
     Contents, Garbled
<1>10. ASSUME NEW p \in P, LoadMissing(p) PROVE TypeOK'
  BY <1>10 DEF LoadMissing, Goto, TypeOK, diskVars, procVars, Saving, Dirs,
     Names, Contents, Garbled
<1>11. ASSUME NEW p \in P, LoadOpen(p) PROVE TypeOK'
  BY <1>11 DEF LoadOpen, Goto, TypeOK, diskVars, procVars, Saving, Dirs,
     Names, Contents, Garbled
<1>12. ASSUME NEW p \in P, LoadLock(p) PROVE TypeOK'
  BY <1>12 DEF LoadLock, Goto, TypeOK, diskVars, procVars, Saving, Dirs,
     Names, Contents, Garbled
<1>13. ASSUME NEW p \in P, LoadRead(p) PROVE TypeOK'
  <2> USE <1>13 DEF LoadRead, Return, diskVars
  <2>1. fd[p] \in Inodes
    BY DEF TypeOK, Names, Opened, Saving
  <2>2. content[fd[p]] \in Contents
    BY <2>1 DEF TypeOK
  <2>3. loaded' \in [P -> [val : Vals \cup {None}, time : Nat]]
    BY <2>2 DEF TypeOK, Contents
  <2> QED BY <2>2, <2>3 DEF TypeOK, Names
<1>14. ASSUME NEW p \in P, Die(p) PROVE TypeOK'
  BY <1>14 DEF Die, Gone, TypeOK, diskVars, procVars, Saving, Dirs, Names,
     Contents, Garbled
<1>15. CASE JournalCommit
  BY <1>15 DEF JournalCommit, TypeOK, diskVars, procVars, Saving, Dirs, Names,
     Contents, Garbled
<1>16. CASE PowerCut
  BY <1>16 DEF PowerCut, Gone, TypeOK, diskVars, procVars, Saving, Dirs,
     Names, Contents, Garbled
<1>17. CASE UNCHANGED vars
  BY <1>17 DEF vars, TypeOK, diskVars, procVars, Saving, Dirs, Names,
     Contents, Garbled
<1>18. ASSUME NEW p \in P, LoadFails(p) PROVE TypeOK'
  BY <1>18 DEF LoadFails, Return, TypeOK, diskVars, Names
<1> QED BY <1>1, <1>2, <1>3, <1>4, <1>5, <1>6, <1>7, <1>8, <1>9, <1>10, <1>11,
       <1>12, <1>13, <1>14, <1>15, <1>16, <1>17, <1>18
     DEF Next, SaveStep, LoadStep

\* Steps that start no Save and use no new inode.
LEMMA NoInodeTaken ==
  ASSUME TypeOK, InodesLeft, Opening' \subseteq Opening, saves' = saves,
         \A i \in Inodes : mtime'[i] > 0 <=> mtime[i] > 0
  PROVE  InodesLeft'
<1>1. IsFiniteSet(Opening)
  BY DEF InodesLeft
<1>2. /\ IsFiniteSet(Opening') /\ Cardinality(Opening') <= Cardinality(Opening)
      /\ Cardinality(Opening') \in Nat /\ Cardinality(Opening) \in Nat
  BY <1>1, FS_Subset, FS_CardinalityType
<1>3. PICK n \in 0 .. MaxSaves : /\ \A i \in Inodes : mtime[i] > 0 <=> i <= n
                                 /\ n + Cardinality(Opening) <= saves
  BY DEF InodesLeft
<1>4. n + Cardinality(Opening') <= saves'
  BY <1>2, <1>3 DEF TypeOK
<1>5. \A i \in Inodes : mtime'[i] > 0 <=> i <= n
  BY <1>3
<1> QED BY <1>2, <1>4, <1>5 DEF InodesLeft

\* Every step leaves an inode for each Save that may still want one.
LEMMA StepInodesLeft ==
  TypeOK /\ InodesLeft /\ NamesApart /\ Opened /\ [Next]_vars
    => InodesLeft'
<1> SUFFICES ASSUME TypeOK, InodesLeft, NamesApart, Opened, [Next]_vars
    PROVE InodesLeft'
  OBVIOUS
<1>1. ASSUME NEW p \in P, SaveCall(p) PROVE InodesLeft'
  <2>1. p \notin Opening /\ Opening' = Opening \cup {p} /\ saves' = saves + 1 /\ saves < MaxSaves
    BY <1>1 DEF SaveCall, Goto, TypeOK, Opening
  <2>2. IsFiniteSet(Opening)
    BY DEF InodesLeft
  <2>3. /\ IsFiniteSet(Opening') /\ Cardinality(Opening') = Cardinality(Opening) + 1
        /\ Cardinality(Opening) \in Nat
    BY <2>1, <2>2, FS_AddElement, FS_CardinalityType
  <2>4. PICK n \in 0 .. MaxSaves : /\ \A i \in Inodes : mtime[i] > 0 <=> i <= n
                                   /\ n + Cardinality(Opening) <= saves
    BY DEF InodesLeft
  <2>5. n + Cardinality(Opening') <= saves'
    BY <2>1, <2>3, <2>4 DEF TypeOK
  <2>6. UNCHANGED mtime
    BY <1>1 DEF SaveCall, diskVars
  <2> QED BY <2>3, <2>4, <2>5, <2>6 DEF InodesLeft
<1>2. ASSUME NEW p \in P, OpenTmp(p) PROVE InodesLeft'
  <2>1. p \in Opening /\ Opening' = Opening \ {p} /\ saves' = saves /\ pc[p] = "open"
    BY <1>2 DEF OpenTmp, Goto, TypeOK, Opening
  <2>2. IsFiniteSet(Opening)
    BY DEF InodesLeft
  <2>3. /\ IsFiniteSet(Opening') /\ Cardinality(Opening') = Cardinality(Opening) - 1
        /\ Cardinality(Opening) \in Nat /\ Cardinality(Opening') \in Nat
    BY <2>1, <2>2, FS_RemoveElement, FS_CardinalityType
  <2>4. /\ TmpInode \in Inodes /\ mtime \in [Inodes -> Nat]
        /\ mtime' = [mtime EXCEPT ![TmpInode] = clock'] /\ clock' > 0
    BY <1>2, <2>1, TmpFound, Stamped DEF OpenTmp, TypeOK
  <2>5. PICK n \in 0 .. MaxSaves : /\ \A i \in Inodes : mtime[i] > 0 <=> i <= n
                                   /\ n + Cardinality(Opening) <= saves
    BY DEF InodesLeft
  <2>6. CASE dir.tmp # None
    <3>1. mtime[TmpInode] > 0
      BY <2>1, <2>6, TmpFound DEF NamesApart, InUse
    <3>2. \A i \in Inodes : mtime'[i] > 0 <=> mtime[i] > 0
      BY <2>4, <3>1
    <3> QED BY <2>1, <3>2, NoInodeTaken
  <2>7. CASE dir.tmp = None
    <3>1. mtime[TmpInode] = 0 /\ \A j \in 1 .. TmpInode - 1 : mtime[j] > 0
      BY <2>1, <2>7, TmpFound
    <3>2. TmpInode = n + 1
      <4>1. ~(TmpInode <= n)
        BY <2>4, <2>5, <3>1
      <4>2. CASE n + 1 < TmpInode
        <5>1. n + 1 \in 1 .. TmpInode - 1 /\ n + 1 \in Inodes
          BY <2>4, <2>5, <4>2 DEF Inodes
        <5> QED BY <2>5, <3>1, <5>1
      <4> QED BY <2>4, <4>1, <4>2 DEF Inodes
    <3>3. \A i \in Inodes : mtime'[i] > 0 <=> i <= n + 1
      BY <2>4, <2>5, <3>2 DEF Inodes
    <3>4. n + 1 \in 0 .. MaxSaves /\ (n + 1) + Cardinality(Opening') <= saves'
      BY <2>1, <2>3, <2>4, <2>5, <3>2 DEF Inodes
    <3> QED BY <2>3, <3>3, <3>4 DEF InodesLeft
  <2> QED BY <2>6, <2>7
<1>3. ASSUME NEW p \in P, LockTmp(p) PROVE InodesLeft'
  <2>1. Opening' \subseteq Opening /\ saves' = saves /\ UNCHANGED mtime
    BY <1>3 DEF LockTmp, Goto, TypeOK, Opening, diskVars, procVars
  <2> QED BY <2>1, NoInodeTaken
<1>4. ASSUME NEW p \in P, WriteTmp(p) PROVE InodesLeft'
  <2>1. fd[p] \in Inodes /\ mtime[fd[p]] > 0
    BY <1>4 DEF WriteTmp, Goto, NamesApart, InUse, Opened, Saving
  <2>2. mtime' = [mtime EXCEPT ![fd[p]] = clock'] /\ clock' > 0 /\ mtime \in [Inodes -> Nat]
    BY <1>4, <2>1, Stamped DEF WriteTmp, TypeOK
  <2>3. Opening' \subseteq Opening /\ saves' = saves
    BY <1>4 DEF WriteTmp, Goto, TypeOK, Opening
  <2> QED BY <2>1, <2>2, <2>3, NoInodeTaken
<1>5. ASSUME NEW p \in P, SyncTmp(p) PROVE InodesLeft'
  <2>1. Opening' \subseteq Opening /\ saves' = saves /\ UNCHANGED mtime
    BY <1>5 DEF SyncTmp, Goto, TypeOK, Opening, diskVars, procVars
  <2> QED BY <2>1, NoInodeTaken
<1>6. ASSUME NEW p \in P, Rename(p) PROVE InodesLeft'
  <2>1. Opening' \subseteq Opening /\ saves' = saves /\ UNCHANGED mtime
    BY <1>6 DEF Rename, Return, TypeOK, Opening, diskVars, procVars
  <2> QED BY <2>1, NoInodeTaken
<1>7. ASSUME NEW p \in P, SaveFails(p) PROVE InodesLeft'
  <2>1. Opening' \subseteq Opening /\ saves' = saves
    BY <1>7 DEF SaveFails, Return, TypeOK, Opening
  <2>2. CASE pc[p] # "write"
    BY <1>7, <2>1, <2>2, NoInodeTaken DEF SaveFails
  <2>3. CASE pc[p] = "write"
    <3>1. fd[p] \in Inodes /\ mtime[fd[p]] > 0
      BY <2>3 DEF NamesApart, InUse, Opened, Saving
    <3>2. mtime' = [mtime EXCEPT ![fd[p]] = clock'] /\ clock' > 0 /\ mtime \in [Inodes -> Nat]
      BY <1>7, <2>3, <3>1, Stamped DEF SaveFails, TypeOK
    <3> QED BY <2>1, <3>1, <3>2, NoInodeTaken
  <2> QED BY <2>2, <2>3
<1>8. ASSUME NEW p \in P, LoadCall(p) PROVE InodesLeft'
  <2>1. Opening' \subseteq Opening /\ saves' = saves /\ UNCHANGED mtime
    BY <1>8 DEF LoadCall, Goto, TypeOK, Opening, diskVars, procVars
  <2> QED BY <2>1, NoInodeTaken
<1>9. ASSUME NEW p \in P, LoadStat(p) PROVE InodesLeft'
  <2>1. Opening' \subseteq Opening /\ saves' = saves /\ UNCHANGED mtime
    BY <1>9 DEF LoadStat, Goto, TypeOK, Opening, diskVars, procVars
  <2> QED BY <2>1, NoInodeTaken
<1>10. ASSUME NEW p \in P, LoadMissing(p) PROVE InodesLeft'
  <2>1. Opening' \subseteq Opening /\ saves' = saves /\ UNCHANGED mtime
    BY <1>10 DEF LoadMissing, Goto, TypeOK, Opening, diskVars, procVars
  <2> QED BY <2>1, NoInodeTaken
<1>11. ASSUME NEW p \in P, LoadOpen(p) PROVE InodesLeft'
  <2>1. Opening' \subseteq Opening /\ saves' = saves /\ UNCHANGED mtime
    BY <1>11 DEF LoadOpen, Goto, TypeOK, Opening, diskVars, procVars
  <2> QED BY <2>1, NoInodeTaken
<1>12. ASSUME NEW p \in P, LoadLock(p) PROVE InodesLeft'
  <2>1. Opening' \subseteq Opening /\ saves' = saves /\ UNCHANGED mtime
    BY <1>12 DEF LoadLock, Goto, TypeOK, Opening, diskVars, procVars
  <2> QED BY <2>1, NoInodeTaken
<1>13. ASSUME NEW p \in P, LoadRead(p) PROVE InodesLeft'
  <2>1. Opening' \subseteq Opening /\ saves' = saves /\ UNCHANGED mtime
    BY <1>13 DEF LoadRead, Return, TypeOK, Opening, diskVars, procVars
  <2> QED BY <2>1, NoInodeTaken
<1>14. ASSUME NEW p \in P, Die(p) PROVE InodesLeft'
  <2>1. Opening' \subseteq Opening /\ saves' = saves /\ UNCHANGED mtime
    BY <1>14 DEF Die, Gone, TypeOK, Opening, diskVars, procVars
  <2> QED BY <2>1, NoInodeTaken
<1>15. CASE JournalCommit
  <2>1. Opening' \subseteq Opening /\ saves' = saves /\ UNCHANGED mtime
    BY <1>15 DEF JournalCommit, TypeOK, Opening, diskVars, procVars
  <2> QED BY <2>1, NoInodeTaken
<1>16. CASE PowerCut
  <2>1. Opening' \subseteq Opening /\ saves' = saves /\ UNCHANGED mtime
    BY <1>16 DEF PowerCut, Gone, TypeOK, Opening, diskVars, procVars
  <2> QED BY <2>1, NoInodeTaken
<1>17. CASE UNCHANGED vars
  <2>1. Opening' \subseteq Opening /\ saves' = saves /\ UNCHANGED mtime
    BY <1>17 DEF vars, TypeOK, Opening, diskVars, procVars
  <2> QED BY <2>1, NoInodeTaken
<1>18. ASSUME NEW p \in P, LoadFails(p) PROVE InodesLeft'
  <2>1. Opening' \subseteq Opening /\ saves' = saves /\ UNCHANGED mtime
    BY <1>18 DEF LoadFails, Return, TypeOK, Opening, diskVars
  <2> QED BY <2>1, NoInodeTaken
<1> QED BY <1>1, <1>2, <1>3, <1>4, <1>5, <1>6, <1>7, <1>8, <1>9, <1>10, <1>11,
       <1>12, <1>13, <1>14, <1>15, <1>16, <1>17, <1>18
     DEF Next, SaveStep, LoadStep

\* Every step keeps the published file apart from the temporary one.
LEMMA StepNamesApart ==
  TypeOK /\ InodesLeft /\ NamesApart /\ Opened /\ [Next]_vars
    => NamesApart'
<1> SUFFICES ASSUME TypeOK, InodesLeft, NamesApart, Opened, [Next]_vars
    PROVE NamesApart'
  OBVIOUS
<1>1. ASSUME NEW p \in P, SaveCall(p) PROVE NamesApart'
  BY <1>1 DEF SaveCall, Goto, NamesApart, InUse, TypeOK, diskVars, procVars
<1>2. ASSUME NEW p \in P, OpenTmp(p) PROVE NamesApart'
  <2>1. /\ TmpInode \in Inodes /\ TmpInode \notin {dir.path, durable.path, None}
    BY <1>2, TmpFound DEF OpenTmp, Goto, NamesApart, InUse, Inodes
  <2>2. /\ mtime' = [mtime EXCEPT ![TmpInode] = clock'] /\ clock' > 0
        /\ mtime \in [Inodes -> Nat]
    BY <1>2, <2>1, Stamped DEF OpenTmp, TypeOK
  <2>3. \A i \in Inodes : mtime[i] > 0 => mtime'[i] > 0
    BY <2>2
  <2>4. mtime'[TmpInode] > 0
    BY <2>1, <2>2
  <2>5. /\ dir'.path = dir.path /\ dir'.tmp = TmpInode /\ durable' = durable
        /\ \A q \in P : fd'[q] \in {fd[q], TmpInode}
    BY <1>2 DEF OpenTmp, TypeOK, Dirs
  <2> QED BY <2>1, <2>3, <2>4, <2>5 DEF NamesApart, InUse
<1>3. ASSUME NEW p \in P, LockTmp(p) PROVE NamesApart'
  BY <1>3 DEF LockTmp, Goto, NamesApart, InUse, TypeOK, diskVars, procVars
<1>4. ASSUME NEW p \in P, WriteTmp(p) PROVE NamesApart'
  BY <1>4 DEF WriteTmp, Goto, Stamp, NamesApart, InUse, TypeOK, diskVars,
     procVars
<1>5. ASSUME NEW p \in P, SyncTmp(p) PROVE NamesApart'
  BY <1>5 DEF SyncTmp, Goto, NamesApart, InUse, TypeOK, diskVars, procVars
<1>6. ASSUME NEW p \in P, Rename(p) PROVE NamesApart'
  BY <1>6 DEF Rename, Return, NamesApart, InUse, TypeOK, diskVars, procVars
<1>7. ASSUME NEW p \in P, SaveFails(p) PROVE NamesApart'
  <2>1. \A i \in Inodes : mtime[i] > 0 => mtime'[i] > 0
    <3>1. CASE pc[p] = "write"
      <4>1. fd[p] \in Inodes
        BY <3>1 DEF TypeOK, Names, Opened, Saving
      <4> QED BY <1>7, <3>1, <4>1, Stamped DEF SaveFails, TypeOK
    <3> QED BY <1>7, <3>1 DEF SaveFails
  <2> QED BY <1>7, <2>1 DEF SaveFails, Return, NamesApart, InUse, TypeOK
<1>8. ASSUME NEW p \in P, LoadCall(p) PROVE NamesApart'
  BY <1>8 DEF LoadCall, Goto, NamesApart, InUse, TypeOK, diskVars, procVars
<1>9. ASSUME NEW p \in P, LoadStat(p) PROVE NamesApart'
  BY <1>9 DEF LoadStat, Goto, NamesApart, InUse, TypeOK, diskVars, procVars
<1>10. ASSUME NEW p \in P, LoadMissing(p) PROVE NamesApart'
  BY <1>10 DEF LoadMissing, Goto, NamesApart, InUse, TypeOK, diskVars,
     procVars
<1>11. ASSUME NEW p \in P, LoadOpen(p) PROVE NamesApart'
  BY <1>11 DEF LoadOpen, Goto, NamesApart, InUse, TypeOK, diskVars, procVars
<1>12. ASSUME NEW p \in P, LoadLock(p) PROVE NamesApart'
  BY <1>12 DEF LoadLock, Goto, NamesApart, InUse, TypeOK, diskVars, procVars
<1>13. ASSUME NEW p \in P, LoadRead(p) PROVE NamesApart'
  BY <1>13 DEF LoadRead, Return, NamesApart, InUse, TypeOK, diskVars, procVars
<1>14. ASSUME NEW p \in P, Die(p) PROVE NamesApart'
  BY <1>14 DEF Die, Gone, NamesApart, InUse, TypeOK, diskVars, procVars
<1>15. CASE JournalCommit
  BY <1>15 DEF JournalCommit, NamesApart, InUse, TypeOK, diskVars, procVars
<1>16. CASE PowerCut
  BY <1>16 DEF PowerCut, Gone, NamesApart, InUse, TypeOK, diskVars, procVars
<1>17. CASE UNCHANGED vars
  BY <1>17 DEF vars, NamesApart, InUse, TypeOK, diskVars, procVars
<1>18. ASSUME NEW p \in P, LoadFails(p) PROVE NamesApart'
  BY <1>18 DEF LoadFails, Return, NamesApart, InUse, TypeOK, diskVars
<1> QED BY <1>1, <1>2, <1>3, <1>4, <1>5, <1>6, <1>7, <1>8, <1>9, <1>10, <1>11,
       <1>12, <1>13, <1>14, <1>15, <1>16, <1>17, <1>18
     DEF Next, SaveStep, LoadStep

\* Every step keeps which calls have a file open.
LEMMA StepOpened ==
  TypeOK /\ NamesApart /\ InodesLeft /\ Opened /\ [Next]_vars
    => Opened'
<1> SUFFICES ASSUME TypeOK, NamesApart, InodesLeft, Opened, [Next]_vars
    PROVE Opened'
  OBVIOUS
<1>1. ASSUME NEW p \in P, SaveCall(p) PROVE Opened'
  BY <1>1 DEF SaveCall, Goto, Opened, Saving, TypeOK, diskVars, procVars
<1>2. ASSUME NEW p \in P, OpenTmp(p) PROVE Opened'
  <2>1. TmpInode # None
    BY <1>2, TmpFound DEF OpenTmp, Goto, Inodes
  <2> QED BY <1>2, <2>1 DEF OpenTmp, Goto, Opened, Saving, TypeOK
<1>3. ASSUME NEW p \in P, LockTmp(p) PROVE Opened'
  BY <1>3 DEF LockTmp, Goto, Opened, Saving, TypeOK, diskVars, procVars
<1>4. ASSUME NEW p \in P, WriteTmp(p) PROVE Opened'
  BY <1>4 DEF WriteTmp, Goto, Stamp, Opened, Saving, TypeOK, diskVars,
     procVars
<1>5. ASSUME NEW p \in P, SyncTmp(p) PROVE Opened'
  BY <1>5 DEF SyncTmp, Goto, Opened, Saving, TypeOK, diskVars, procVars
<1>6. ASSUME NEW p \in P, Rename(p) PROVE Opened'
  BY <1>6 DEF Rename, Return, Opened, Saving, TypeOK, diskVars, procVars
<1>7. ASSUME NEW p \in P, SaveFails(p) PROVE Opened'
  BY <1>7 DEF SaveFails, Return, Stamp, Opened, Saving, TypeOK, diskVars,
     procVars
<1>8. ASSUME NEW p \in P, LoadCall(p) PROVE Opened'
  BY <1>8 DEF LoadCall, Goto, Opened, Saving, TypeOK, diskVars, procVars
<1>9. ASSUME NEW p \in P, LoadStat(p) PROVE Opened'
  BY <1>9 DEF LoadStat, Goto, Opened, Saving, TypeOK, diskVars, procVars
<1>10. ASSUME NEW p \in P, LoadMissing(p) PROVE Opened'
  BY <1>10 DEF LoadMissing, Goto, Opened, Saving, TypeOK, diskVars, procVars
<1>11. ASSUME NEW p \in P, LoadOpen(p) PROVE Opened'
  BY <1>11 DEF LoadOpen, Goto, Opened, Saving, TypeOK, diskVars, procVars
<1>12. ASSUME NEW p \in P, LoadLock(p) PROVE Opened'
  BY <1>12 DEF LoadLock, Goto, Opened, Saving, TypeOK, diskVars, procVars
<1>13. ASSUME NEW p \in P, LoadRead(p) PROVE Opened'
  BY <1>13 DEF LoadRead, Return, Opened, Saving, TypeOK, diskVars, procVars
<1>14. ASSUME NEW p \in P, Die(p) PROVE Opened'
  BY <1>14 DEF Die, Gone, Opened, Saving, TypeOK, diskVars, procVars
<1>15. CASE JournalCommit
  BY <1>15 DEF JournalCommit, Opened, Saving, TypeOK, diskVars, procVars
<1>16. CASE PowerCut
  BY <1>16 DEF PowerCut, Gone, Opened, Saving, TypeOK, diskVars, procVars
<1>17. CASE UNCHANGED vars
  BY <1>17 DEF vars, Opened, Saving, TypeOK, diskVars, procVars
<1>18. ASSUME NEW p \in P, LoadFails(p) PROVE Opened'
  BY <1>18 DEF LoadFails, Return, Opened, Saving, TypeOK, diskVars
<1> QED BY <1>1, <1>2, <1>3, <1>4, <1>5, <1>6, <1>7, <1>8, <1>9, <1>10, <1>11,
       <1>12, <1>13, <1>14, <1>15, <1>16, <1>17, <1>18
     DEF Next, SaveStep, LoadStep

\* A Save alone at work knows what is in its file until it renames it.
LEMMA StepUndisturbed ==
  TypeOK /\ InodesLeft /\ NamesApart /\ Opened /\ Undisturbed /\ [Next]_vars
    => Undisturbed'
<1> SUFFICES ASSUME TypeOK, InodesLeft, NamesApart, Opened, Undisturbed,
                  [Next]_vars
    PROVE Undisturbed'
  OBVIOUS
<1>1. ASSUME NEW p \in P, SaveCall(p) PROVE Undisturbed'
  BY <1>1 DEF SaveCall, Goto, Undisturbed, Saving, TypeOK, diskVars, procVars
<1>2. ASSUME NEW p \in P, OpenTmp(p) PROVE Undisturbed'
  <2>1. TmpInode \in Inodes /\ pc[p] = "open" /\ content' = [content EXCEPT ![TmpInode] = "empty"]
    BY <1>2, TmpFound DEF OpenTmp, Goto
  <2>2. /\ \A q \in P : pc'[q] = IF q = p THEN "lock" ELSE pc[q]
        /\ \A q \in P : fd'[q] = IF q = p THEN TmpInode ELSE fd[q]
        /\ dir'.tmp = TmpInode
    BY <1>2 DEF OpenTmp, Goto, TypeOK, Dirs
  <2>3. \A q \in P : alone'[q] = IF q = p THEN \A r \in P \ {p} : ~Saving(r)
                                 ELSE alone[q] /\ ~Saving(q)
    BY <1>2 DEF OpenTmp
  <2>4. ASSUME NEW q \in P, Saving(q)', alone'[q] PROVE q = p /\ \A r \in P \ {p} : ~Saving(r)
    BY <2>2, <2>3, <2>4 DEF Saving
  <2>5. content'[fd'[p]] = "empty" /\ fd'[p] = dir'.tmp /\ pc'[p] = "lock"
    BY <2>1, <2>2 DEF TypeOK
  <2>6. \A r \in P \ {p} : ~Saving(r) => ~Saving(r)'
    BY <2>2 DEF Saving
  <2> QED BY <2>4, <2>5, <2>6 DEF Undisturbed
<1>3. ASSUME NEW p \in P, LockTmp(p) PROVE Undisturbed'
  BY <1>3 DEF LockTmp, Goto, Undisturbed, Saving, TypeOK, diskVars, procVars
<1>4. ASSUME NEW p \in P, WriteTmp(p) PROVE Undisturbed'
  <2>1. /\ Saving(p) /\ fd[p] \in Inodes /\ wanted[p] \in Vals
    BY <1>4 DEF WriteTmp, Goto, Opened, Saving, TypeOK, Names
  <2>2. PICK c \in Written(fd[p], wanted[p]) : content' = [content EXCEPT ![fd[p]] = c]
    BY <1>4 DEF WriteTmp
  <2>3. /\ \A q \in P : pc'[q] = IF q = p THEN "sync" ELSE pc[q]
        /\ pc[p] = "write" /\ UNCHANGED <<dir, synced, fd, wanted, alone>>
    BY <1>4 DEF WriteTmp, Goto, TypeOK
  <2>4. ASSUME NEW q \in P, Saving(q)', alone'[q] PROVE q = p /\ alone[p]
    BY <2>1, <2>3, <2>4 DEF Saving, Undisturbed
  <2>5. alone[p] => content'[fd[p]] = wanted[p]
    BY <2>1, <2>2, <2>3 DEF Undisturbed, Written, TypeOK
  <2>6. alone[p] => fd[p] = dir.tmp /\ \A q \in P \ {p} : ~Saving(q)'
    BY <2>1, <2>3 DEF Undisturbed, Saving
  <2> QED BY <2>3, <2>4, <2>5, <2>6 DEF Undisturbed
<1>5. ASSUME NEW p \in P, SyncTmp(p) PROVE Undisturbed'
  <2>1. Saving(p) /\ fd[p] \in Inodes
    BY <1>5 DEF SyncTmp, Goto, Opened, Saving, TypeOK, Names
  <2>2. /\ \A q \in P : pc'[q] = IF q = p THEN "rename" ELSE pc[q]
        /\ pc[p] = "sync" /\ UNCHANGED <<dir, content, fd, wanted, alone>>
        /\ synced'[fd[p]] = content[fd[p]]
    BY <1>5, <2>1 DEF SyncTmp, Goto, TypeOK
  <2>3. ASSUME NEW q \in P, Saving(q)', alone'[q] PROVE q = p /\ alone[p]
    BY <2>1, <2>2, <2>3 DEF Saving, Undisturbed
  <2>4. alone[p] => /\ fd[p] = dir.tmp /\ \A q \in P \ {p} : ~Saving(q)'
                    /\ content[fd[p]] = wanted[p]
    BY <2>1, <2>2 DEF Undisturbed, Saving
  <2> QED BY <2>2, <2>3, <2>4 DEF Undisturbed
<1>6. ASSUME NEW p \in P, Rename(p) PROVE Undisturbed'
  BY <1>6 DEF Rename, Return, Undisturbed, Saving, TypeOK, diskVars, procVars
<1>7. ASSUME NEW p \in P, SaveFails(p) PROVE Undisturbed'
  BY <1>7 DEF SaveFails, Return, Stamp, Undisturbed, Saving, TypeOK, diskVars,
     procVars
<1>8. ASSUME NEW p \in P, LoadCall(p) PROVE Undisturbed'
  BY <1>8 DEF LoadCall, Goto, Undisturbed, Saving, TypeOK, diskVars, procVars
<1>9. ASSUME NEW p \in P, LoadStat(p) PROVE Undisturbed'
  BY <1>9 DEF LoadStat, Goto, Undisturbed, Saving, TypeOK, diskVars, procVars
<1>10. ASSUME NEW p \in P, LoadMissing(p) PROVE Undisturbed'
  BY <1>10 DEF LoadMissing, Goto, Undisturbed, Saving, TypeOK, diskVars,
     procVars
<1>11. ASSUME NEW p \in P, LoadOpen(p) PROVE Undisturbed'
  BY <1>11 DEF LoadOpen, Goto, Undisturbed, Saving, TypeOK, diskVars, procVars
<1>12. ASSUME NEW p \in P, LoadLock(p) PROVE Undisturbed'
  BY <1>12 DEF LoadLock, Goto, Undisturbed, Saving, TypeOK, diskVars, procVars
<1>13. ASSUME NEW p \in P, LoadRead(p) PROVE Undisturbed'
  BY <1>13 DEF LoadRead, Return, Undisturbed, Saving, TypeOK, diskVars,
     procVars
<1>14. ASSUME NEW p \in P, Die(p) PROVE Undisturbed'
  BY <1>14 DEF Die, Gone, Undisturbed, Saving, TypeOK, diskVars, procVars
<1>15. CASE JournalCommit
  BY <1>15 DEF JournalCommit, Undisturbed, Saving, TypeOK, diskVars, procVars
<1>16. CASE PowerCut
  BY <1>16 DEF PowerCut, Gone, Undisturbed, Saving, TypeOK, diskVars, procVars
<1>17. CASE UNCHANGED vars
  BY <1>17 DEF vars, Undisturbed, Saving, TypeOK, diskVars, procVars
<1>18. ASSUME NEW p \in P, LoadFails(p) PROVE Undisturbed'
  BY <1>18 DEF LoadFails, Return, Undisturbed, Saving, TypeOK, diskVars
<1> QED BY <1>1, <1>2, <1>3, <1>4, <1>5, <1>6, <1>7, <1>8, <1>9, <1>10, <1>11,
       <1>12, <1>13, <1>14, <1>15, <1>16, <1>17, <1>18
     DEF Next, SaveStep, LoadStep

\* A rename by such a Save publishes a whole file.
LEMMA StepAllPublished ==
  TypeOK /\ TypeOK' /\ InodesLeft /\ NamesApart /\ Opened /\ Undisturbed /\
    AllPublished /\ [Next]_vars
    => AllPublished'
<1> SUFFICES ASSUME TypeOK, TypeOK', InodesLeft, NamesApart, Opened,
                  Undisturbed, AllPublished, [Next]_vars
    PROVE AllPublished'
  OBVIOUS
<1>1. ASSUME NEW p \in P, SaveCall(p) PROVE AllPublished'
  BY <1>1 DEF SaveCall, Goto, AllPublished, Published, Saving, TypeOK, Dirs,
     diskVars, procVars
<1>2. ASSUME NEW p \in P, OpenTmp(p) PROVE AllPublished'
  <2>1. TmpInode \in Inodes /\ TmpInode \notin {dir.path, durable.path}
    BY <1>2, TmpFound DEF OpenTmp, Goto, NamesApart, InUse, Inodes
  <2>2. /\ content' = [content EXCEPT ![TmpInode] = "empty"] /\ UNCHANGED <<durable, synced>>
        /\ dir'.path = dir.path /\ dir'.contended = (dir.contended \/ \E r \in P \ {p} : Saving(r))
    BY <1>2 DEF OpenTmp, TypeOK, Dirs
  <2>3. \A q \in P : /\ Saving(q)' <=> q = p \/ Saving(q)
                     /\ fd'[q] = IF q = p THEN TmpInode ELSE fd[q]
                     /\ q = p => (alone'[q] <=> \A r \in P \ {p} : ~Saving(r))
    BY <1>2 DEF OpenTmp, Goto, TypeOK, Saving
  <2>4. \A i \in Inodes \ {TmpInode} : content'[i] = content[i]
    BY <2>2 DEF TypeOK
  <2>5. Published(dir) => Published(dir)'
    BY <2>1, <2>2, <2>3, <2>4 DEF Published, NamesApart, InUse
  <2>6. Published(durable) => Published(durable)'
    BY <2>1, <2>2, <2>3, <2>4 DEF Published, NamesApart, InUse
  <2> QED BY <2>2, <2>3, <2>5, <2>6 DEF AllPublished
<1>3. ASSUME NEW p \in P, LockTmp(p) PROVE AllPublished'
  BY <1>3 DEF LockTmp, Goto, AllPublished, Published, Saving, TypeOK, Dirs,
     diskVars, procVars
<1>4. ASSUME NEW p \in P, WriteTmp(p) PROVE AllPublished'
  BY <1>4 DEF WriteTmp, Goto, Stamp, AllPublished, Published, Saving, TypeOK,
     Dirs, diskVars, procVars
<1>5. ASSUME NEW p \in P, SyncTmp(p) PROVE AllPublished'
  BY <1>5 DEF SyncTmp, Goto, AllPublished, Published, Saving, TypeOK, Dirs,
     diskVars, procVars
<1>6. ASSUME NEW p \in P, Rename(p) PROVE AllPublished'
  <2>1. Saving(p) /\ fd[p] # None /\ UNCHANGED <<durable, content, synced>>
    BY <1>6 DEF Rename, Saving, Opened
  <2>2. \A q \in P : Saving(q)' => q # p /\ Saving(q) /\ fd'[q] = fd[q] /\ alone'[q] = alone[q]
    BY <1>6 DEF Rename, Return, Saving, TypeOK
  <2>3. Published(durable)'
    BY <2>1, <2>2 DEF AllPublished, Published
  <2>4. CASE dir.tmp = None
    BY <1>6, <2>1, <2>2, <2>3, <2>4 DEF Rename, AllPublished, Published
  <2>5. CASE dir.tmp # None /\ ~alone[p]
    BY <1>6, <2>1, <2>3, <2>5 DEF Rename, AllPublished, Published
  <2>6. CASE dir.tmp # None /\ alone[p]
    <3>1. dir'.path = fd[p] /\ \A q \in P : ~Saving(q)'
      BY <1>6, <2>1, <2>2, <2>6 DEF Rename, Undisturbed
    <3>2. content[fd[p]] = wanted[p] /\ synced[fd[p]] = wanted[p] /\ wanted[p] \in Vals
      BY <1>6, <2>1, <2>6 DEF Rename, Undisturbed, Opened, TypeOK
    <3> QED BY <2>1, <2>3, <3>1, <3>2 DEF AllPublished, Published
  <2> QED BY <2>4, <2>5, <2>6
<1>7. ASSUME NEW p \in P, SaveFails(p) PROVE AllPublished'
  <2>1. /\ UNCHANGED <<dir, durable, synced>>
        /\ \A q \in P : Saving(q)' => Saving(q) /\ fd'[q] = fd[q] /\ alone'[q] = alone[q]
    BY <1>7 DEF SaveFails, Return, Saving, TypeOK
  <2>2. UNCHANGED content \/ (Saving(p) /\ content' = [content EXCEPT ![fd[p]] = "torn"])
    BY <1>7 DEF SaveFails, Saving
  <2>3. \A d \in {dir, durable} : Published(d) /\ ~d.contended /\ d.path # None
                                    => content'[d.path] = content[d.path]
    BY <2>2 DEF Published, TypeOK, NamesApart, InUse
  <2> QED BY <2>1, <2>3 DEF AllPublished, Published
<1>8. ASSUME NEW p \in P, LoadCall(p) PROVE AllPublished'
  BY <1>8 DEF LoadCall, Goto, AllPublished, Published, Saving, TypeOK, Dirs,
     diskVars, procVars
<1>9. ASSUME NEW p \in P, LoadStat(p) PROVE AllPublished'
  BY <1>9 DEF LoadStat, Goto, AllPublished, Published, Saving, TypeOK, Dirs,
     diskVars, procVars
<1>10. ASSUME NEW p \in P, LoadMissing(p) PROVE AllPublished'
  BY <1>10 DEF LoadMissing, Goto, AllPublished, Published, Saving, TypeOK,
     Dirs, diskVars, procVars
<1>11. ASSUME NEW p \in P, LoadOpen(p) PROVE AllPublished'
  BY <1>11 DEF LoadOpen, Goto, AllPublished, Published, Saving, TypeOK, Dirs,
     diskVars, procVars
<1>12. ASSUME NEW p \in P, LoadLock(p) PROVE AllPublished'
  BY <1>12 DEF LoadLock, Goto, AllPublished, Published, Saving, TypeOK, Dirs,
     diskVars, procVars
<1>13. ASSUME NEW p \in P, LoadRead(p) PROVE AllPublished'
  BY <1>13 DEF LoadRead, Return, AllPublished, Published, Saving, TypeOK,
     Dirs, diskVars, procVars
<1>14. ASSUME NEW p \in P, Die(p) PROVE AllPublished'
  BY <1>14 DEF Die, Gone, AllPublished, Published, Saving, TypeOK, Dirs,
     diskVars, procVars
<1>15. CASE JournalCommit
  BY <1>15 DEF JournalCommit, AllPublished, Published, Saving, TypeOK, Dirs,
     diskVars, procVars
<1>16. CASE PowerCut
  <2>1. /\ dir' \in {dir, durable} /\ durable' = dir' /\ synced' = content'
        /\ \A q \in P : ~Saving(q)'
    BY <1>16 DEF PowerCut, Gone, Saving
  <2>2. \A i \in Inodes : content[i] = synced[i] => content'[i] = content[i]
    BY <1>16 DEF PowerCut
  <2>3. \A d \in {dir, durable} : ~d.contended /\ d.path # None
                                    => content'[d.path] \in Vals
    BY <2>2 DEF AllPublished, Published, NamesApart, InUse
  <2> QED BY <2>1, <2>3 DEF AllPublished, Published
<1>17. CASE UNCHANGED vars
  BY <1>17 DEF vars, AllPublished, Published, Saving, TypeOK, Dirs, diskVars,
     procVars
<1>18. ASSUME NEW p \in P, LoadFails(p) PROVE AllPublished'
  BY <1>18 DEF LoadFails, Return, AllPublished, Published, Saving, TypeOK, Dirs,
     diskVars
<1> QED BY <1>1, <1>2, <1>3, <1>4, <1>5, <1>6, <1>7, <1>8, <1>9, <1>10, <1>11,
       <1>12, <1>13, <1>14, <1>15, <1>16, <1>17, <1>18
     DEF Next, SaveStep, LoadStep

\* Steps of a Save, as the Loads under way see them.
LEMMA WatchedLooked ==
  ASSUME TypeOK, TypeOK', Looked, look' = Watch,
         \A q \in P : /\ Loading(q)' <=> Loading(q)
                      /\ Loading(q) => pc'[q] = pc[q] /\ fd'[q] = fd[q],
         \A q \in P : /\ pc[q] \in {"lockLoad", "read"} /\ fd[q] # dir.tmp
                      /\ \A r \in P : Saving(r) => fd[r] # fd[q]
                      => /\ content'[fd[q]] = content[fd[q]] /\ fd[q] # dir'.tmp
                         /\ \A r \in P : Saving(r)' => fd'[r] # fd[q]
  PROVE  Looked'
<1>1. /\ \A q \in P : look[q] = {} <=> look'[q] = {}
      /\ \A q \in P : look[q] # {} /\ ~dir'.contended => look'[q] = look[q] \cup {File'}
      /\ \A q \in P : look[q] # {} /\ dir'.contended => look'[q] = Everything
      /\ \A q \in P : look'[q] \subseteq Everything
  BY Watched DEF TypeOK
<1>2. \A q \in P : Loading(q)' <=> look'[q] # {}
  BY <1>1 DEF Looked
<1>3. \A q \in P : Loading(q)' => (~dir'.contended => File' \in look'[q])
                                  /\ (dir'.contended => look'[q] = Everything)
  BY <1>1 DEF Looked
<1>4. ASSUME NEW q \in P, pc'[q] \in {"lockLoad", "read"}, look'[q] # Everything
      PROVE  /\ content'[fd'[q]] \in look'[q] /\ fd'[q] # dir'.tmp
             /\ \A r \in P : Saving(r)' => fd'[r] # fd'[q]
  <2>1. Loading(q) /\ pc[q] \in {"lockLoad", "read"} /\ fd'[q] = fd[q]
    BY <1>4 DEF Loading
  <2>2. ~dir'.contended /\ look[q] # {}
    BY <1>1, <1>4, <2>1 DEF Looked
  <2>3. look'[q] = look[q] \cup {File'} /\ look'[q] \subseteq Everything
    BY <1>1, <2>2
  <2>4. look[q] # Everything
    BY <1>4, <2>3
  <2> QED BY <2>1, <2>3, <2>4 DEF Looked
<1> QED BY <1>2, <1>3, <1>4 DEF Looked

\* A Load reads something that the state file was during the Load.
LEMMA StepLooked ==
  TypeOK /\ TypeOK' /\ InodesLeft /\ NamesApart /\ Opened /\ AllPublished /\
    Looked /\ [Next]_vars
    => Looked'
<1> SUFFICES ASSUME TypeOK, TypeOK', InodesLeft, NamesApart, Opened,
                  AllPublished, Looked, [Next]_vars
    PROVE Looked'
  OBVIOUS
<1>1. ASSUME NEW p \in P, SaveCall(p) PROVE Looked'
  BY <1>1 DEF SaveCall, Goto, Looked, Loading, Saving, File, FileAt,
     Everything, TypeOK, diskVars, procVars
<1>2. ASSUME NEW p \in P, OpenTmp(p) PROVE Looked'
  <2>1. /\ TmpInode \in Inodes /\ content' = [content EXCEPT ![TmpInode] = "empty"]
        /\ \A i \in Inodes : i # dir.tmp /\ mtime[i] > 0 => i # TmpInode
    BY <1>2, TmpFound DEF OpenTmp, Goto, NamesApart, InUse, Inodes, TypeOK
  <2>2. /\ dir'.tmp = TmpInode /\ look' = Watch
        /\ \A q \in P : Saving(q)' => q = p \/ Saving(q)
        /\ \A q \in P : fd'[q] = IF q = p THEN TmpInode ELSE fd[q]
        /\ \A q \in P : pc'[q] = IF q = p THEN "lock" ELSE pc[q]
        /\ pc[p] = "open"
    BY <1>2 DEF OpenTmp, Goto, TypeOK, Saving, Dirs
  <2>3. \A q \in P : pc[q] \in {"lockLoad", "read"} => fd[q] \in Inodes /\ mtime[fd[q]] > 0
    BY DEF Opened, NamesApart, InUse
  <2>4. \A q \in P : /\ Loading(q)' <=> Loading(q)
                     /\ Loading(q) => pc'[q] = pc[q] /\ fd'[q] = fd[q]
    BY <2>2 DEF Loading
  <2>5. \A i \in Inodes \ {TmpInode} : content'[i] = content[i]
    BY <2>1 DEF TypeOK
  <2> QED BY <2>1, <2>2, <2>3, <2>4, <2>5, WatchedLooked
<1>3. ASSUME NEW p \in P, LockTmp(p) PROVE Looked'
  BY <1>3 DEF LockTmp, Goto, Looked, Loading, Saving, File, FileAt,
     Everything, TypeOK, diskVars, procVars
<1>4. ASSUME NEW p \in P, WriteTmp(p) PROVE Looked'
  <2>1. /\ \A q \in P : pc'[q] = IF q = p THEN "sync" ELSE pc[q]
        /\ pc[p] = "write" /\ UNCHANGED <<fd, dir>> /\ look' = Watch
    BY <1>4 DEF WriteTmp, Goto, TypeOK
  <2>2. \A i \in Inodes \ {fd[p]} : content'[i] = content[i]
    BY <1>4 DEF WriteTmp, TypeOK
  <2>3. \A q \in P : /\ Loading(q)' <=> Loading(q)
                     /\ Loading(q) => pc'[q] = pc[q] /\ fd'[q] = fd[q]
                     /\ Saving(q)' <=> Saving(q)
    BY <2>1 DEF Loading, Saving
  <2>4. \A q \in P : pc[q] \in {"lockLoad", "read"} => fd[q] \in Inodes
    BY DEF Opened, TypeOK, Names
  <2> QED BY <2>1, <2>2, <2>3, <2>4, WatchedLooked DEF Saving
<1>5. ASSUME NEW p \in P, SyncTmp(p) PROVE Looked'
  BY <1>5 DEF SyncTmp, Goto, Looked, Loading, Saving, File, FileAt,
     Everything, TypeOK, diskVars, procVars
<1>6. ASSUME NEW p \in P, Rename(p) PROVE Looked'
  <2>1. /\ \A q \in P : pc'[q] = IF q = p THEN "idle" ELSE pc[q]
        /\ \A q \in P : fd'[q] = IF q = p THEN None ELSE fd[q]
        /\ pc[p] = "rename" /\ UNCHANGED content /\ look' = Watch
        /\ dir'.tmp = None
    BY <1>6 DEF Rename, Return, TypeOK
  <2>2. \A q \in P : /\ Loading(q)' <=> Loading(q)
                     /\ Loading(q) => pc'[q] = pc[q] /\ fd'[q] = fd[q]
                     /\ Saving(q)' <=> q # p /\ Saving(q)
    BY <2>1 DEF Loading, Saving
  <2>3. \A q \in P : pc[q] \in {"lockLoad", "read"} => fd[q] # None
    BY DEF Opened
  <2> QED BY <2>1, <2>2, <2>3, WatchedLooked
<1>7. ASSUME NEW p \in P, SaveFails(p) PROVE Looked'
  <2>1. /\ \A q \in P : pc'[q] = IF q = p THEN "idle" ELSE pc[q]
        /\ \A q \in P : fd'[q] = IF q = p THEN None ELSE fd[q]
        /\ pc[p] \in {"open", "lock", "write", "sync", "rename"}
        /\ look' = Watch /\ UNCHANGED dir
    BY <1>7 DEF SaveFails, Return, TypeOK
  <2>2. \A i \in Inodes : ~Saving(p) \/ i # fd[p] => content'[i] = content[i]
    BY <1>7 DEF SaveFails, TypeOK, Saving
  <2>3. \A q \in P : /\ Loading(q)' <=> Loading(q)
                     /\ Loading(q) => pc'[q] = pc[q] /\ fd'[q] = fd[q]
                     /\ Saving(q)' <=> q # p /\ Saving(q)
    BY <2>1 DEF Loading, Saving
  <2>4. \A q \in P : pc[q] \in {"lockLoad", "read"} => fd[q] \in Inodes
    BY DEF Opened, TypeOK, Names
  <2> QED BY <2>1, <2>2, <2>3, <2>4, WatchedLooked
<1>8. ASSUME NEW p \in P, LoadCall(p) PROVE Looked'
  BY <1>8 DEF LoadCall, Goto, Looked, Loading, Saving, File, FileAt,
     Everything, TypeOK, diskVars, procVars
<1>9. ASSUME NEW p \in P, LoadStat(p) PROVE Looked'
  BY <1>9 DEF LoadStat, Goto, Looked, Loading, Saving, File, FileAt,
     Everything, TypeOK, diskVars, procVars
<1>10. ASSUME NEW p \in P, LoadMissing(p) PROVE Looked'
  BY <1>10 DEF LoadMissing, Goto, Looked, Loading, Saving, File, FileAt,
     Everything, TypeOK, diskVars, procVars
<1>11. ASSUME NEW p \in P, LoadOpen(p) PROVE Looked'
  <2>1. /\ \A q \in P : pc'[q] = IF q = p THEN "lockLoad" ELSE pc[q]
        /\ \A q \in P : fd'[q] = IF q = p THEN dir.path ELSE fd[q]
        /\ pc[p] = "openLoad" /\ UNCHANGED <<dir, content, look>>
    BY <1>11 DEF LoadOpen, Goto, TypeOK, diskVars
  <2>2. dir.path # None /\ dir.path # dir.tmp
    BY <2>1 DEF Opened, NamesApart
  <2>3. \A q \in P : (Loading(q)' <=> Loading(q)) /\ (Saving(q)' <=> Saving(q))
    BY <2>1 DEF Loading, Saving
  <2>4. CASE dir.contended
    <3>1. \A q \in P : Loading(q) => look[q] = Everything
      BY <2>4 DEF Looked
    <3> QED BY <2>1, <2>3, <2>4, <3>1 DEF Looked, Loading
  <2>5. CASE ~dir.contended
    <3>1. content[dir.path] \in look[p] /\ \A q \in P : Saving(q) => fd[q] # dir.path
      BY <2>1, <2>2, <2>5 DEF Looked, Loading, File, FileAt, AllPublished, Published
    <3>2. \A q \in P : Saving(q) => fd'[q] = fd[q]
      BY <2>1 DEF Saving
    <3>3. File' = File
      BY <2>1 DEF File, FileAt
    <3> QED BY <2>1, <2>2, <2>3, <2>5, <3>1, <3>2, <3>3 DEF Looked
  <2> QED BY <2>4, <2>5
<1>12. ASSUME NEW p \in P, LoadLock(p) PROVE Looked'
  BY <1>12 DEF LoadLock, Goto, Looked, Loading, Saving, File, FileAt,
     Everything, TypeOK, diskVars, procVars
<1>13. ASSUME NEW p \in P, LoadRead(p) PROVE Looked'
  BY <1>13 DEF LoadRead, Return, Looked, Loading, Saving, File, FileAt,
     Everything, TypeOK, diskVars, procVars
<1>14. ASSUME NEW p \in P, Die(p) PROVE Looked'
  BY <1>14 DEF Die, Gone, Looked, Loading, Saving, File, FileAt, Everything,
     TypeOK, diskVars, procVars
<1>15. CASE JournalCommit
  BY <1>15 DEF JournalCommit, Looked, Loading, Saving, File, FileAt,
     Everything, TypeOK, diskVars, procVars
<1>16. CASE PowerCut
  BY <1>16 DEF PowerCut, Gone, Looked, Loading, Saving, File, FileAt,
     Everything, TypeOK, diskVars, procVars
<1>17. CASE UNCHANGED vars
  BY <1>17 DEF vars, Looked, Loading, Saving, File, FileAt, Everything,
     TypeOK, diskVars, procVars
<1>18. ASSUME NEW p \in P, LoadFails(p) PROVE Looked'
  BY <1>18 DEF LoadFails, Return, Looked, Loading, Saving, File, FileAt,
     Everything, TypeOK, diskVars
<1> QED BY <1>1, <1>2, <1>3, <1>4, <1>5, <1>6, <1>7, <1>8, <1>9, <1>10, <1>11,
       <1>12, <1>13, <1>14, <1>15, <1>16, <1>17, <1>18
     DEF Next, SaveStep, LoadStep

\* Every step keeps the order of the mtimes.
LEMMA StepTimes ==
  TypeOK /\ InodesLeft /\ NamesApart /\ Opened /\ "coarse" \notin Features /\
    Times /\ [Next]_vars
    => Times'
<1> SUFFICES ASSUME TypeOK, InodesLeft, NamesApart, Opened, "coarse" \notin
                  Features, Times, [Next]_vars
    PROVE Times'
  OBVIOUS
<1>1. ASSUME NEW p \in P, SaveCall(p) PROVE Times'
  BY <1>1 DEF SaveCall, Goto, Times, TypeOK, diskVars, procVars
<1>2. ASSUME NEW p \in P, OpenTmp(p) PROVE Times'
  <2>1. TmpInode \in Inodes
    BY <1>2, TmpFound DEF OpenTmp, Goto
  <2>2. /\ clock' \in Nat /\ clock' > clock
        /\ mtime' = [mtime EXCEPT ![TmpInode] = clock'] /\ mtime \in [Inodes -> Nat]
    BY <1>2, <2>1, Stamped DEF OpenTmp, TypeOK
  <2>3. /\ dir'.path = dir.path /\ dir'.tmp = TmpInode /\ UNCHANGED <<modTime, loaded>>
        /\ \A q \in P : pc'[q] \in {"lockLoad", "read"} => pc[q] = pc'[q] /\ fd'[q] = fd[q]
        /\ dir.path # TmpInode
    BY <1>2, TmpFound DEF OpenTmp, Goto, TypeOK, Dirs, NamesApart, InUse, Inodes
  <2>4. \A q \in P : /\ modTime[q] \in Nat /\ loaded[q].time \in Nat
                     /\ modTime[q] <= clock /\ loaded[q].time <= clock
    BY DEF Times, TypeOK
  <2>5. \A i \in Inodes : mtime'[i] = IF i = TmpInode THEN clock' ELSE mtime[i]
    BY <2>2
  <2>6. \A q \in P : pc'[q] \in {"lockLoad", "read"} => dir.path \in Inodes
    BY <2>3 DEF Opened, NamesApart, InUse
  <2>7. /\ \A i \in Inodes : mtime'[i] <= clock'
        /\ \A i, j \in Inodes : mtime'[i] > 0 /\ mtime'[i] = mtime'[j] => i = j
    BY <2>2, <2>5 DEF Times, TypeOK
  <2>8. \A q \in P : /\ modTime[q] <= clock' /\ loaded[q].time <= clock'
                     /\ mtime'[TmpInode] \notin {modTime[q], loaded[q].time}
    BY <2>1, <2>2, <2>4, <2>5 DEF TypeOK
  <2>9. \A q \in P : pc'[q] \in {"lockLoad", "read"} /\ modTime[q] = mtime'[dir.path]
                       => fd'[q] = dir.path
    BY <2>3, <2>5, <2>6 DEF Times
  <2> QED BY <2>3, <2>7, <2>8, <2>9 DEF Times
<1>3. ASSUME NEW p \in P, LockTmp(p) PROVE Times'
  BY <1>3 DEF LockTmp, Goto, Times, TypeOK, diskVars, procVars
<1>4. ASSUME NEW p \in P, WriteTmp(p) PROVE Times'
  BY <1>4 DEF WriteTmp, Goto, Stamp, Times, TypeOK, diskVars, procVars
<1>5. ASSUME NEW p \in P, SyncTmp(p) PROVE Times'
  BY <1>5 DEF SyncTmp, Goto, Times, TypeOK, diskVars, procVars
<1>6. ASSUME NEW p \in P, Rename(p) PROVE Times'
  BY <1>6 DEF Rename, Return, Times, TypeOK, diskVars, procVars
<1>7. ASSUME NEW p \in P, SaveFails(p) PROVE Times'
  <2>1. CASE pc[p] # "write"
    BY <1>7, <2>1 DEF SaveFails, Return, Times, TypeOK
  <2>2. CASE pc[p] = "write"
    <3>1. fd[p] \in Inodes
      BY <2>2 DEF Opened, Saving, TypeOK, Names
    <3>2. /\ clock' \in Nat /\ clock' > clock
          /\ mtime' = [mtime EXCEPT ![fd[p]] = clock'] /\ mtime \in [Inodes -> Nat]
      BY <1>7, <2>2, <3>1, Stamped DEF SaveFails, TypeOK
    <3>3. /\ UNCHANGED <<dir, modTime, loaded>>
          /\ \A q \in P : pc'[q] \in {"lockLoad", "read"} => pc[q] = pc'[q] /\ fd'[q] = fd[q]
      BY <1>7 DEF SaveFails, Return, TypeOK
    <3> QED BY <3>1, <3>2, <3>3 DEF Times, TypeOK, Opened, NamesApart, InUse
  <2> QED BY <2>1, <2>2
<1>8. ASSUME NEW p \in P, LoadCall(p) PROVE Times'
  BY <1>8 DEF LoadCall, Goto, Times, TypeOK, diskVars, procVars
<1>9. ASSUME NEW p \in P, LoadStat(p) PROVE Times'
  <2>1. /\ \A q \in P : pc'[q] = IF q = p THEN "openLoad" ELSE pc[q]
        /\ \A q \in P \ {p} : modTime'[q] = modTime[q] /\ loaded'[q] = loaded[q]
        /\ modTime'[p] \in {0, mtime[dir.path], modTime[p]}
        /\ loaded'[p].time \in {0, modTime[p], loaded[p].time}
        /\ UNCHANGED <<dir, mtime, clock>>
    BY <1>9 DEF LoadStat, Goto, TypeOK, diskVars
  <2>2. /\ pc'[p] \notin {"lockLoad", "read"}
        /\ \A q \in P \ {p} : fd'[q] = fd[q]
    BY <1>9, <2>1 DEF LoadStat, Goto, TypeOK
  <2>3. dir.tmp # None => mtime[dir.tmp] > 0
    BY DEF NamesApart, InUse
  <2>6. /\ dir.path \in Inodes /\ mtime[dir.path] <= clock /\ dir.path # dir.tmp
        /\ dir.tmp # None => dir.tmp \in Inodes /\ mtime[dir.tmp] # mtime[dir.path]
    BY <1>9 DEF LoadStat, Times, NamesApart, InUse
  <2>4. ASSUME NEW q \in P
        PROVE  /\ modTime'[q] <= clock /\ loaded'[q].time <= clock
               /\ dir.tmp # None => mtime[dir.tmp] \notin {modTime'[q], loaded'[q].time}
    <3>1. /\ clock \in Nat /\ modTime[p] \in Nat /\ modTime[p] <= clock
          /\ modTime[q] \in Nat /\ modTime[q] <= clock
          /\ loaded[p].time \in Nat /\ loaded[p].time <= clock
          /\ loaded[q].time \in Nat /\ loaded[q].time <= clock
          /\ dir.tmp # None => mtime[dir.tmp] \notin {modTime[p], loaded[p].time,
                                                      modTime[q], loaded[q].time}
      BY DEF Times, TypeOK
    <3>2. CASE q = p
      BY <2>1, <2>3, <2>6, <3>1, <3>2
    <3> QED BY <2>1, <3>1, <3>2
  <2>5. ASSUME NEW q \in P, pc'[q] \in {"lockLoad", "read"}, modTime'[q] = mtime[dir.path]
        PROVE  fd'[q] = dir.path
    BY <2>1, <2>2, <2>5 DEF Times
  <2> QED BY <2>1, <2>4, <2>5 DEF Times
<1>10. ASSUME NEW p \in P, LoadMissing(p) PROVE Times'
  <2>1. /\ \A q \in P : pc'[q] = IF q = p THEN "idle" ELSE pc[q]
        /\ \A q \in P \ {p} : modTime'[q] = modTime[q] /\ loaded'[q] = loaded[q]
        /\ modTime'[p] \in {0, modTime[p]}
        /\ loaded'[p].time \in {0, modTime[p], loaded[p].time}
        /\ UNCHANGED <<dir, mtime, clock>>
    BY <1>10 DEF LoadMissing, Goto, TypeOK, diskVars
  <2>2. /\ pc'[p] \notin {"lockLoad", "read"}
        /\ \A q \in P \ {p} : fd'[q] = fd[q]
    BY <1>10, <2>1 DEF LoadMissing, Goto, TypeOK
  <2>3. dir.tmp # None => mtime[dir.tmp] > 0
    BY DEF NamesApart, InUse
  <2>4. ASSUME NEW q \in P
        PROVE  /\ modTime'[q] <= clock /\ loaded'[q].time <= clock
               /\ dir.tmp # None => mtime[dir.tmp] \notin {modTime'[q], loaded'[q].time}
    <3>1. /\ clock \in Nat /\ modTime[p] \in Nat /\ modTime[p] <= clock
          /\ modTime[q] \in Nat /\ modTime[q] <= clock
          /\ loaded[p].time \in Nat /\ loaded[p].time <= clock
          /\ loaded[q].time \in Nat /\ loaded[q].time <= clock
          /\ dir.tmp # None => mtime[dir.tmp] \notin {modTime[p], loaded[p].time,
                                                      modTime[q], loaded[q].time}
      BY DEF Times, TypeOK
    <3>2. CASE q = p
      BY <2>1, <2>3, <3>1, <3>2
    <3> QED BY <2>1, <3>1, <3>2
  <2>5. ASSUME NEW q \in P, pc'[q] \in {"lockLoad", "read"}, modTime'[q] = mtime[dir.path]
        PROVE  fd'[q] = dir.path
    BY <2>1, <2>2, <2>5 DEF Times
  <2> QED BY <2>1, <2>4, <2>5 DEF Times
<1>11. ASSUME NEW p \in P, LoadOpen(p) PROVE Times'
  BY <1>11 DEF LoadOpen, Goto, Times, TypeOK, diskVars, procVars
<1>12. ASSUME NEW p \in P, LoadLock(p) PROVE Times'
  BY <1>12 DEF LoadLock, Goto, Times, TypeOK, diskVars, procVars
<1>13. ASSUME NEW p \in P, LoadRead(p) PROVE Times'
  <2>1. /\ \A q \in P : pc'[q] = IF q = p THEN "idle" ELSE pc[q]
        /\ \A q \in P \ {p} : modTime'[q] = modTime[q] /\ loaded'[q] = loaded[q]
        /\ modTime'[p] \in {0, modTime[p]}
        /\ loaded'[p].time \in {0, modTime[p], loaded[p].time}
        /\ UNCHANGED <<dir, mtime, clock>>
    BY <1>13 DEF LoadRead, Return, TypeOK, diskVars
  <2>2. /\ pc'[p] \notin {"lockLoad", "read"}
        /\ \A q \in P \ {p} : fd'[q] = fd[q]
    BY <1>13, <2>1 DEF LoadRead, Return, TypeOK
  <2>3. dir.tmp # None => mtime[dir.tmp] > 0
    BY DEF NamesApart, InUse
  <2>4. ASSUME NEW q \in P
        PROVE  /\ modTime'[q] <= clock /\ loaded'[q].time <= clock
               /\ dir.tmp # None => mtime[dir.tmp] \notin {modTime'[q], loaded'[q].time}
    <3>1. /\ clock \in Nat /\ modTime[p] \in Nat /\ modTime[p] <= clock
          /\ modTime[q] \in Nat /\ modTime[q] <= clock
          /\ loaded[p].time \in Nat /\ loaded[p].time <= clock
          /\ loaded[q].time \in Nat /\ loaded[q].time <= clock
          /\ dir.tmp # None => mtime[dir.tmp] \notin {modTime[p], loaded[p].time,
                                                      modTime[q], loaded[q].time}
      BY DEF Times, TypeOK
    <3>2. CASE q = p
      BY <2>1, <2>3, <3>1, <3>2
    <3> QED BY <2>1, <3>1, <3>2
  <2>5. ASSUME NEW q \in P, pc'[q] \in {"lockLoad", "read"}, modTime'[q] = mtime[dir.path]
        PROVE  fd'[q] = dir.path
    BY <2>1, <2>2, <2>5 DEF Times
  <2> QED BY <2>1, <2>4, <2>5 DEF Times
<1>14. ASSUME NEW p \in P, Die(p) PROVE Times'
  <2>1. /\ \A q \in P : pc'[q] = IF q = p THEN "idle" ELSE pc[q]
        /\ \A q \in P : modTime'[q] = IF q = p THEN 0 ELSE modTime[q]
        /\ \A q \in P : loaded'[q].time = IF q = p THEN 0 ELSE loaded[q].time
        /\ \A q \in P \ {p} : fd'[q] = fd[q]
        /\ UNCHANGED <<dir, mtime, clock>>
    BY <1>14 DEF Die, Gone, diskVars
  <2>2. dir.tmp # None => mtime[dir.tmp] > 0
    BY DEF NamesApart, InUse
  <2> QED BY <2>1, <2>2 DEF Times, TypeOK
<1>15. CASE JournalCommit
  BY <1>15 DEF JournalCommit, Times, TypeOK, diskVars, procVars
<1>16. CASE PowerCut
  <2>1. /\ \A q \in P : pc'[q] = "idle" /\ modTime'[q] = 0 /\ loaded'[q].time = 0
        /\ dir' \in {dir, durable} /\ UNCHANGED <<mtime, clock>>
    BY <1>16 DEF PowerCut, Gone
  <2>2. dir'.tmp # None => mtime[dir'.tmp] > 0
    BY <2>1 DEF NamesApart, InUse
  <2> QED BY <2>1, <2>2 DEF Times, TypeOK
<1>17. CASE UNCHANGED vars
  BY <1>17 DEF vars, Times, TypeOK, diskVars, procVars
<1>18. ASSUME NEW p \in P, LoadFails(p) PROVE Times'
  <2>1. /\ \A q \in P : pc'[q] = IF q = p THEN "idle" ELSE pc[q]
        /\ \A q \in P \ {p} : modTime'[q] = modTime[q] /\ loaded'[q] = loaded[q]
        /\ modTime'[p] \in {0, modTime[p]}
        /\ loaded'[p].time \in {0, modTime[p], loaded[p].time}
        /\ UNCHANGED <<dir, mtime, clock>>
    BY <1>18 DEF LoadFails, Return, TypeOK, diskVars
  <2>2. /\ pc'[p] \notin {"lockLoad", "read"}
        /\ \A q \in P \ {p} : fd'[q] = fd[q]
    BY <1>18, <2>1 DEF LoadFails, Return, TypeOK
  <2>3. dir.tmp # None => mtime[dir.tmp] > 0
    BY DEF NamesApart, InUse
  <2>4. ASSUME NEW q \in P
        PROVE  /\ modTime'[q] <= clock /\ loaded'[q].time <= clock
               /\ dir.tmp # None => mtime[dir.tmp] \notin {modTime'[q], loaded'[q].time}
    <3>1. /\ clock \in Nat /\ modTime[p] \in Nat /\ modTime[p] <= clock
          /\ modTime[q] \in Nat /\ modTime[q] <= clock
          /\ loaded[p].time \in Nat /\ loaded[p].time <= clock
          /\ loaded[q].time \in Nat /\ loaded[q].time <= clock
          /\ dir.tmp # None => mtime[dir.tmp] \notin {modTime[p], loaded[p].time,
                                                      modTime[q], loaded[q].time}
      BY DEF Times, TypeOK
    <3>2. CASE q = p
      BY <2>1, <2>3, <3>1, <3>2
    <3> QED BY <2>1, <3>1, <3>2
  <2>5. ASSUME NEW q \in P, pc'[q] \in {"lockLoad", "read"}, modTime'[q] = mtime[dir.path]
        PROVE  fd'[q] = dir.path
    BY <2>1, <2>2, <2>5 DEF Times
  <2> QED BY <2>1, <2>4, <2>5 DEF Times
<1> QED BY <1>1, <1>2, <1>3, <1>4, <1>5, <1>6, <1>7, <1>8, <1>9, <1>10, <1>11,
       <1>12, <1>13, <1>14, <1>15, <1>16, <1>17, <1>18
     DEF Next, SaveStep, LoadStep

\* A Load that missed a Save leaves a time behind that tells.
LEMMA StepWatched ==
  TypeOK /\ InodesLeft /\ NamesApart /\ Opened /\ "coarse" \notin Features /\
    Times /\ WatcherMissesNothing /\ [Next]_vars
    => WatcherMissesNothing'
<1> SUFFICES ASSUME TypeOK, InodesLeft, NamesApart, Opened, "coarse" \notin
                  Features, Times, WatcherMissesNothing, [Next]_vars
    PROVE WatcherMissesNothing'
  OBVIOUS
<1>1. ASSUME NEW p \in P, SaveCall(p) PROVE WatcherMissesNothing'
  BY <1>1 DEF SaveCall, Goto, WatcherMissesNothing, File, FileAt, diskVars,
     procVars
<1>2. ASSUME NEW p \in P, OpenTmp(p) PROVE WatcherMissesNothing'
  <2>1. /\ TmpInode \in Inodes /\ TmpInode # dir.path
    BY <1>2, TmpFound DEF OpenTmp, Goto, NamesApart, InUse, Inodes
  <2>2. /\ mtime' = [mtime EXCEPT ![TmpInode] = clock'] /\ dir'.path = dir.path
        /\ content' = [content EXCEPT ![TmpInode] = "empty"] /\ UNCHANGED loaded
    BY <1>2, <2>1, Stamped DEF OpenTmp, TypeOK, Dirs
  <2>3. dir.path # None => /\ mtime'[dir.path] = mtime[dir.path]
                           /\ content'[dir.path] = content[dir.path]
    BY <2>1, <2>2 DEF NamesApart, InUse, TypeOK
  <2> QED BY <2>2, <2>3 DEF WatcherMissesNothing, File, FileAt
<1>3. ASSUME NEW p \in P, LockTmp(p) PROVE WatcherMissesNothing'
  BY <1>3 DEF LockTmp, Goto, WatcherMissesNothing, File, FileAt, diskVars,
     procVars
<1>4. ASSUME NEW p \in P, WriteTmp(p) PROVE WatcherMissesNothing'
  <2>1. fd[p] \in Inodes
    BY <1>4 DEF WriteTmp, Goto, Opened, Saving, TypeOK, Names
  <2>2. /\ mtime' = [mtime EXCEPT ![fd[p]] = clock'] /\ clock' > clock /\ clock' \in Nat
        /\ UNCHANGED <<dir, loaded>>
    BY <1>4, <2>1, Stamped DEF WriteTmp, TypeOK
  <2>3. \A i \in Inodes : i # fd[p] => mtime'[i] = mtime[i] /\ content'[i] = content[i]
    BY <1>4, <2>2 DEF WriteTmp, TypeOK
  <2>4. \A q \in P : mtime'[fd[p]] # loaded[q].time
    BY <2>1, <2>2 DEF Times, TypeOK
  <2> QED BY <2>2, <2>3, <2>4 DEF WatcherMissesNothing, File, FileAt, NamesApart, InUse
<1>5. ASSUME NEW p \in P, SyncTmp(p) PROVE WatcherMissesNothing'
  BY <1>5 DEF SyncTmp, Goto, WatcherMissesNothing, File, FileAt, diskVars,
     procVars
<1>6. ASSUME NEW p \in P, Rename(p) PROVE WatcherMissesNothing'
  <2>1. /\ UNCHANGED <<mtime, content, loaded>>
        /\ dir'.path = IF dir.tmp = None THEN dir.path ELSE dir.tmp
    BY <1>6 DEF Rename
  <2> QED BY <2>1 DEF WatcherMissesNothing, File, FileAt, Times
<1>7. ASSUME NEW p \in P, SaveFails(p) PROVE WatcherMissesNothing'
  <2>1. CASE pc[p] # "write"
    BY <1>7, <2>1 DEF SaveFails, WatcherMissesNothing, File, FileAt
  <2>2. CASE pc[p] = "write"
    <3>1. fd[p] \in Inodes
      BY <1>7, <2>2 DEF SaveFails, Opened, Saving, TypeOK, Names
    <3>2. /\ mtime' = [mtime EXCEPT ![fd[p]] = clock'] /\ clock' > clock /\ clock' \in Nat
          /\ UNCHANGED <<dir, loaded>>
      BY <1>7, <2>2, <3>1, Stamped DEF SaveFails, TypeOK
    <3>3. \A i \in Inodes : i # fd[p] => mtime'[i] = mtime[i] /\ content'[i] = content[i]
      BY <1>7, <2>2, <3>2 DEF SaveFails, TypeOK
    <3>4. \A q \in P : mtime'[fd[p]] # loaded[q].time
      BY <3>1, <3>2 DEF Times, TypeOK
    <3> QED BY <3>2, <3>3, <3>4 DEF WatcherMissesNothing, File, FileAt, NamesApart, InUse
  <2> QED BY <2>1, <2>2
<1>8. ASSUME NEW p \in P, LoadCall(p) PROVE WatcherMissesNothing'
  BY <1>8 DEF LoadCall, Goto, WatcherMissesNothing, File, FileAt, diskVars,
     procVars
<1>9. ASSUME NEW p \in P, LoadStat(p) PROVE WatcherMissesNothing'
  BY <1>9 DEF LoadStat, Goto, WatcherMissesNothing, File, FileAt, diskVars,
     procVars
<1>10. ASSUME NEW p \in P, LoadMissing(p) PROVE WatcherMissesNothing'
  BY <1>10 DEF LoadMissing, diskVars, WatcherMissesNothing
<1>11. ASSUME NEW p \in P, LoadOpen(p) PROVE WatcherMissesNothing'
  BY <1>11 DEF LoadOpen, Goto, WatcherMissesNothing, File, FileAt, diskVars,
     procVars
<1>12. ASSUME NEW p \in P, LoadLock(p) PROVE WatcherMissesNothing'
  BY <1>12 DEF LoadLock, Goto, WatcherMissesNothing, File, FileAt, diskVars,
     procVars
<1>13. ASSUME NEW p \in P, LoadRead(p) PROVE WatcherMissesNothing'
  <2>1. /\ UNCHANGED <<dir, mtime, content>> /\ pc[p] = "read"
        /\ \A q \in P \ {p} : loaded'[q] = loaded[q]
        /\ \/ loaded' = loaded
           \/ loaded'[p] = [val |-> content[fd[p]], time |-> modTime[p]]
    BY <1>13 DEF LoadRead, diskVars, TypeOK
  <2>2. modTime[p] = mtime[dir.path] => fd[p] = dir.path
    BY <2>1 DEF Times
  <2> QED BY <2>1, <2>2 DEF WatcherMissesNothing, File, FileAt
<1>14. ASSUME NEW p \in P, Die(p) PROVE WatcherMissesNothing'
  <2>1. /\ \A q \in P : loaded'[q] = loaded[q] \/ loaded'[q].time = 0
        /\ UNCHANGED <<dir, mtime, content>>
    BY <1>14 DEF Die, Gone, diskVars
  <2>2. dir.path # None => mtime[dir.path] > 0
    BY DEF NamesApart, InUse
  <2> QED BY <2>1, <2>2 DEF WatcherMissesNothing, File, FileAt
<1>15. CASE JournalCommit
  BY <1>15 DEF JournalCommit, WatcherMissesNothing, File, FileAt, diskVars,
     procVars
<1>16. CASE PowerCut
  <2>1. /\ \A q \in P : loaded'[q].time = 0
        /\ dir' \in {dir, durable} /\ UNCHANGED mtime
    BY <1>16 DEF PowerCut, Gone
  <2>2. dir'.path # None => mtime[dir'.path] > 0
    BY <2>1 DEF NamesApart, InUse
  <2> QED BY <2>1, <2>2 DEF WatcherMissesNothing
<1>17. CASE UNCHANGED vars
  BY <1>17 DEF vars, WatcherMissesNothing, File, FileAt, diskVars, procVars
<1>18. ASSUME NEW p \in P, LoadFails(p) PROVE WatcherMissesNothing'
  BY <1>18 DEF LoadFails, diskVars, WatcherMissesNothing, File, FileAt
<1> QED BY <1>1, <1>2, <1>3, <1>4, <1>5, <1>6, <1>7, <1>8, <1>9, <1>10, <1>11,
       <1>12, <1>13, <1>14, <1>15, <1>16, <1>17, <1>18
     DEF Next, SaveStep, LoadStep

\* At first there is no file.
LEMMA InitIInv == Init => IInv /\ WatchInv
<1> SUFFICES ASSUME Init PROVE IInv /\ WatchInv
  OBVIOUS
<1>1. Opening = {}
  BY DEF Init, Opening
<1>2. InodesLeft
  <2>1. IsFiniteSet(Opening) /\ Cardinality(Opening) = 0
    BY <1>1, FS_EmptySet
  <2>2. 0 \in 0 .. MaxSaves /\ (\A i \in Inodes : mtime[i] > 0 <=> i <= 0)
          /\ 0 + Cardinality(Opening) <= saves
    BY <2>1 DEF Init, Inodes
  <2> QED BY <2>1, <2>2 DEF InodesLeft
<1>3. TypeOK
  BY DEF Init, TypeOK, Dirs, Names, Contents, Garbled
<1>4. NamesApart /\ Undisturbed /\ AllPublished /\ Opened /\ Looked
  BY DEF Init, NamesApart, InUse, Undisturbed, AllPublished, Published, Opened, Looked,
         Loading, Saving
<1>5. WatchInv
  BY DEF Init, WatchInv, Times, WatcherMissesNothing
<1> QED BY <1>2, <1>3, <1>4, <1>5 DEF IInv

\* Every step keeps the invariant.
LEMMA StepIInv == IInv /\ [Next]_vars => IInv'
<1> SUFFICES ASSUME IInv, [Next]_vars PROVE IInv'
  OBVIOUS
<1>1. TypeOK'
  BY StepTypeOK DEF IInv
<1> QED BY <1>1, StepInodesLeft, StepNamesApart, StepOpened, StepUndisturbed, StepAllPublished,
           StepLooked DEF IInv

\* The invariant is inductive.
LEMMA Invariance == Spec => []IInv
BY InitIInv, StepIInv, PTL DEF Spec

\* Type correctness.
THEOREM TypeCorrect == Spec => []TypeOK
<1>1. IInv => TypeOK
  BY DEF IInv
<1> QED BY <1>1, Invariance, PTL

\* The published state file is whole unless Saves have met, whatever Saves
\* fail, processes die and power cuts tear.
THEOREM PublishedIsWhole == Spec => []WholeUnlessContended
<1>1. IInv => WholeUnlessContended
  BY DEF IInv, AllPublished, Published, TypeOK, WholeUnlessContended, File, FileAt, Garbled
<1> QED BY <1>1, Invariance, PTL

\* If no two changes of a file get one time, the watcher reloads whatever it
\* has not loaded, also when Saves have met.
THEOREM WatcherSeesEverySave ==
  ASSUME "coarse" \notin Features PROVE Spec => []WatcherMissesNothing
<1>1. WatchInv /\ IInv /\ [Next]_vars => WatchInv'
  BY StepTimes, StepWatched DEF WatchInv, IInv
<1>2. WatchInv => WatcherMissesNothing
  BY DEF WatchInv
<1> QED BY <1>1, <1>2, InitIInv, Invariance, PTL DEF Spec

\* What a Save that publishes nothing shows to a Load.
LEMMA NothingNew ==
  ASSUME TypeOK, TypeOK', Looked, ~dir.contended, ~dir'.contended, look' = Watch, File' = File
  PROVE  look' = look
<1>1. \A q \in P : look[q] # {} => File \in look[q] /\ look'[q] = look[q] \cup {File'}
  BY Watched DEF TypeOK, Looked
<1>2. \A q \in P : look[q] = {} <=> look'[q] = {}
  BY Watched DEF TypeOK
<1>3. ASSUME NEW q \in P PROVE look'[q] = look[q]
  <2>1. CASE look[q] # {}
    <3>1. File' \in look[q] /\ look'[q] = look[q] \cup {File'}
      BY <1>1, <2>1
    <3> QED BY <3>1
  <2> QED BY <1>2, <2>1
<1> QED BY <1>3 DEF TypeOK

\* The part of the file system that the abstract file is read off.
LEMMA FileFramed ==
  ASSUME NamesApart, dir'.path = dir.path, durable' = durable,
         \A i \in Inodes \ {dir.tmp} : mtime[i] > 0 => content'[i] = content[i]
  PROVE  File' = File /\ FileAt(durable.path)' = FileAt(durable.path)
<1>1. \A n \in {dir.path, durable.path} : n # None => n \in Inodes \ {dir.tmp} /\ mtime[n] > 0
  BY DEF NamesApart, InUse
<1> QED BY <1>1 DEF File, FileAt

\* Every step is one of the atomic file, or none.
LEMMA AtomicStep == IInv /\ [Next]_vars => [Abstract!AtomicNext]_(Abstract!fileVars)
<1> SUFFICES ASSUME TypeOK, InodesLeft, NamesApart, Undisturbed, AllPublished, Opened, Looked,
                    TypeOK', [Next]_vars, ~dir.contended, ~dir'.contended
             PROVE  Abstract!AtomicNext \/ UNCHANGED Abstract!fileVars
  BY StepIInv DEF IInv, Abstract!AtomicNext
<1> DEFINE stable == FileAt(durable.path)
<1>1. ASSUME NEW p \in P, SaveCall(p) PROVE Abstract!BeginSave(p)
  <2>1. UNCHANGED <<File, stable, look, answer>> /\ wanted[p] = None
    BY <1>1 DEF SaveCall, Goto, diskVars, File, FileAt, Opened, Saving
  <2>2. PICK v \in Vals : wanted' = [wanted EXCEPT ![p] = v]
    BY <1>1 DEF SaveCall
  <2>3. v \in (Contents \cup {None}) \ {None}
    BY DEF Contents
  <2> QED BY <2>1, <2>2, <2>3 DEF Abstract!BeginSave
<1>2. ASSUME NEW p \in P, OpenTmp(p) PROVE UNCHANGED Abstract!fileVars
  <2>1. /\ TmpInode \in Inodes /\ dir.tmp = None => mtime[TmpInode] = 0
        /\ dir.tmp # None => TmpInode = dir.tmp
    BY <1>2, TmpFound DEF OpenTmp, Goto
  <2>2. dir'.path = dir.path /\ content' = [content EXCEPT ![TmpInode] = "empty"]
    BY <1>2 DEF OpenTmp, TypeOK, Dirs
  <2>3. \A i \in Inodes \ {dir.tmp} : mtime[i] > 0 => content'[i] = content[i]
    BY <2>1, <2>2 DEF TypeOK
  <2>4. UNCHANGED <<File, stable>>
    BY <1>2, <2>2, <2>3, FileFramed DEF OpenTmp
  <2> QED BY <1>2, <2>4, NothingNew DEF OpenTmp, Abstract!fileVars
<1>3. ASSUME NEW p \in P, LockTmp(p) \/ SyncTmp(p) \/ LoadStat(p) \/ LoadOpen(p) \/ LoadLock(p)
      PROVE  UNCHANGED Abstract!fileVars
  BY <1>3 DEF LockTmp, SyncTmp, LoadStat, LoadOpen, LoadLock, diskVars, File, FileAt,
     Abstract!fileVars
<1>4. ASSUME NEW p \in P, WriteTmp(p) PROVE UNCHANGED Abstract!fileVars
  <2>1. fd[p] = dir.tmp
    BY <1>4 DEF WriteTmp, Goto, AllPublished, Undisturbed, Saving
  <2>2. \A i \in Inodes \ {dir.tmp} : content'[i] = content[i]
    BY <1>4, <2>1 DEF WriteTmp, TypeOK
  <2>3. UNCHANGED <<File, stable>>
    BY <1>4, <2>2, FileFramed DEF WriteTmp
  <2> QED BY <1>4, <2>3, NothingNew DEF WriteTmp, Abstract!fileVars
<1>5. ASSUME NEW p \in P, Rename(p) PROVE Abstract!Replace(p)
  <2>1. /\ Saving(p) /\ alone[p] /\ wanted[p] # None
        /\ fd[p] = dir.tmp /\ dir.tmp # None /\ content[dir.tmp] = wanted[p]
    BY <1>5 DEF Rename, Saving, AllPublished, Undisturbed, Opened
  <2>2. dir'.path = dir.tmp /\ UNCHANGED <<durable, content, answer>> /\ look' = Watch
        /\ wanted' = [wanted EXCEPT ![p] = None]
    BY <1>5, <2>1 DEF Rename
  <2>3. File' = wanted[p] /\ stable' = stable
    BY <2>1, <2>2 DEF File, FileAt
  <2>4. look' = Abstract!Seen
    BY <2>2 DEF Watch, Abstract!Seen, File, FileAt
  <2> QED BY <2>1, <2>2, <2>3, <2>4 DEF Abstract!Replace
<1>6. ASSUME NEW p \in P, SaveFails(p) PROVE Abstract!GiveUp(p)
  <2>1. wanted[p] # None /\ UNCHANGED <<dir, durable, answer>> /\ look' = Watch
        /\ wanted' = [wanted EXCEPT ![p] = None]
    BY <1>6 DEF SaveFails, Opened, Saving
  <2>2. \A i \in Inodes \ {dir.tmp} : content'[i] = content[i]
    BY <1>6 DEF SaveFails, AllPublished, Undisturbed, Saving, TypeOK
  <2>3. UNCHANGED <<File, stable>>
    BY <2>1, <2>2, FileFramed
  <2>4. look' = look
    BY <2>1, <2>3, NothingNew
  <2> QED BY <2>1, <2>3, <2>4 DEF Abstract!GiveUp
<1>7. ASSUME NEW p \in P, LoadCall(p) PROVE Abstract!BeginLoad(p)
  BY <1>7 DEF LoadCall, diskVars, File, FileAt, Abstract!BeginLoad
<1>8. ASSUME NEW p \in P, LoadMissing(p) PROVE Abstract!EndLoad(p)
  <2>1. None \in look[p]
    BY <1>8 DEF LoadMissing, Goto, Looked, Loading, File, FileAt
  <2>2. UNCHANGED <<File, stable, wanted>>
    BY <1>8 DEF LoadMissing, diskVars, File, FileAt
  <2> QED BY <1>8, <2>1, <2>2 DEF LoadMissing, Abstract!EndLoad
<1>9. ASSUME NEW p \in P, LoadRead(p) PROVE Abstract!EndLoad(p)
  <2>1. fd[p] \in Inodes
    BY <1>9 DEF LoadRead, Opened, TypeOK, Names
  <2>2. content[fd[p]] \in look[p]
    BY <1>9, <2>1 DEF LoadRead, Looked, Everything, TypeOK
  <2>3. UNCHANGED <<File, stable, wanted>>
    BY <1>9 DEF LoadRead, diskVars, File, FileAt
  <2> QED BY <1>9, <2>2, <2>3 DEF LoadRead, Abstract!EndLoad
<1>10. ASSUME NEW p \in P, Die(p) PROVE Abstract!Die(p)
  <2>1. UNCHANGED <<File, stable>>
    BY <1>10 DEF Die, diskVars, File, FileAt
  <2>2. /\ wanted' = [wanted EXCEPT ![p] = None] /\ look' = [look EXCEPT ![p] = {}]
        /\ answer' = [answer EXCEPT ![p] = None]
    BY <1>10 DEF Die, Gone, TypeOK
  <2> QED BY <2>1, <2>2 DEF Abstract!Die
<1>11. ASSUME JournalCommit PROVE Abstract!Settle
  BY <1>11 DEF JournalCommit, procVars, File, FileAt, Abstract!Settle
<1>12. ASSUME PowerCut PROVE Abstract!PowerCut
  <2>1. /\ dir' \in {dir, durable} /\ durable' = dir'
        /\ \A i \in Inodes : content[i] = synced[i] => content'[i] = content[i]
        /\ wanted' = [p \in P |-> None] /\ look' = [p \in P |-> {}]
        /\ answer' = [p \in P |-> None]
    BY <1>12 DEF PowerCut, Gone
  <2>2. \A d \in {dir, durable} : ~d.contended /\ d.path # None
                                    => content'[d.path] = content[d.path]
    BY <2>1 DEF AllPublished, Published, NamesApart, InUse
  <2>3. File' \in {File, stable} /\ stable' = File'
    BY <2>1, <2>2 DEF File, FileAt
  <2> QED BY <2>1, <2>3 DEF Abstract!PowerCut
<1>13. CASE UNCHANGED vars
  BY <1>13 DEF vars, diskVars, procVars, File, FileAt, Abstract!fileVars
<1>14. ASSUME NEW p \in P, LoadFails(p) PROVE Abstract!FailLoad(p)
  BY <1>14 DEF LoadFails, diskVars, File, FileAt, Abstract!FailLoad
<1> QED BY <1>1, <1>2, <1>3, <1>4, <1>5, <1>6, <1>7, <1>8, <1>9, <1>10, <1>11, <1>12, <1>13, <1>14
        DEF Next, SaveStep, LoadStep, Abstract!AtomicNext

\* A Save replaces the state file in one step or does nothing, and a Load
\* answers with what the file held in the meantime, as long as Saves do not
\* meet, through failures, crashes and power cuts.
THEOREM SavesAreAtomic == Spec => ImplementsAtomicFile
<1>1. Init => Abstract!AtomicInit
  BY DEF Init, Abstract!AtomicInit, File, FileAt
<1> QED BY <1>1, Invariance, AtomicStep, PTL
        DEF Spec, ImplementsAtomicFile, Abstract!AtomicSpec

=============================================================================
