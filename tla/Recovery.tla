------------------------------ MODULE Recovery ------------------------------
(***************************************************************************)
(* The log file of polarysdb and its reading at a start: writeEntry,       *)
(* ReadAll and readEntry of modules/wal/wal.go, Load and recoverFromWAL of *)
(* database.go, for the writes of one record of one table.                 *)
(*                                                                         *)
(* A log entry is HeaderUnits units of header (its length, its checksum)   *)
(* and some units of data; the file is a sequence of units, of which a     *)
(* power cut, a crash or a full disk may leave any part of the last        *)
(* entries, a power cut also zeros in their place.  New opens the file for *)
(* appending, whatever is at its end.  A reader that has lost its place    *)
(* takes any bytes for a header.  A checksum is taken to fail on anything  *)
(* but the data it was made for, and what passes under a header of zeros,  *)
(* no data at all, does not decrypt: the key is not the zero key, under    *)
(* which the log is not encrypted.  The queue, the batches and the         *)
(* rotation of the log are in module WAL, and the change of the key in     *)
(* KeyRotation: here it decrypts every entry.                              *)
(***************************************************************************)
EXTENDS Integers, Sequences, SequencesExt, Values

CONSTANTS
  Written,    \* types of the values that the application writes
  MaxWrites,  \* bounds: writes, units of data in an entry, starts
  MaxBody,
  MaxStarts,
  Features    \* "fails", "powerCut": what a run lets happen

ASSUME RecoveryAssumption ==
  /\ Written \subseteq Values
  /\ {MaxWrites, MaxStarts} \subseteq Nat /\ MaxBody \in Nat \ {0}

VARIABLES
  phase,    \* "run", "down", "read" (ReadAll), "apply" (the rest of Init)
  file,     \* the log file: units [id, unit]
  zeros,    \* the places in it where a power cut left zeros instead
  synced,   \* how many units are on disk
  sizes,    \* units of data of each entry
  queue,    \* entries between Append and the file
  broken,   \* bufio.Writer has met an error, and fails ever after
  entries,  \* what has been written: a type for each id
  mem,      \* db.data: [id, value] of the record
  saved,    \* the state file
  pos, got, \* ReadAll: the place in the file, the ids of the entries read
  starts

logVars == <<file, zeros, synced, sizes, queue, broken, entries>>
vars == <<phase, logVars, mem, saved, pos, got, starts>>

Ids == 1 .. MaxWrites
HeaderUnits == 2
Units == [id : Ids, unit : 1 .. HeaderUnits + MaxBody]
Nothing == [id |-> 0, value |-> Nil]

\* Type invariant.
TypeOK ==
  /\ phase \in {"run", "down", "read", "apply"}
  /\ file \in Seq(Units) /\ zeros \subseteq 1 .. Len(file) /\ synced \in 0 .. Len(file)
  /\ sizes \in [Ids -> 1 .. MaxBody]
  /\ queue \in Seq(1 .. Len(entries)) /\ broken \in BOOLEAN
  /\ entries \in Seq(Written) /\ Len(entries) <= MaxWrites
  /\ {mem, saved} \subseteq [id : 0 .. Len(entries), value : Values]
  /\ pos \in 0 .. Len(file) /\ got \in Seq(Ids)
  /\ starts \in 0 .. MaxStarts

Init ==
  /\ phase = "run" /\ file = <<>> /\ zeros = {} /\ synced = 0
  /\ sizes \in [Ids -> 1 .. MaxBody]
  /\ queue = <<>> /\ broken = FALSE /\ entries = <<>>
  /\ mem = Nothing /\ saved = Nothing
  /\ pos = 0 /\ got = <<>> /\ starts = 0

-----------------------------------------------------------------------------
(***************************************************************************)
(* Running.                                                                *)
(***************************************************************************)

\* A write is handed to the log and applied.
Write ==
  /\ phase = "run" /\ Len(entries) < MaxWrites
  /\ \E v \in Written : /\ entries' = Append(entries, v)
                        /\ mem' = [id |-> Len(entries'), value |-> v]
  /\ queue' = Append(queue, Len(entries'))
  /\ UNCHANGED <<phase, file, zeros, synced, sizes, broken, saved, pos, got, starts>>

\* The units of an entry, as writeEntry writes them.
Frame(id) == [u \in 1 .. HeaderUnits + sizes[id] |-> [id |-> id, unit |-> u]]

\* writeEntry and Flush.
FlushEntry ==
  /\ phase = "run" /\ queue # <<>> /\ ~broken
  /\ file' = file \o Frame(Head(queue))
  /\ queue' = Tail(queue)
  /\ UNCHANGED <<phase, zeros, synced, sizes, broken, entries, mem, saved, pos, got, starts>>

\* A part of the entry reaches the file, and bufio.Writer keeps its error: the
\* entries after it fail too.
FlushFails ==
  /\ "fails" \in Features
  /\ phase = "run" /\ queue # <<>> /\ ~broken
  /\ \E n \in 0 .. HeaderUnits + sizes[Head(queue)] - 1 :
       file' = file \o SubSeq(Frame(Head(queue)), 1, n)
  /\ queue' = Tail(queue) /\ broken' = TRUE
  /\ UNCHANGED <<phase, zeros, synced, sizes, entries, mem, saved, pos, got, starts>>

Sync ==
  /\ phase = "run" /\ synced < Len(file) /\ ~broken
  /\ synced' = Len(file)
  /\ UNCHANGED <<phase, file, zeros, sizes, queue, broken, entries, mem, saved, pos, got, starts>>

\* flushToDisk; the value is in the file as JSON.
Save ==
  /\ phase = "run" /\ mem # Nothing
  /\ saved' = [mem EXCEPT !.value = Json(@)]
  /\ UNCHANGED <<phase, logVars, mem, pos, got, starts>>

-----------------------------------------------------------------------------
(***************************************************************************)
(* The end of the process, and the next start.                             *)
(***************************************************************************)

\* What a crash leaves of the log: what is in the file, or after a power cut
\* any length of it from what is on disk, of which the end may be zeros.
Crash ==
  /\ phase \in {"run", "read"} /\ starts < MaxStarts
  /\ phase' = "down"
  /\ LET least == IF "powerCut" \in Features THEN synced ELSE Len(file) IN
     \E n, z \in least .. Len(file) :
       file' = SubSeq(file, 1, n) /\ zeros' = (zeros \cup z + 1 .. n) \cap 1 .. n
  /\ synced' = IF "powerCut" \in Features THEN Len(file') ELSE synced
  /\ queue' = <<>> /\ broken' = FALSE /\ mem' = Nothing /\ pos' = 0 /\ got' = <<>>
  /\ UNCHANGED <<sizes, entries, saved, starts>>

\* Mutant: a log that was synced before the last save is not read again.
StartLate ==
  /\ phase = "down" /\ phase' = "read"
  /\ starts' = starts + 1 /\ mem' = saved
  /\ pos' = IF saved = Nothing THEN 0 ELSE synced
  /\ UNCHANGED <<logVars, saved, got>>

\* Load, and wal.New with O_APPEND.
Start ==
  /\ phase = "down" /\ phase' = "read"
  /\ starts' = starts + 1 /\ mem' = saved
  /\ UNCHANGED <<logVars, saved, pos, got>>

\* The header at the place of the reader: its length if its first unit is one
\* of an entry, and anything otherwise.
TooLarge == MaxBody + 1
Lengths == IF file[pos + 1].unit = 1 /\ pos + 1 \notin zeros THEN {sizes[file[pos + 1].id]}
           ELSE 0 .. TooLarge

\* Mutant: the checksum is not compared.
IntactHeader(length) ==
  file[pos + 1].unit = 1

\* Checksum and data belong together.
Intact(length) ==
  /\ file[pos + 1].unit = 1 /\ zeros \cap pos + 1 .. pos + HeaderUnits + length = {}
  /\ SubSeq(file, pos + 1, pos + HeaderUnits + length) = Frame(file[pos + 1].id)

\* Mutant: what follows a bad entry is looked for where the entry began.
ReadEntryAgain ==
  /\ phase = "read"
  /\ LET rest == Len(file) - pos
     IN \/ /\ rest = 0
           /\ phase' = "apply" /\ UNCHANGED <<pos, got>>
        \/ /\ rest >= HeaderUnits
           /\ \E length \in Lengths :
                /\ length < TooLarge
                /\ IF rest >= HeaderUnits + length /\ Intact(length)
                   THEN /\ pos' = pos + HeaderUnits + length
                        /\ got' = Append(got, file[pos + 1].id)
                   ELSE UNCHANGED <<pos, got>>
           /\ UNCHANGED phase
  /\ UNCHANGED <<logVars, mem, saved, starts>>

\* One call of readEntry in the loop of ReadAll.  io.EOF ends the loop: there
\* is no header left, or not one byte of the data.  Every other error is
\* logged, and the loop goes on behind what has been consumed.
ReadEntry ==
  /\ phase = "read"
  /\ LET rest == Len(file) - pos
     IN \/ /\ rest = 0
           /\ phase' = "apply" /\ UNCHANGED <<pos, got>>
        \/ /\ rest \in 1 .. HeaderUnits - 1
           /\ pos' = Len(file) /\ UNCHANGED <<phase, got>>
        \/ /\ rest >= HeaderUnits
           /\ \E length \in Lengths :
                \/ /\ length = TooLarge
                   /\ pos' = pos + HeaderUnits /\ UNCHANGED <<phase, got>>
                \/ /\ length < TooLarge /\ rest = HeaderUnits /\ length > 0
                   /\ phase' = "apply" /\ UNCHANGED <<pos, got>>
                \/ /\ length < TooLarge /\ (rest > HeaderUnits \/ length = 0)
                   /\ pos' = IF rest < HeaderUnits + length THEN Len(file)
                             ELSE pos + HeaderUnits + length
                   /\ got' = IF rest >= HeaderUnits + length /\ Intact(length)
                             THEN Append(got, file[pos + 1].id) ELSE got
                   /\ UNCHANGED phase
  /\ UNCHANGED <<logVars, mem, saved, starts>>

\* Mutant: the entries are applied from the last to the first.
ApplyReversed ==
  /\ phase = "apply" /\ phase' = "run"
  /\ mem' = IF got = <<>> THEN mem
            ELSE [id |-> Head(got), value |-> Logged(entries[Head(got)])]
  /\ UNCHANGED <<logVars, saved, pos, got, starts>>

\* applyWALEntry for every entry: the last one is what remains.
Apply ==
  /\ phase = "apply" /\ phase' = "run"
  /\ mem' = IF got = <<>> THEN mem
            ELSE [id |-> Last(got), value |-> Logged(entries[Last(got)])]
  /\ UNCHANGED <<logVars, saved, pos, got, starts>>

Next ==
  \/ Write \/ FlushEntry \/ FlushFails \/ Sync \/ Save
  \/ Crash \/ Start \/ ReadEntry \/ Apply

Spec == Init /\ [][Next]_vars

\* Init goes on.
FairSpec == Spec /\ WF_vars(ReadEntry)

-----------------------------------------------------------------------------
(***************************************************************************)
(* Properties.                                                             *)
(***************************************************************************)

\* The entries that are whole in the file, and those of them before the first
\* unit of one that is not.
WholeAt(i) ==
  /\ file[i].unit = 1
  /\ LET n == HeaderUnits + sizes[file[i].id]
     IN /\ i + n - 1 <= Len(file) /\ zeros \cap i .. i + n - 1 = {}
        /\ SubSeq(file, i, i + n - 1) = Frame(file[i].id)
Whole == {file[i].id : i \in {i \in 1 .. Len(file) : WholeAt(i)}}
Torn == {file[i].id : i \in 1 .. Len(file)} \ Whole
BeforeTear == {id \in Whole : \A t \in Torn : id < t}

\* The entries before the first one that was cut off are all recovered,
\* wherever the crash or the failed write has left the file.
PrefixRecovered ==
  phase = "apply" => BeforeTear \subseteq ToSet(got)

\* Also when the reader has lost its place it answers with entries that are
\* whole in the file, each at most once and in the order they were written.
NothingInvented ==
  /\ ToSet(got) \subseteq Whole
  /\ \A i, j \in DOMAIN got : i < j => got[i] < got[j]

\* A start does not put an older value in the place of the saved one, provided
\* that the log up to the saved one can be read.
NoStepBack ==
  phase = "run" /\ starts > 0 /\ saved.id \in BeforeTear => mem.id >= saved.id

\* Whatever the value has come through, the state file or the log and how
\* often, a Read into the type that was written answers as it did before, and
\* so does a ReadBatch, which copies the value first.
ReadsWhatWasWritten ==
  phase = "run" /\ mem # Nothing =>
    LET t == entries[mem.id]
    IN \A v \in {mem.value, Copied(mem.value)} : ReadInto(v, t) = ReadInto(t, t)

\* A damaged log does not keep the database from opening: every round of
\* ReadAll's loop gets further.
ReadAllEnds == phase = "read" ~> phase # "read"

\* README.md:561, "Every write is persisted before confirmation": an entry
\* that is whole in the log is there after a start.
WholeRecovered == phase = "apply" => Whole \subseteq ToSet(got)

\* No start puts an older value in the place of the saved one.
NeverStepsBack == phase = "run" /\ starts > 0 => mem.id >= saved.id

\* No Read of the type that was written panics.
ReadNeverPanics ==
  phase = "run" /\ mem # Nothing =>
    ReadInto(mem.value, entries[mem.id]).result # "panic"

=============================================================================
