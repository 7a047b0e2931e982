--------------------------- MODULE HistoryEngine ---------------------------
(***************************************************************************)
(* The command history of several shells on one file (editor/history.py,   *)
(* and its use in core/shell.py): every command is appended under the      *)
(* sidecar lock, the whole file is compacted by a shell that ends, shells  *)
(* are killed, writes fail.                                                *)
(***************************************************************************)
EXTENDS HistoryEntries

CONSTANTS
    Typed,       \* commands that are executed
    Ignored,     \* those add() discards
    Setting,     \* history options the sessions may be configured with
    Found,       \* contents of the data file before the first session
    MaxFaults,   \* bound on the writes that fail
    MaxKills,    \* bound on the shells that are killed
    LockMayFail, \* no fcntl, or the lock file cannot be opened or locked
    ReadMayFail, \* may read_text fail in a compaction?
    Nobody,
    NoFile       \* of a temporary file that does not exist

ASSUME SettingAssumption == Setting \subseteq Options
ASSUME FoundAssumption ==
    \A es \in Found : /\ es \in Seq(Entry)
                      /\ \A i \in DOMAIN es : es[i].command \notin Splitting
ASSUME InputAssumption == Typed \subseteq Command /\ Ignored \subseteq Command
ASSUME NobodyAssumption == Nobody \notin Session

VARIABLES
    option,      \* _dedup_mode and _max_length, the same in all sessions
    pc,          \* of each session, within the engine
    memory,      \* _entries
    pending,     \* the entry of add() on its way to the file
    snapshot,    \* what a compaction has read
    holder,      \* of the exclusive lock
    disk,        \* the entries that load from the data file
    torn,        \* does it end in the middle of a line?
    tmp,         \* the temporary file
    found,       \* the data file at first
    log,         \* the entries whose lines have been completed
    faults, kills, clock

vars == <<option, pc, memory, pending, snapshot, holder, disk, torn, tmp, found, log,
          faults, kills, clock>>

outside == <<option, found, faults, kills, clock>>

Init ==
    /\ option \in Setting
    /\ pc = [s \in Session |-> "down"]
    /\ memory = [s \in Session |-> <<>>]
    /\ pending = [s \in Session |-> <<>>]
    /\ snapshot = [s \in Session |-> <<>>]
    /\ holder = Nobody
    /\ found \in Found /\ disk = found /\ torn = FALSE
    /\ tmp = NoFile
    /\ log = <<>>
    /\ faults = 0 /\ kills = 0 /\ clock = 1

At(s, place) == pc' = [pc EXCEPT ![s] = place]

----------------------------------------------------------------------------
(* Locking.                                                                *)

PassesAlways == TRUE                         \* variant: append takes no lock

\* An operation that is over within one step finds the lock free, or goes on
\* without it.
Passes == holder = Nobody \/ LockMayFail

IgnoresLock(s) == holder' = s                \* variant: nobody waits

Acquire(s) ==
    \/ holder = Nobody /\ holder' = s
    \/ LockMayFail /\ UNCHANGED holder

Release(s) == holder' = IF holder = s THEN Nobody ELSE holder

----------------------------------------------------------------------------
(* A session.                                                              *)

\* load: when the shell starts, and when the option "path" is set again.
Load(s) ==
    /\ pc[s] \in {"down", "idle"}
    /\ Passes
    /\ memory' = [memory EXCEPT ![s] = ApplyDedup(option.dedup_mode, disk)]
    /\ At(s, "idle")
    /\ UNCHANGED <<pending, snapshot, holder, disk, torn, tmp, log, outside>>

\* add, up to the lock.
Add(s, c) ==
    /\ pc[s] = "idle" /\ clock \in Time
    /\ c \notin Ignored
    /\ LET entry == [command |-> c, timestamp |-> clock, session |-> s, frequency |-> 1]
       IN  /\ memory' = [memory EXCEPT ![s] =
                            Newest(option.max_length,
                                   AddWithDedup(option.dedup_mode, @, entry))]
           /\ pending' = [pending EXCEPT ![s] = <<entry>>]
    /\ clock' = clock + 1
    /\ At(s, "append")
    /\ UNCHANGED <<option, snapshot, holder, disk, torn, tmp, found, log, faults, kills>>

\* HistoryStorage.append.  (A line that lacks nothing but its end is counted as
\* torn, one that is split as torn in its first half.)
AppendLine(s) ==
    /\ pc[s] = "append" /\ Passes
    /\ torn' = FALSE
    /\ LET line == IF torn THEN LoadedGlued(pending[s][1]) ELSE Loaded(pending[s][1])
       IN  disk' = disk \o line /\ log' = log \o line
    /\ pending' = [pending EXCEPT ![s] = <<>>]
    /\ At(s, "idle")
    /\ UNCHANGED <<memory, snapshot, holder, tmp, outside>>

\* The file cannot be opened, or the device is full before the line is written
\* or in the middle of it; the OSError is ignored.
AppendFails(s) ==
    /\ pc[s] = "append" /\ Passes
    /\ faults < MaxFaults /\ faults' = faults + 1
    /\ torn' \in {torn, TRUE}
    /\ pending' = [pending EXCEPT ![s] = <<>>]
    /\ At(s, "idle")
    /\ UNCHANGED <<option, memory, snapshot, holder, disk, tmp, found, log, kills, clock>>

\* atomic_compact: take the lock and read.
BeginSave(s) ==
    /\ pc[s] = "idle"
    /\ Acquire(s)
    /\ \/ snapshot' = [snapshot EXCEPT ![s] = disk]
       \/ ReadMayFail /\ snapshot' = [snapshot EXCEPT ![s] = <<>>]
    /\ At(s, "write")
    /\ UNCHANGED <<memory, pending, disk, torn, tmp, log, outside>>

\* _save_unlocked, until the temporary file is closed.
WriteTmp(s) ==
    /\ pc[s] = "write"
    /\ tmp' = Compacted(option, snapshot[s])
    /\ At(s, "replace")
    /\ UNCHANGED <<memory, pending, snapshot, holder, disk, torn, log, outside>>

\* A shell that is no more.
Forgotten(s) ==
    /\ memory' = [memory EXCEPT ![s] = <<>>]
    /\ pending' = [pending EXCEPT ![s] = <<>>]
    /\ snapshot' = [snapshot EXCEPT ![s] = <<>>]
    /\ Release(s)
    /\ At(s, "down")

\* os.replace; the rest of a torn line is not in the new file.  A shell that has
\* saved ends.
Replace(s) ==
    /\ pc[s] = "replace"
    /\ IF tmp = NoFile THEN UNCHANGED <<disk, torn>>
       ELSE disk' = tmp /\ torn' = FALSE
    /\ tmp' = NoFile
    /\ Forgotten(s)
    /\ UNCHANGED <<log, outside>>

\* The directory or the temporary file cannot be written: it is removed, and
\* the file stays as it is.
SaveFails(s) ==
    /\ pc[s] \in {"write", "replace"}
    /\ faults < MaxFaults /\ faults' = faults + 1
    /\ tmp' \in {tmp, NoFile}
    /\ Forgotten(s)
    /\ UNCHANGED <<option, disk, torn, found, log, kills, clock>>

\* The shell is killed: the kernel drops its lock, a temporary file stays.
Killed(s) ==
    /\ pc[s] # "down"
    /\ kills < MaxKills /\ kills' = kills + 1
    /\ torn' \in {torn} \union (IF pc[s] = "append" /\ Passes THEN {TRUE} ELSE {})
    /\ Forgotten(s)
    /\ UNCHANGED <<option, disk, tmp, found, log, faults, clock>>

Next ==
    \E s \in Session :
        \/ Load(s) \/ AppendLine(s) \/ AppendFails(s)
        \/ \E c \in Typed : Add(s, c)
        \/ BeginSave(s) \/ WriteTmp(s) \/ Replace(s) \/ SaveFails(s)
        \/ Killed(s)

Spec == Init /\ [][Next]_vars

----------------------------------------------------------------------------
TypeOK ==
    /\ option \in Setting
    /\ pc \in [Session -> {"down", "idle", "append", "write", "replace"}]
    /\ memory \in [Session -> Seq(Entry)]
    /\ \A s \in Session :
          IF pc[s] = "append" THEN pending[s][1] \in Entry ELSE pending[s] = <<>>
    /\ snapshot \in [Session -> Seq(Entry)]
    /\ holder \in Session \union {Nobody}
    /\ disk \in Seq(Entry) /\ torn \in BOOLEAN
    /\ tmp = NoFile \/ tmp \in Seq(Entry)
    /\ log \in Seq(Entry)

\* The last command that was completed is in the file as long as compaction
\* orders by recency.
NewestSurvives ==
    log # <<>> /\ option.dedup_mode # "global" => Has(disk, Last(log).command)

\* A session recalls every command that is in the file by its hand, unless it
\* has reached its limit.
RecallsItsOwn ==
    option.max_length = 0 =>
        \A s \in Session : pc[s] = "idle" =>
            \A i \in DOMAIN disk :
                disk[i].session = s /\ disk[i].timestamp > 0
                    => Has(memory[s], disk[i].command)

\* The lists of Ctrl+R hold no duplicate the mode excludes.
Deduplicated ==
    \A s \in Session : \A i, j \in DOMAIN memory[s] :
        i < j /\ memory[s][i].command = memory[s][j].command =>
            /\ option.dedup_mode # "global"
            /\ option.dedup_mode = "consecutive" => j > i + 1

\* The data file is worth what was found in it and every line completed since:
\* whoever appends, compacts, fails or is killed in whatever order, dropping the
\* duplicates of the file gives what dropping those of the whole log gives.  For
\* "global" this is the sum of the frequencies, the newest timestamp and its
\* session; for the others the order of the commands.  The newest command is in
\* the file, and a session's own list holds its commands, without duplicates.
NothingLost ==
    /\ TypeOK /\ NewestSurvives /\ RecallsItsOwn /\ Deduplicated
    /\ option.max_length = 0 =>
           ApplyDedup(option.dedup_mode, disk)
               = ApplyDedup(option.dedup_mode, found \o log)

\* The lock: nobody else writes between the read and the replace of a
\* compaction, so what is put in place is made of what is there.
SaveIsExclusive ==
    \A s \in Session : pc[s] \in {"write", "replace"} =>
        /\ holder = s /\ snapshot[s] = disk
        /\ pc[s] = "replace" => tmp = Compacted(option, disk)

\* The file as others see it.
File == INSTANCE HistoryFile WITH file <- disk

FileIsAtomic == File!Spec

=============================================================================
