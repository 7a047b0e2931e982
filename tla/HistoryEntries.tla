--------------------------- MODULE HistoryEntries ---------------------------
(***************************************************************************)
(* History entries and what the engine does to lists of them               *)
(* (editor/history.py): reading back a line, the three ways of dropping    *)
(* duplicates, and compaction.                                             *)
(***************************************************************************)
EXTENDS Naturals, SequencesExt

CONSTANTS
    Command,     \* texts of commands
    Splitting,   \* those that hold a line separator which JSON leaves alone
    Rest,        \* what str.splitlines puts on a line of its own
    Time,        \* when commands are executed; 0 stands for never
    Session,     \* session ids
    Old          \* "legacy", the session id of migrated lines

ASSUME TextAssumption ==
    /\ Splitting \subseteq Command /\ Rest \in [Splitting -> Command \ Splitting]
    /\ Time \subseteq Nat \ {0}
    /\ Old \notin Session

Mode == {"none", "consecutive", "global"}

Entry == [command : Command, timestamp : Nat, session : Session \union {Old},
          frequency : Nat]

\* The options of set_history_option that matter here; 0 is no limit.
Options == [dedup_mode : Mode, max_length : Nat]

\* An entry that was not merged with another.
Single == [command : Command \ Splitting, timestamp : Time \union {0},
           session : Session \union {Old}, frequency : {1}]

Legacy(c) ==
    [command |-> c, timestamp |-> 0, session |-> Old, frequency |-> 1]

\* What _load_unlocked makes of the line written for an entry: the first half of
\* a line that is split begins with "{" and is skipped, the other does not and
\* is taken for a command.
Loaded(e) ==
    IF e.command \in Splitting THEN <<Legacy(Rest[e.command])>> ELSE <<e>>

\* What it makes of that line behind the remains of a torn one, with which the
\* first half makes one corrupt object.
LoadedGlued(e) ==
    IF e.command \in Splitting THEN <<Legacy(Rest[e.command])>> ELSE <<>>

\* The entries of second halves.
Remnant == {Legacy(Rest[c]) : c \in Splitting}

Has(es, c) == \E i \in DOMAIN es : es[i].command = c

Merged(prev, e) ==
    LET newest == IF e.timestamp >= prev.timestamp THEN e ELSE prev
    IN  [newest EXCEPT !.frequency = prev.frequency + e.frequency]

\* _dedup_global: merged into the place of the first occurrence.
DedupGlobal(entries) ==
    FoldLeft(LAMBDA out, e :
                 IF Has(out, e.command)
                 THEN [i \in DOMAIN out |-> IF out[i].command = e.command
                                            THEN Merged(out[i], e) ELSE out[i]]
                 ELSE Append(out, e),
             <<>>, entries)

\* The default: the first entry of each run.
DedupConsecutive(entries) ==
    FoldLeft(LAMBDA out, e :
                 IF out # <<>> /\ Last(out).command = e.command
                 THEN out ELSE Append(out, e),
             <<>>, entries)

ApplyDedup(mode, entries) ==
    CASE mode = "none"        -> entries
      [] mode = "global"      -> DedupGlobal(entries)
      [] mode = "consecutive" -> DedupConsecutive(entries)

\* entries[-n:], or all of them for n = 0.
Newest(n, entries) ==
    IF n = 0 \/ Len(entries) <= n THEN entries
    ELSE SubSeq(entries, Len(entries) - n + 1, Len(entries))

\* _compact of HistoryEngine.save.
Compacted(option, entries) ==
    Newest(option.max_length, ApplyDedup(option.dedup_mode, entries))

\* _add_with_dedup.
AddWithDedup(mode, entries, new) ==
    LET same == {i \in DOMAIN entries : entries[i].command = new.command}
    IN  CASE mode = "consecutive" /\ entries # <<>> /\ Last(entries).command = new.command
                 -> entries
          [] mode = "global" /\ same # {}
                 -> LET i == CHOOSE j \in same : \A k \in same : j <= k
                    IN  Append(RemoveAt(entries, i), Merged(entries[i], new))
          [] OTHER -> Append(entries, new)

=============================================================================
