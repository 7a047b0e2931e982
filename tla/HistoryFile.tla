---------------------------- MODULE HistoryFile ----------------------------
(***************************************************************************)
(* What the locking of the history promises (docs/development/             *)
(* history-engine.md, "Locking and atomicity"): to whoever looks at the    *)
(* file, it changes by one entry at its end or by the compaction of        *)
(* everything that is in it, and by nothing else.                          *)
(***************************************************************************)
EXTENDS Sequences

CONSTANTS Entry,            \* entries
          Single,           \* those that stand for one execution
          Remnant,          \* those a line leaves whose first half is corrupt
          Options,          \* history options
          Compacted(_, _)   \* what an option leaves of a list of entries

VARIABLES file,     \* the entries that load from the data file
          torn,     \* does it end in the middle of a line?
          option    \* history options

vars == <<file, torn, option>>

Init ==
    /\ file \in Seq(Entry) /\ torn \in BOOLEAN
    /\ option \in Options

\* One more line.
Appended ==
    /\ ~torn /\ ~torn'
    /\ \E e \in Single : file' = file \o <<e>>
    /\ UNCHANGED option

\* One more line, on the remains of one that was not written to its end: it is
\* lost with them, but for a second half.
Glued ==
    /\ torn /\ ~torn'
    /\ file' \in {file} \union {file \o <<e>> : e \in Remnant}
    /\ UNCHANGED option

\* Some of one more line.
Tear ==
    /\ torn'
    /\ UNCHANGED <<file, option>>

Compact ==
    /\ file' = Compacted(option, file)
    /\ ~torn'
    /\ UNCHANGED option

Next == Appended \/ Glued \/ Tear \/ Compact

Spec == Init /\ [][Next]_vars

=============================================================================
