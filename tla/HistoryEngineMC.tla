-------------------------- MODULE HistoryEngineMC --------------------------
(* Two commands, one of which does not survive its line, for all of the      *)
(* modes; an old history with a duplicate.                                   *)
EXTENDS HistoryEngine

MCCommand == {"ls", "cd", "odd", "d"}

MCRest == [c \in {"odd"} |-> "d"]

MCSetting == {[dedup_mode |-> m, max_length |-> n] : m \in Mode, n \in {0, 2}}

MCFound == {<<Legacy("ls"), Legacy("cd"), Legacy("ls")>>}

Sessions == Permutations(Session)

=============================================================================
