----------------------------- MODULE PythonMode -----------------------------
(***************************************************************************)
(* Python command mode: PythonCommandMode and the part of PythonRuntime it *)
(* drives.  The mode keeps the lines of the statement being typed, and so  *)
(* does the runtime, each its own list; statements that ran are collected  *)
(* in the source buffer, which directives edit, open, save and run.        *)
(*                                                                         *)
(* A line is a record: code of some kind, a directive and its argument, or *)
(* a command word that lacks its "#".                                      *)
(***************************************************************************)
EXTENDS Integers, Sequences, SequencesExt

CONSTANTS
    FileNames,  \* files the session opens and saves
    NoFile,       \* no active file, and no argument of a directive
    Redirection,  \* an argument with "<" or ">" in it
    NoEdit,       \* no pending edit
    Missing,      \* content of a file that is not there
    Directory     \* content of a name that is a directory

VARIABLES
    inPython,     \* the mode runs
    atPrimary,    \* at_primary: no statement is being typed
    pending,      \* its lines, as the mode keeps them
    unit,         \* and as the runtime keeps them, _interactive_buffer
    source,       \* _buffer
    active,       \* _active_file; _edit_mode is on exactly while there is one
    pendingEdit,  \* _pending_edit
    workspace,    \* _cmd_globals: "new", or "used" since code ran in it
    files         \* the files on disk: their lines

pythonVars == <<inPython, atPrimary, pending, unit, source, active, pendingEdit, workspace, files>>

Code(text) == [is |-> "code", text |-> text]
Directive(name, arg) == [is |-> "directive", text |-> name, arg |-> arg]
BlankLine == Code("blank")

\* codeop.compile_command: "more" is needed, the lines are a "unit", or they are an "error".
\* An opener takes body lines and then a blank one, comments between them not counted; any
\* other line stands alone.
Compiled(lines) ==
    LET kinds == [i \in 1..Len(lines) |-> lines[i].text]
        told  == SelectSeq(Tail(kinds), LAMBDA k : k \notin {"comment", "indentation"})
        solid == {i \in 1..Len(told) : told[i] # "blank"}
        rest  == IF solid = {} THEN <<>>
                 ELSE SubSeq(told, CHOOSE i \in solid : \A j \in solid : i <= j, Len(told))
    IN  CASE \E i \in 1..Len(kinds) : kinds[i] = "syntax" -> "error"
          [] kinds[1] = "body" -> "error"
          [] kinds[1] # "opener" -> IF Len(kinds) = 1 THEN "unit" ELSE "error"
          [] \A i \in 1..Len(rest) : rest[i] = "body" -> "more"
          [] rest[Len(rest)] = "blank" /\ rest[1] = "body" -> "unit"
          [] OTHER -> "error"

\* How executing code ends: well, with an exception, by Ctrl+C, or by SystemExit.
Execution(lines) ==
    CASE \E i \in 1..Len(lines) : lines[i].text = "quits" -> "exit"
      [] \E i \in 1..Len(lines) : lines[i].text = "stopped" -> "interrupt"
      [] \E i \in 1..Len(lines) : lines[i].text = "fails" -> "error"
      [] OTHER -> "ok"
-----------------------------------------------------------------------------
PythonInit ==
    /\ inPython = FALSE /\ atPrimary = TRUE /\ pending = <<>> /\ unit = <<>>
    /\ source = <<>> /\ active = NoFile /\ pendingEdit = NoEdit /\ workspace = "new"

\* PythonRuntime: an empty input and a namespace of its own.
NewRuntime == unit' = <<>> /\ workspace' = "new"

\* A new PythonCommandMode with a new runtime each time.
EnterPython ==
    /\ ~inPython
    /\ inPython' = TRUE /\ atPrimary' = TRUE /\ pending' = <<>> /\ NewRuntime
    /\ source' = <<>> /\ active' = NoFile /\ pendingEdit' = NoEdit
    /\ UNCHANGED files

LeavePython == inPython' = FALSE
               /\ UNCHANGED <<atPrimary, pending, unit, source, active, pendingEdit, workspace, files>>

ShowsPrimary == atPrimary /\ pendingEdit = NoEdit

ClearInputBuffer == unit' = <<>>

CancelOwnInput ==            \* variant: the runtime keeps its lines
    /\ pending' = <<>> /\ pendingEdit' = NoEdit /\ atPrimary' = TRUE
    /\ UNCHANGED <<inPython, unit, source, active, workspace, files>>

\* Ctrl+C, or Ctrl+D in the middle of something: back to the primary prompt.
CancelInput ==
    /\ ClearInputBuffer
    /\ pending' = <<>> /\ pendingEdit' = NoEdit /\ atPrimary' = TRUE
    /\ UNCHANGED <<inPython, source, active, workspace, files>>

PythonEof == inPython /\ IF ShowsPrimary THEN LeavePython ELSE CancelInput

PythonInterrupt == inPython /\ CancelInput

Solid(l) == l.text \notin {"blank", "indentation"}

\* Whether the next line is indented for the user: as the last line that is not blank, and
\* deeper after a colon; a comment is at the margin.
NextPythonIndent(lines) ==
    LET solid == {i \in 1..Len(lines) : Solid(lines[i])}
    IN  solid # {} /\ lines[CHOOSE i \in solid : \A j \in solid : i >= j].text \in {"opener", "body"}

\* Enter on the indentation alone is a blank line.
Normalised(l) ==
    IF ~atPrimary /\ pendingEdit = NoEdit /\ NextPythonIndent(pending) /\ l.text = "indentation"
    THEN BlankLine ELSE l

\* splitlines: a final empty line is not a line.
NewLines(lines) == IF lines[Len(lines)].text = "blank" THEN Front(lines) ELSE lines

\* _collect_edit_line: the statement is applied as a whole once it is complete.
CollectEditLine(l) ==
    LET op    == pendingEdit
        lines == Append(op.lines, l)
        upto  == SubSeq(source, 1, op.line - 1)
        from  == SubSeq(source, IF op.op = "insert" THEN op.line ELSE op.line + 1, Len(source))
    IN  /\ inPython /\ pendingEdit # NoEdit
        /\ CASE Compiled(lines) = "error" ->
                  pendingEdit' = NoEdit /\ atPrimary' = TRUE /\ UNCHANGED source
             [] Compiled(lines) = "more" ->
                  pendingEdit' = [op EXCEPT !.lines = lines] /\ UNCHANGED <<source, atPrimary>>
             [] OTHER ->
                  /\ source' = upto \o NewLines(lines) \o from
                  /\ pendingEdit' = NoEdit /\ atPrimary' = TRUE
        /\ UNCHANGED <<inPython, pending, unit, active, workspace, files>>

\* What push_interactive answers: "more", a syntax "error", or how the statement ended.
Answer(lines) == IF Compiled(lines) = "unit" THEN Execution(lines) ELSE Compiled(lines)

PushInteractive(lines) ==
    /\ unit' = IF Compiled(lines) = "more" THEN lines ELSE <<>>
    /\ workspace' = IF Compiled(lines) = "unit" THEN "used" ELSE workspace

\* A line for the runtime: SystemExit ends the mode, and a statement that ran well is added to
\* the source buffer, unless its lines are empty.
Push(l) ==
    LET answer == Answer(Append(unit, l))
        typed  == Append(pending, l)
    IN  /\ inPython /\ pendingEdit = NoEdit
        /\ PushInteractive(Append(unit, l))
        /\ CASE answer = "more" ->
                  pending' = typed /\ atPrimary' = FALSE /\ UNCHANGED <<source, inPython>>
             [] answer = "exit" ->
                  pending' = typed /\ inPython' = FALSE /\ UNCHANGED <<source, atPrimary>>
             [] OTHER ->
                  /\ pending' = <<>> /\ atPrimary' = TRUE /\ UNCHANGED inPython
                  /\ source' = IF answer = "ok" /\ \E i \in 1..Len(typed) : Solid(typed[i])
                               THEN source \o typed ELSE source
        /\ UNCHANGED <<active, pendingEdit, files>>
-----------------------------------------------------------------------------
(***************************************************************************)
(* Directives, at the primary prompt.                                      *)
(***************************************************************************)
Readable(f) == files[f] \notin {Missing, Directory}

\* A file that is there may still be refused: no permission, no UTF-8, a failing disk.
HandleOpen(f) ==
    /\ \/ Readable(f) /\ source' = files[f] /\ active' = f
       \/ UNCHANGED <<source, active>>
    /\ UNCHANGED <<inPython, atPrimary, pending, unit, pendingEdit, workspace, files>>

\* What a buffer is on disk: its lines joined, and a newline unless they end in one already,
\* so that a last empty line is lost, and nothing is saved as one empty line.
Saved(lines) ==
    CASE lines = <<>> -> <<BlankLine>>
      [] Len(lines) > 1 /\ lines[Len(lines)] = BlankLine -> Front(lines)
      [] OTHER -> lines

\* The file is written in place: a failure leaves it as it was or with the beginning of the
\* text, and the active file is then the one it was.
HandleSave(f) ==
    LET target == IF f = NoFile THEN active ELSE f
        text   == Saved(source)
    IN  /\ IF target = NoFile \/ files[target] = Directory
           THEN UNCHANGED <<files, active>>
           ELSE \/ files' = [files EXCEPT ![target] = text] /\ active' = target
                \/ \E left \in {files[target]} \cup {SubSeq(text, 1, k) : k \in 0..Len(text) - 1} :
                      files' = [files EXCEPT ![target] = left] /\ UNCHANGED active
        /\ UNCHANGED <<inPython, atPrimary, pending, unit, source, pendingEdit, workspace>>

\* compile(source, ..., "exec"): the lines as a module, where an opener has a body.
CompilesAsModule(lines) ==
    LET told == SelectSeq(lines, LAMBDA l : Solid(l) /\ l.text # "comment")
    IN  \A i \in 1..Len(told) :
           /\ told[i].text # "syntax"
           /\ told[i].text = "body" => i > 1 /\ told[i - 1].text \in {"opener", "body"}
           /\ told[i].text = "opener" => i < Len(told) /\ told[i + 1].text = "body"

\* run_buffer: a buffer without text or with a syntax error does not run; one that runs does
\* so in the workspace, whatever its end.
RunBuffer(lines) ==
    workspace' = IF (\E i \in 1..Len(lines) : Solid(lines[i])) /\ CompilesAsModule(lines)
                 THEN "used" ELSE workspace

\* SystemExit and Ctrl+C end the run of the buffer and not the mode.
HandleRun == /\ RunBuffer(source)
             /\ UNCHANGED <<inPython, atPrimary, pending, unit, source, active, pendingEdit, files>>

\* #insert n and #replace n: the line is checked now, the edit is made when its text is complete.
HandleInsert(n) ==
    /\ pendingEdit' = IF n \in 1..Len(source) + 1 THEN [op |-> "insert", line |-> n, lines |-> <<>>]
                      ELSE NoEdit
    /\ UNCHANGED <<inPython, atPrimary, pending, unit, source, active, workspace, files>>

HandleReplace(n) ==
    /\ pendingEdit' = IF n \in 1..Len(source) THEN [op |-> "replace", line |-> n, lines |-> <<>>]
                      ELSE NoEdit
    /\ UNCHANGED <<inPython, atPrimary, pending, unit, source, active, workspace, files>>

\* #delete a:b, and #delete n for one line: the lines must be in the buffer.
HandleDelete(range) ==
    /\ source' = IF range[1] >= 1 /\ range[2] <= Len(source) /\ range[1] <= range[2]
                 THEN SubSeq(source, 1, range[1] - 1) \o SubSeq(source, range[2] + 1, Len(source))
                 ELSE source
    /\ UNCHANGED <<inPython, atPrimary, pending, unit, active, pendingEdit, workspace, files>>

HandleClear == /\ source' = <<>> /\ ClearInputBuffer
               /\ UNCHANGED <<inPython, atPrimary, pending, active, pendingEdit, workspace, files>>

\* PythonRuntime.reset: a new namespace, without an unfinished statement.
ResetWorkspace == unit' = <<>> /\ workspace' = "new"

HandleReset == /\ source' = <<>> /\ active' = NoFile /\ pendingEdit' = NoEdit /\ ResetWorkspace
               /\ UNCHANGED <<inPython, atPrimary, pending, files>>

\* Directives that only print, and everything that is refused.
Prints       == UNCHANGED pythonVars
HandleShow   == Prints
HandleEdit   == Prints
HandleAppend == Prints

NumberDirectives == {"insert", "replace", "delete"}

\* _parse_directive, with the tests that #insert, #replace and #delete make of their numbers:
\* some need an argument and #run takes none, and a redirection is no file name.
Malformed(l) ==
    CASE l.text = "open"              -> l.arg \in {NoFile, Redirection}
      [] l.text \in {"save", "show"}  -> l.arg = Redirection
      [] l.text \in NumberDirectives  -> l.arg \in {NoFile, Redirection} \cup FileNames
      [] l.text = "run"               -> l.arg # NoFile
      [] OTHER -> l.text \notin {"exit", "help", "clear", "reset", "append", "edit"}

\* _dispatch_directive.
Dispatch(l) ==
    /\ inPython /\ ShowsPrimary /\ l.is = "directive"
    /\ CASE Malformed(l)       -> Prints
         [] l.text = "exit"    -> LeavePython
         [] l.text = "open"    -> HandleOpen(l.arg)
         [] l.text = "save"    -> HandleSave(l.arg)
         [] l.text = "run"     -> HandleRun
         [] l.text = "insert"  -> HandleInsert(l.arg)
         [] l.text = "replace" -> HandleReplace(l.arg)
         [] l.text = "delete"  -> HandleDelete(l.arg)
         [] l.text = "clear"   -> HandleClear
         [] l.text = "reset"   -> HandleReset
         [] l.text = "show"    -> HandleShow
         [] l.text = "edit"    -> HandleEdit
         [] l.text = "append"  -> HandleAppend
         [] OTHER -> Prints

\* A directive's name without its "#" is refused with a hint.
MissingHash(l) == inPython /\ ShowsPrimary /\ l.is = "word" /\ Prints

\* Anywhere but at the primary prompt a directive is a comment of the program, and a word is
\* code: the name of a builtin of Python, or a name that is not defined.
AsCode(l) == CASE l.is = "directive" -> Code("comment")
               [] l.is = "word" -> Code(IF l.text \in {"open", "exit", "quit", "help"} THEN "simple" ELSE "fails")
               [] OTHER -> l

\* What the mode does with a line: a pending edit takes it first, then directives, then the
\* runtime.
PythonLine(l) ==
    \/ CollectEditLine(AsCode(l))
    \/ Dispatch(l)
    \/ MissingHash(l)
    \/ (atPrimary => l.is = "code") /\ Push(Normalised(AsCode(l)))
=============================================================================
