------------------------------- MODULE Prompt -------------------------------
(***************************************************************************)
(* The interactive shell between two commands: the run loop asks the line  *)
(* editor for a line and decides what the answer is - a command, the first *)
(* line of a py block or of a here-document, a decision about a pasted     *)
(* text, or a line for Python mode - and the collectors ask for more.      *)
(*                                                                         *)
(* What a command does is left to the other modules; here it runs, which   *)
(* is what a text must never do before its user has said so.               *)
(***************************************************************************)
EXTENDS LineEditor, PythonMode

CONSTANTS
    History,     \* the entries the editor is given
    Pasted,      \* a character that occurs in pasted texts only
    Users        \* [strokes, lines, files, most]: what each types at the prompt and in Python
                 \* mode, what the files may hold at first, and the bound on what is typed

\* What was submitted before holds nothing that is pasted now.  A stroke is not empty, and the
\* terminal puts the markers of a paste around it and lets none stand within it.
ASSUME HistoryAssumption ==
    /\ History \in Seq(Seq(STRING))
    /\ \A i \in 1..Len(History) : \A j \in 1..Len(History[i]) : History[i][j] # Pasted
ASSUME UsersAssumption ==
    \A u \in Users : \A keys \in u.strokes :
        /\ keys \in Seq(STRING) /\ keys # <<>>
        /\ \A i \in 1..Len(keys) : keys[i] = PasteStart => i = 1
        /\ keys[1] = PasteStart => \A i \in 1..Len(keys) : keys[i] = PasteEnd <=> i = Len(keys)

VARIABLES
    at,       \* where the shell is: [in, lines, left, next, of]; next are the commands still
              \* to run of an entered line, whose text is of
    pend,     \* pending_multiline_paste: NoPaste, or the text in a sequence of one
    ran,      \* the last commands that ran
    asked,    \* an Enter was typed, outside the markers, since the last paste began, or
              \* waited to be read, or its line was being carried out, when it began
    user, typed

shellVars == <<at, pend, ran>>
typist == <<asked, user, typed>>
vars == <<editorVars, pythonVars, shellVars, typist>>

NoPaste == <<>>
Staged(text) == <<text>>

Place(in, lines, left) == [in |-> in, lines |-> lines, left |-> left, next |-> <<>>, of |-> <<>>]

AtPrompt == Place("prompt", <<>>, <<>>)
Left     == Place("left", <<>>, <<>>)
Crashed  == Place("crashed", <<>>, <<>>)

\* Between two commands of a line; behind the last one the shell is at its prompt.
Within(next, of) == IF next = <<>> THEN AtPrompt ELSE [AtPrompt EXCEPT !.next = next, !.of = of]

Init ==
    /\ EditorInit
    /\ PythonInit
    /\ at = AtPrompt /\ pend = NoPaste /\ ran = <<>>
    /\ asked = FALSE /\ typed = 0 /\ user \in Users
    /\ files \in [FileNames -> user.files]
-----------------------------------------------------------------------------
(***************************************************************************)
(* Asking for a line.                                                      *)
(***************************************************************************)
AskCommand ==
    /\ at.in = "prompt" /\ at.next = <<>> /\ ~inPython
    /\ BeginRead(Request(History, TRUE, pend # NoPaste, <<>>))
    /\ UNCHANGED <<pythonVars, shellVars, typist>>

\* A collector's line: no history, no completion, and a paste of several lines is dropped.
AskCollector ==
    /\ at.in \in {"block", "heredoc"}
    /\ BeginRead(Request(<<>>, FALSE, FALSE, <<>>))
    /\ UNCHANGED <<pythonVars, shellVars, typist>>

\* paste_edit: the lines of the text one by one, each to start from.
AskEditedLine ==
    /\ at.in = "edit"
    /\ BeginRead(Request(<<>>, FALSE, FALSE, Lines(at.left)[Len(at.lines) + 1]))
    /\ UNCHANGED <<pythonVars, shellVars, typist>>

\* The editor at work.  A paste of several lines is kept for review, if the caller of the
\* editor takes it; an illegal change of the editor's mode would be an exception.
EditorWorks ==
    /\ \/ EditorStep /\ UNCHANGED <<at, pend>>
       \/ /\ EndLongPaste
          /\ pend' = IF line.catches THEN Staged(Classified(line.paste).text) ELSE pend
          /\ at' = IF line.catches /\ ~CanEnter("paste_staged") THEN Crashed ELSE at
    /\ UNCHANGED <<pythonVars, ran, typist>>
-----------------------------------------------------------------------------
(***************************************************************************)
(* Commands.                                                               *)
(***************************************************************************)
\* The shell has the answer and is not in Python mode.
Answered(end) == /\ result # None /\ result.end = end /\ ~inPython
                 /\ result' = None
                 /\ UNCHANGED <<tty, events, line>>

DropPasteOnly == pend' = NoPaste /\ ClearQueue /\ UNCHANGED mode      \* variant: the editor stays staged

\* The paste is let go, with the commands still queued and the editor's mode.
DropPaste == pend' = NoPaste /\ ClearQueue /\ ClearEditorState

FirstWord(text) ==
    LET line0 == Strip(text)
        gaps  == {i \in 1..Len(line0) : IsBare(line0, i) /\ line0[i] = Space}
    IN  ShlexUnquoted(IF gaps = {} THEN line0
                 ELSE SubSeq(line0, 1, (CHOOSE i \in gaps : \A j \in gaps : i <= j) - 1))

PasteBuiltins == {<<"paste_run">>, <<"paste_cancel">>, <<"paste_edit">>, <<"paste_show">>}

ExitBuiltins == {<<"exit">>, <<"quit">>}

\* _pending_paste_command: what may be done while a paste waits; "#" is a character like others.
PendingPasteCommand(text) ==
    IF QuoteOpen(text) \/ Strip(text) = <<"#py">> THEN "refused"
    ELSE CASE FirstWord(text) \in PasteBuiltins -> "paste"
           [] FirstWord(text) = <<"clear">> -> "clear"
           [] FirstWord(text) \in ExitBuiltins -> "exit"
           [] OTHER -> "refused"

\* _dispatch_logical_line: blank lines and comments are passed over.
Runnable(l) == ~IsBlank(l) /\ Strip(l)[1] \notin {Hash, "#py"}

\* run_native_text: the run may stop behind any line, by exit or by a status of misuse; a text
\* that cannot be read as a whole runs no part.
RunText(text) ==
    LET told == SelectSeq(text.lines, Runnable)
    IN  IF ~text.readable THEN ran' = ran
        ELSE IF told = <<>> THEN ran' = <<>>
        ELSE \E k \in 1..Len(told) : ran' = SubSeq(told, 1, k)

\* paste_run: the staged text is gone before it runs, and what the editor holds of it after.
PasteRun ==
    IF pend = NoPaste THEN UNCHANGED <<ran, pend, queue, mode>>
    ELSE RunText(LogicalLines(pend[1])) /\ DropPaste

PasteCancel ==
    /\ IF pend = NoPaste THEN UNCHANGED <<pend, queue, mode>> ELSE DropPaste
    /\ UNCHANGED ran

PasteEdit ==
    /\ at' = IF pend = NoPaste THEN Within(Tail(at.next), at.of)
             ELSE [at EXCEPT !.in = "edit", !.left = pend[1], !.next = Tail(@)]
    /\ UNCHANGED <<queue, mode, pend, ran>>

ChainOperators == {";", "&", "&&", "||"}

\* split_chain: the commands of a line.  What happens to one behind && or || depends on a
\* status: it may be passed over.  (No empty command before "&" is typed, an error of the
\* whole line.)
Chain(text) ==
    LET modes == Modes(text)
        Command(acc) == [words |-> Words(acc.text), sure |-> acc.sure]
        Flush(acc, sure) ==
            IF IsBlank(acc.text) THEN [acc EXCEPT !.text = <<>>]
            ELSE [commands |-> Append(acc.commands, Command(acc)), text |-> <<>>, sure |-> sure]
        Step(acc, i) ==
            IF modes[i - 1] = "bare" /\ text[i] \in ChainOperators
            THEN Flush(acc, text[i] \in {";", "&"})
            ELSE [acc EXCEPT !.text = Append(@, text[i])]
    IN  Flush(FoldLeft(Step, [commands |-> <<>>, text |-> <<>>, sure |-> TRUE],
                       [i \in 1..Len(text) |-> i]), TRUE).commands

Entered(line0, text) == Within(Chain(CommandPart(line0)), text)

Execute(text) ==
    IF Strip(text) = <<"#py">>
    THEN EnterPython /\ at' = AtPrompt /\ UNCHANGED <<queue, mode, pend, ran>>
    ELSE at' = Entered(text, text) /\ UNCHANGED <<queue, mode, pythonVars, pend, ran>>

\* exit and quit end the shell, but for the process of a pipeline's stage.
Exits(words) == words # <<>> /\ Head(words) \in ExitBuiltins /\ ~Contains(words, <<Pipe>>)

\* One command of the line.  A paste command that is given words is an error of usage, and
\* what the stages of a pipeline do is theirs.
RunCommand ==
    /\ at.in = "prompt" /\ at.next # <<>> /\ ~inPython
    /\ LET words  == Head(at.next).words
           behind == Within(Tail(at.next), at.of)
       IN  \/ ~Head(at.next).sure /\ at' = behind /\ UNCHANGED <<queue, mode, pend, ran>>
           \/ CASE words = <<<<"paste_run">>>>    -> PasteRun /\ at' = behind
                [] words = <<<<"paste_cancel">>>> -> PasteCancel /\ at' = behind
                [] words = <<<<"paste_edit">>>>   -> PasteEdit
                [] Exits(words) -> at' = Left /\ UNCHANGED <<queue, mode, pend, ran>>
                [] OTHER -> at' = behind /\ ran' = <<at.of>> /\ UNCHANGED <<queue, mode, pend>>
    /\ UNCHANGED <<tty, events, line, result, pythonVars, typist>>

\* An illegal change of the editor's mode is an exception nobody catches.
Collect(target, place) ==
    IF CanEnter(target) THEN mode' = target /\ at' = place /\ UNCHANGED <<queue, pythonVars, pend, ran>>
    ELSE at' = Crashed /\ UNCHANGED <<mode, queue, pythonVars, pend, ran>>
-----------------------------------------------------------------------------
(***************************************************************************)
(* The run loop.                                                           *)
(***************************************************************************)
CommandEof == /\ at.in = "prompt" /\ Answered("eof")
              /\ at' = Left
              /\ UNCHANGED <<queue, mode, pythonVars, pend, ran, typist>>

\* Ctrl+C at the prompt drops a pasted text, if there is one, and what is queued.
CommandInterrupt ==
    /\ at.in = "prompt" /\ Answered("interrupt")
    /\ IF pend # NoPaste THEN DropPaste ELSE ClearQueue /\ UNCHANGED <<pend, mode>>
    /\ UNCHANGED <<pythonVars, at, ran, typist>>

\* While a paste waits, an empty line runs it and only a few commands are taken.
DecideOnPaste ==
    /\ at.in = "prompt" /\ pend # NoPaste /\ Answered("line")
    /\ CASE IsBlank(result.text) -> PasteRun /\ at' = AtPrompt /\ UNCHANGED pythonVars
         [] PendingPasteCommand(result.text) = "exit" ->
              DropPaste /\ at' = Entered(result.text, result.text) /\ UNCHANGED <<pythonVars, ran>>
         [] PendingPasteCommand(result.text) \in {"paste", "clear"} -> Execute(result.text)
         [] OTHER -> UNCHANGED <<queue, mode, pythonVars, shellVars>>
    /\ UNCHANGED typist

\* A command line; a here-document without a delimiter is an exception nobody catches here.
TakeCommand ==
    /\ at.in = "prompt" /\ pend = NoPaste /\ Answered("line")
    /\ LET text == result.text
       IN  CASE IsBlank(text) -> UNCHANGED <<queue, mode, pythonVars, shellVars>>
             [] IsBlockOpener(text) ->
                  Collect("multiline", Place("block", <<text>>, <<>>))
             [] LacksDelimiter(text) ->
                  at' = Left /\ UNCHANGED <<queue, mode, pythonVars, pend, ran>>
             [] PendingDelimiters(text) # <<>> ->
                  Collect("heredoc", Place("heredoc", <<text>>, PendingDelimiters(text)))
             [] OTHER -> Execute(text)
    /\ UNCHANGED typist
-----------------------------------------------------------------------------
(***************************************************************************)
(* Collectors.                                                             *)
(***************************************************************************)
\* Ctrl+C or Ctrl+D gives up what was collected.
GiveUp ==
    /\ at.in \in {"block", "heredoc"}
    /\ Answered("eof") \/ Answered("interrupt")
    /\ at' = AtPrompt /\ ClearEditorState
    /\ UNCHANGED <<queue, pythonVars, pend, ran, typist>>

\* The lines are a command line, the first with what belongs to it.
Collected(lines) == /\ ClearEditorState /\ at' = Entered(lines[1], Joined(lines))
                    /\ UNCHANGED <<queue, pythonVars, pend, ran>>

More(place) == at' = place /\ UNCHANGED <<mode, queue, pythonVars, pend, ran>>

CollectBlockLine ==
    /\ at.in = "block" /\ Answered("line")
    /\ LET text == result.text
       IN  CASE IsBlockOpener(text) ->
                  at' = AtPrompt /\ ClearEditorState /\ UNCHANGED <<queue, pythonVars, pend, ran>>
             [] IsBlockCloser(text) -> Collected(Append(at.lines, text))
             [] OTHER -> More([at EXCEPT !.lines = Append(@, text)])
    /\ UNCHANGED typist

CollectHeredocLine ==
    /\ at.in = "heredoc" /\ Answered("line")
    /\ LET text  == result.text
           lines == Append(at.lines, text)
           left  == IF text = Head(at.left) THEN Tail(at.left) ELSE at.left
       IN  IF left = <<>> THEN Collected(lines) ELSE More([at EXCEPT !.lines = lines, !.left = left])
    /\ UNCHANGED typist

\* paste_edit: the staged text is replaced when all of its lines were accepted.
AcceptEditedLine ==
    /\ at.in = "edit" /\ Answered("line")
    /\ LET lines == Append(at.lines, result.text)
           text  == Joined(lines)
       IN  IF Len(lines) < Len(Lines(at.left))
           THEN More([at EXCEPT !.lines = lines])
           ELSE IF ~CanEnter("paste_staged")
           THEN at' = Crashed /\ UNCHANGED <<mode, queue, pythonVars, pend, ran>>
           ELSE /\ pend' = Staged(IF Last(at.left) = Newline THEN Append(text, Newline) ELSE text)
                /\ mode' = "paste_staged" /\ at' = Within(at.next, at.of)
                /\ UNCHANGED <<queue, pythonVars, ran>>
    /\ UNCHANGED typist

\* An edit that is broken off leaves the staged text as it was; the line goes on.
StopEditing ==
    /\ at.in = "edit"
    /\ Answered("eof") \/ Answered("interrupt")
    /\ at' = Within(at.next, at.of)
    /\ UNCHANGED <<mode, queue, pythonVars, pend, ran, typist>>
-----------------------------------------------------------------------------
(***************************************************************************)
(* The user.                                                               *)
(***************************************************************************)
TypeKeys ==
    /\ typed < user.most
    /\ \E keys \in user.strokes :
         /\ Type(keys)
         /\ asked' = IF keys[1] = PasteStart THEN asked /\ (Enter \in {tty[i] : i \in 1..Len(tty)} \/ at.next # <<>>)
                      ELSE asked \/ Enter \in {keys[i] : i \in 1..Len(keys)}
    /\ typed' = typed + 1
    /\ UNCHANGED <<pythonVars, shellVars, user>>

\* Python mode reads with an editor of its own; here its user gives whole lines.
PythonReads ==
    /\ inPython /\ typed < user.most
    /\ typed' = typed + 1
    /\ \/ \E l \in user.lines : PythonLine(l)
       \/ PythonEof
       \/ PythonInterrupt
    /\ UNCHANGED <<editorVars, shellVars, asked, user>>

\* Nothing more is typed, or there is no shell to type to.
Quiet ==
    /\ \/ at.in \in {"left", "crashed"}
       \/ inPython /\ typed = user.most
       \/ Waiting /\ tty = <<>> /\ typed = user.most
    /\ UNCHANGED vars

Next ==
    \/ AskCommand \/ AskCollector \/ AskEditedLine
    \/ EditorWorks
    \/ CommandEof \/ CommandInterrupt \/ DecideOnPaste \/ TakeCommand \/ RunCommand
    \/ GiveUp \/ CollectBlockLine \/ CollectHeredocLine
    \/ AcceptEditedLine \/ StopEditing
    \/ TypeKeys \/ PythonReads \/ Quiet

Spec == Init /\ [][Next]_vars
-----------------------------------------------------------------------------
\* The editor's mode says what the shell is doing (state.py: EditorMode): a paste is
\* staged exactly while one waits for a decision, a collector runs in its own mode and
\* with nothing staged, and no key leads to a change of mode that EditorState refuses,
\* which would end the shell.  While the lines of a paste are edited, that paste is the one
\* that is staged, and Python mode begins with none.
ReaderAtRest ==
    /\ at.in # "crashed"
    /\ at.in \in {"prompt", "edit"} => mode = IF pend # NoPaste THEN "paste_staged" ELSE "normal"
    /\ at.in = "block" => mode = "multiline" /\ pend = NoPaste
    /\ at.in = "heredoc" => mode = "heredoc" /\ pend = NoPaste
    /\ at.in = "edit" => pend = Staged(at.left)
    /\ inPython => pend = NoPaste /\ at.in = "prompt"

\* A pasted text is not executed before the user has pressed Enter outside the markers
\* (reader.py: a paste "can execute only after a later explicit ENTER key event"),
\* whatever was typed, queued, searched, edited or collected around it.
PasteWaits == [][(ran' # ran /\ \E i \in 1..Len(ran') : Pasted \in {ran'[i][j] : j \in 1..Len(ran'[i])})
                    => asked]_vars

\* Python mode and its runtime keep the lines of the unfinished statement each in its own
\* list (_pending_input, _interactive_buffer): they are the same, the primary prompt is
\* shown exactly when there are none, and an edit that waits for its text is about a line
\* the source buffer has.
PythonInStep ==
    inPython =>
        /\ pending = unit
        /\ atPrimary <=> unit = <<>>
        /\ pendingEdit # NoEdit =>
              /\ atPrimary
              /\ pendingEdit.line \in 1..(IF pendingEdit.op = "insert" THEN Len(source) + 1
                                          ELSE Len(source))
=============================================================================
