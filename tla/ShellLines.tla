----------------------------- MODULE ShellLines -----------------------------
(***************************************************************************)
(* How the shell executes lines (core/shell.py, script_runner.py,          *)
(* config/rc.py): chains of commands, files that are sourced or run as     *)
(* scripts, pasted text, redirected builtins, and what is put back when a  *)
(* call ends, normally or by an exception.  One thread; the calls in       *)
(* progress are a stack.                                                   *)
(*                                                                         *)
(* A command is represented by what it does to the shell.                  *)
(***************************************************************************)
EXTENDS Integers, Sequences, SequencesExt

CONSTANTS
    File,        \* the files that can be executed
    Content,     \* the lines of each
    Malformed,   \* those that end in a py block that is never closed
    Foreign,     \* those whose first line names sh, bash or zsh
    Typed,       \* the lines the user types
    Paste,       \* multi-line text the user may paste, as files
    Doc,         \* bodies of here-documents
    Device,      \* what the standard descriptors can be connected to
    Full,        \* those of them that take no more bytes
    MaxDepth,    \* calls in progress at Python's recursion limit
    MaxFaults,   \* failures and interrupts (a bound)
    None         \* Python's None, and the empty string

Fd == 0..2

\* Redirections; "from" is what is opened, or the descriptor that is copied.
Action == [fd : Fd, kind : {"open"}, from : Device] \union [fd : Fd, kind : {"dup"}, from : Fd]

Command ==
    [does : {"run", "clear", "print", "exit", "paste_run", "paste_cancel", "paste_show", "paste_edit"},
     code : Nat, file : {None}, spec : Seq(Action), docs : Seq(Doc)]
    \union [does : {"source", "run_script"}, code : {0}, file : File, spec : Seq(Action), docs : Seq(Doc)]
    \union [does : {"broken"}, code : {2}, file : {None}, spec : {<<>>}, docs : {<<>>}]

Element == [op : {"&&", "||", ";", "&", "end"}, cmd : Command]

Line == [kind : {"chain"}, elems : Seq(Element)]
            \union [kind : {"blank", "comment", "other", "opener"}, code : Nat]

ASSUME TextAssumption ==
    /\ None \notin File /\ Malformed \cup Foreign \subseteq File /\ Content \in [File -> Seq(Line)]
    /\ Typed \subseteq Line /\ Paste \subseteq File
    /\ "tty" \in Device /\ Full \subseteq Device
ASSUME BoundAssumption == MaxDepth \in Nat /\ MaxFaults \in Nat

Own == [fd \in Fd |-> "tty"]         \* the descriptors the shell is started with

VARIABLES
    stack,       \* the calls in progress, the innermost last
    result,      \* what the last of the calls that ended gives its caller
    lastStatus,  \* last_status
    name,        \* script_name
    context,     \* _script_context
    staged,      \* pending_multiline_paste
    pasting,     \* _executing_paste
    interactive, \* run(), or run_batch and run_script_file of the command line?
    fds,         \* the standard descriptors
    stuck,       \* does sys.stdout hold bytes its device did not take?
    gone,        \* has the working directory been removed?
    faults

script  == <<name, context>>
paste   == <<staged, pasting>>
streams == <<fds, stuck>>
outside == <<interactive, gone, faults>>
vars    == <<stack, result, lastStatus, script, paste, streams, outside>>

----------------------------------------------------------------------------
(* Results: nothing yet, a status, or an exception on its way out.         *)
Running   == [kind |-> "none", code |-> 0]
Status(n) == [kind |-> "status", code |-> n]
Exit(n)   == [kind |-> "exit", code |-> n]       \* _ExitShell
OSErr     == [kind |-> "oserror", code |-> 0]    \* OSError
ValueErr  == [kind |-> "valueerror", code |-> 0] \* of an unclosed block
Err       == [kind |-> "error", code |-> 0]      \* RecursionError
Stopped   == [kind |-> "interrupt", code |-> 0]  \* KeyboardInterrupt

(* Calls.  Each record has what its function keeps in local variables;     *)
(* "done" is a history of the elements of the chain.                       *)
ExecuteCall(l) ==
    [call |-> "execute", rest |-> l.elems, status |-> 0, run |-> TRUE, got |-> <<>>,
     bodies |-> FlattenSeq([i \in DOMAIN l.elems |-> l.elems[i].cmd.docs]), done |-> <<>>]

BuiltinCall(cmd) == [call |-> "builtin", cmd |-> cmd, saved |-> fds]

FileCall(how, f, lines, oldName, oldContext) ==
    [call |-> how, file |-> f, rest |-> lines, status |-> 0, guarded |-> FALSE,
     oldName |-> oldName, oldContext |-> oldContext]

Raised == result.kind \in {"exit", "oserror", "valueerror", "error", "interrupt"}

Top      == stack[Len(stack)]
Callers  == Front(stack)
In(calls) == stack # <<>> /\ Top.call \in calls
With(frame) == Append(Callers, frame)

\* A builtin that was given redirections.
Redirected(frame) == frame.call = "builtin" /\ frame.cmd.spec # <<>>

\* The lines that a script runner, execute_rc and run_batch do not hand to execute.
Skipped(how) == IF how = "batch" THEN {"blank"} ELSE {"blank", "comment"}

\* read_rc_file: nothing, if the file's lines cannot be told apart.
RcLines(f) == IF f \in Malformed THEN <<>> ELSE Content[f]

\* execute, as it is called by the innermost of calls.
Execute(calls, l) ==
    IF Len(calls) >= MaxDepth THEN stack' = calls /\ result' = Err
    ELSE IF l.kind = "chain"
         THEN stack' = Append(calls, ExecuteCall(l)) /\ result' = Running
         ELSE stack' = calls /\ result' = Status(l.code)

Init ==
    /\ interactive \in BOOLEAN
    /\ IF interactive THEN stack = <<>> /\ name = None
       ELSE \E f \in File :
                \/ /\ stack = <<FileCall("batch", f, Content[f], None, None)>>
                   /\ name = None
                \/ /\ f \notin Malformed
                   /\ stack = <<FileCall("script", f, Content[f], None, None)>>
                   /\ name = f
    /\ result = Running /\ lastStatus = 0
    /\ context = None /\ staged = None /\ pasting = FALSE
    /\ fds = Own /\ stuck = FALSE
    /\ gone = FALSE /\ faults = 0

----------------------------------------------------------------------------
(* The loop of _execute_impl over the elements of a chain.                 *)
DecidedForTrue(op, status) ==                \* variant: || is always taken
    op = "&&" => status = 0

Decided(op, status) ==
    CASE op = "&&" -> status = 0
      [] op = "||" -> status # 0
      [] OTHER     -> TRUE

Current == Head(Top.rest)

Past(ran, status) ==
    With([Top EXCEPT !.rest = Tail(@), !.status = status, !.got = <<>>,
                     !.run  = Decided(Current.op, status),
                     !.done = Append(@, [op |-> Current.op, docs |-> Current.cmd.docs,
                                         got |-> Top.got, ran |-> ran, status |-> status])])

SkipElement ==
    /\ In({"execute"}) /\ result = Running
    /\ Top.rest # <<>> /\ ~Top.run
    /\ stack' = Past(FALSE, Top.status)
    /\ UNCHANGED <<result, lastStatus, script, paste, streams, outside>>

Starts(does) ==
    /\ In({"execute"}) /\ result = Running
    /\ Top.rest # <<>> /\ Top.run /\ Current.cmd.does \in does

\* The stages cannot be split.
BrokenElement ==
    /\ Starts({"broken"})
    /\ result' = Status(2)
    /\ UNCHANGED <<stack, lastStatus, script, paste, streams, outside>>

\* variant: the bodies that were taken stay in the list
BodiesKept ==
    [Top EXCEPT !.got = SubSeq(Top.bodies, 1, Len(Current.cmd.docs))]

\* parse_redirections takes a body for each operator it meets.
BodiesTaken ==
    LET n == Len(Current.cmd.docs)
    IN  [Top EXCEPT !.got = SubSeq(Top.bodies, 1, n),
                    !.bodies = SubSeq(Top.bodies, n + 1, Len(Top.bodies))]

\* An external command, a pipeline, assignments.  Words are expanded relative
\* to the working directory, and os.getcwd fails if it is no more.
RunCommand ==
    /\ Starts({"run", "clear"})
    /\ stack' = With(BodiesTaken)
    /\ result' = IF gone THEN OSErr ELSE Status(Current.cmd.code)
    /\ UNCHANGED <<lastStatus, script, paste, streams, outside>>

ElementDone ==
    /\ In({"execute"}) /\ result.kind = "status"
    /\ stack' = Past(TRUE, result.code)
    /\ lastStatus' = result.code
    /\ result' = Running
    /\ UNCHANGED <<script, paste, streams, outside>>

LineEnds ==
    /\ In({"execute"}) /\ result = Running /\ Top.rest = <<>>
    /\ stack' = Callers
    /\ result' = Status(Top.status)
    /\ UNCHANGED <<lastStatus, script, paste, streams, outside>>

LineUnwinds ==
    /\ In({"execute"}) /\ Raised
    /\ stack' = Callers
    /\ UNCHANGED <<result, lastStatus, script, paste, streams, outside>>

----------------------------------------------------------------------------
(* A builtin with its redirections, applied in their order.                *)
Builtin == {"print", "exit", "source", "run_script", "paste_run", "paste_cancel",
            "paste_show", "paste_edit"}

Redirect(now, action) ==
    [now EXCEPT ![action.fd] = IF action.kind = "dup" THEN now[action.from] ELSE action.from]

Applied(spec, now) ==
    LET after[n \in 0..Len(spec)] == IF n = 0 THEN now ELSE Redirect(after[n - 1], spec[n])
    IN  after[Len(spec)]

RestoredOutput(saved, now) == [now EXCEPT ![1] = saved[1]]   \* variant: only stdout

\* Each of the descriptors now is replaced by its saved duplicate.
Restored(saved, now) == saved

\* _redirect_standard_fds until its yield.  It flushes sys.stdout first.
BeginBuiltin ==
    LET cmd == Current.cmd
    IN  /\ Starts(Builtin)
        /\ IF gone \/ (cmd.spec # <<>> /\ stuck)
           THEN /\ stack' = With(BodiesTaken)
                /\ result' = IF gone THEN OSErr ELSE Status(1)
                /\ UNCHANGED streams
           ELSE /\ stack' = Append(With(BodiesTaken), BuiltinCall(cmd))
                /\ fds' = IF cmd.spec = <<>> THEN fds ELSE Applied(cmd.spec, fds)
                /\ UNCHANGED <<result, stuck>>
        /\ UNCHANGED <<lastStatus, script, paste, outside>>

\* os.dup, os.open or os.dup2 fails after some of the actions.
RedirectionFails ==
    LET cmd == Current.cmd
    IN  /\ Starts(Builtin)
        /\ ~gone /\ ~stuck /\ cmd.spec # <<>>
        /\ faults < MaxFaults /\ faults' = faults + 1
        /\ \E n \in 0..Len(cmd.spec) :
               fds' = Restored(fds, Applied(SubSeq(cmd.spec, 1, n), fds))
        /\ stack' = With(BodiesTaken)
        /\ result' = Status(1)
        /\ UNCHANGED <<lastStatus, script, paste, stuck, interactive, gone>>

Does(what) == In({"builtin"}) /\ result = Running /\ Top.cmd.does = what

\* A line is printed and the status n returned; sys.stdout is flushed at the
\* end of each line.
Answer(n) ==
    /\ stuck' = (stuck \/ fds[1] \in Full)
    /\ result' = IF fds[1] \in Full THEN OSErr ELSE Status(n)
    /\ UNCHANGED fds

PrintText ==
    /\ Does("print")
    /\ Answer(Top.cmd.code)
    /\ UNCHANGED <<stack, lastStatus, script, paste, outside>>

ExitBuiltin ==
    /\ Does("exit")
    /\ result' = Exit(Top.cmd.code)
    /\ UNCHANGED <<stack, lastStatus, script, paste, streams, outside>>

\* The finally clause flushes sys.stdout before anything else.
EndBuiltin ==
    /\ In({"builtin"}) /\ result # Running
    /\ stack' = Callers
    /\ IF Redirected(Top) /\ stuck
       THEN result' = Status(1) /\ UNCHANGED streams
       ELSE /\ result' = IF result = OSErr THEN Status(1) ELSE result
            /\ IF Redirected(Top) THEN fds' = Restored(Top.saved, fds) /\ UNCHANGED stuck
               ELSE UNCHANGED streams
    /\ UNCHANGED <<lastStatus, script, paste, outside>>

----------------------------------------------------------------------------
(* Files and pasted text.                                                  *)
\* execute_rc
Source ==
    /\ Does("source")
    /\ LET f == Top.cmd.file
       IN  stack' = Append(stack, FileCall("rc", f, RcLines(f), name, context))
    /\ UNCHANGED <<result, lastStatus, script, paste, streams, outside>>

Delegated(f) == f \in Foreign

\* The status of a script that another shell runs: its own, the negative number of the
\* signal that ended it, 1, 126 or 127 if it cannot be started, 130 after Ctrl+C.
ForeignStatus == {-15, 0, 1, 2, 126, 127, 130}

RunInterpreted ==
    /\ \E n \in ForeignStatus : result' = Status(n) /\ lastStatus' = n
    /\ UNCHANGED <<stack, script>>

\* A script whose lines cannot be told apart ends at once.
RunNative(f) ==
    IF f \in Malformed
    THEN result' = Status(2) /\ lastStatus' = 2 /\ UNCHANGED <<stack, script>>
    ELSE /\ stack' = Append(stack, FileCall("script", f, Content[f], name, context))
         /\ name' = f /\ context' = None
         /\ UNCHANGED <<result, lastStatus>>

\* run_script_file
RunScript ==
    /\ Does("run_script")
    /\ LET f == Top.cmd.file IN IF Delegated(f) THEN RunInterpreted ELSE RunNative(f)
    /\ UNCHANGED <<paste, streams, outside>>

\* variant: the text stays staged while it runs
RunPasteStaged(calls) ==
    /\ stack' = Append(calls, FileCall("paste", staged, Content[staged], name, context))
    /\ pasting' = TRUE /\ context' = None
    /\ UNCHANGED <<staged, result, lastStatus, name, streams, outside>>

\* _builtin_paste_run, when there is a paste: it is shown before it is run.
RunPaste(calls) ==
    /\ staged' = None
    /\ IF fds[1] \in Full
       THEN /\ Answer(0)
            /\ UNCHANGED <<lastStatus, script, pasting>> /\ stack' = calls
       ELSE IF staged \in Malformed
       THEN /\ result' = Status(2) /\ lastStatus' = 2 /\ pasting' = FALSE
            /\ UNCHANGED <<script, streams>> /\ stack' = calls
       ELSE /\ stack' = Append(calls, FileCall("paste", staged, Content[staged], name, context))
            /\ pasting' = TRUE /\ context' = None
            /\ UNCHANGED <<result, lastStatus, name, streams>>
    /\ UNCHANGED outside

PasteRun ==
    /\ Does("paste_run")
    /\ IF staged = None
       THEN Answer(2) /\ UNCHANGED <<stack, lastStatus, script, paste, outside>>
       ELSE RunPaste(stack)

PasteCancel ==
    /\ Does("paste_cancel")
    /\ IF staged = None THEN Answer(2) /\ UNCHANGED paste
       ELSE Answer(0) /\ staged' = None /\ pasting' = FALSE
    /\ UNCHANGED <<stack, lastStatus, script, outside>>

PasteShow ==
    /\ Does("paste_show")
    /\ Answer(IF staged = None THEN 2 ELSE 0)
    /\ UNCHANGED <<stack, lastStatus, script, paste, outside>>

\* The text is only replaced when every line has been accepted.
PasteEdit ==
    /\ Does("paste_edit")
    /\ \/ staged = None /\ Answer(2) /\ UNCHANGED staged
       \/ staged # None /\ Answer(0) /\ staged' \in Paste
       \/ staged # None /\ (\E n \in {1, 130} : Answer(n)) /\ UNCHANGED staged
    /\ UNCHANGED <<stack, lastStatus, script, pasting, outside>>

InFile == In({"rc", "script", "paste", "batch"})

\* _line_has_error_operator
Guarded(l) == l.kind = "chain" /\ \E i \in DOMAIN l.elems : l.elems[i].op \in {"&&", "||"}

\* An if, for or while without its end: execute takes it for a command, _interpret
\* looks for the end.
BlockAhead == Top.call = "rc" /\ Head(Top.rest).kind = "opener"

AtLine == InFile /\ result = Running /\ Top.rest # <<>>

SkipLine ==
    /\ AtLine /\ Head(Top.rest).kind \in Skipped(Top.call)
    /\ stack' = With([Top EXCEPT !.rest = Tail(@)])
    /\ UNCHANGED <<result, lastStatus, script, paste, streams, outside>>

NextLine ==
    /\ AtLine /\ Head(Top.rest).kind \notin Skipped(Top.call) /\ ~BlockAhead
    /\ LET l == Head(Top.rest)
       IN  Execute(With([Top EXCEPT !.rest = Tail(@), !.guarded = Guarded(l)]), l)
    /\ context' = IF Top.call \in {"script", "paste"} THEN Top.file ELSE context
    /\ UNCHANGED <<lastStatus, name, paste, streams, outside>>

EndFile(r) ==
    /\ stack' = Callers
    /\ result' = r
    /\ lastStatus' = IF r.kind = "status" /\ Top.call \in {"script", "paste"}
                     THEN r.code ELSE lastStatus
    /\ context' = IF Top.call \in {"script", "paste"} THEN Top.oldContext ELSE context
    /\ name' = IF Top.call = "script" THEN Top.oldName ELSE name
    /\ IF Top.call = "paste" THEN staged' = None /\ pasting' = FALSE ELSE UNCHANGED paste
    /\ UNCHANGED <<streams, outside>>

ContinueUnread(code) ==                      \* variant: the result is not consumed
    /\ stack' = With([Top EXCEPT !.status = code])
    /\ UNCHANGED <<result, lastStatus, script, paste, streams, outside>>

Continue(code) ==
    /\ stack' = With([Top EXCEPT !.status = code])
    /\ result' = Running
    /\ UNCHANGED <<lastStatus, script, paste, streams, outside>>

\* A script stops on status 2, unless its line has && or ||.
LineDone ==
    /\ InFile /\ result.kind = "status"
    /\ IF Top.call \in {"script", "paste"} /\ result.code = 2 /\ ~Top.guarded
       THEN EndFile(result)
       ELSE Continue(result.code)

\* What a sourced line raises is printed, an exit too, but not Ctrl+C; exit ends a script.
LineRaises ==
    /\ InFile /\ Raised
    /\ CASE Top.call = "rc" /\ result # Stopped -> Continue(1)
         [] Top.call \in {"script", "paste"} /\ result.kind = "exit" -> EndFile(Status(result.code))
         [] Top.call = "batch" /\ result = ValueErr -> EndFile(Status(2))
         [] OTHER -> EndFile(result)

\* _collect_block: the rest of the file belongs to a block that never ends.
BlockNeverEnds ==
    /\ AtLine /\ BlockAhead
    /\ EndFile(ValueErr)

\* run_batch finds a py block that is never closed only when it gets there.
FileEnds ==
    /\ InFile /\ result = Running /\ Top.rest = <<>>
    /\ EndFile(IF Top.call = "batch" /\ Top.file \in Malformed THEN Status(2) ELSE Status(Top.status))

----------------------------------------------------------------------------
(* The prompt of run.                                                      *)
AtPrompt == interactive /\ stack = <<>> /\ result = Running

First(l) == IF l.kind = "chain" THEN Head(l.elems).cmd.does ELSE l.kind

\* _pending_paste_command
Allowed == {"paste_run", "paste_cancel", "paste_show", "paste_edit", "clear", "exit"}

TypeLine(l) ==
    /\ AtPrompt
    /\ l.kind # "blank"
    /\ IF staged # None /\ First(l) \notin Allowed
       THEN lastStatus' = 2 /\ UNCHANGED <<stack, result, paste>>
       ELSE /\ Execute(stack, l)
            /\ IF staged # None /\ First(l) = "exit" THEN staged' = None /\ pasting' = FALSE
               ELSE UNCHANGED paste
            /\ UNCHANGED lastStatus
    /\ UNCHANGED <<script, streams, outside>>

\* Enter on an empty line runs what is staged.
TypeEnter ==
    /\ AtPrompt /\ staged # None
    /\ RunPaste(stack)

CapturePaste(p) ==
    /\ AtPrompt
    /\ staged' = p
    /\ UNCHANGED <<stack, result, lastStatus, script, pasting, streams, outside>>

\* Each prints an end of line first.
CtrlC ==
    /\ AtPrompt /\ ~stuck
    /\ staged' = None
    /\ pasting' = (pasting /\ staged = None)
    /\ lastStatus' = 130
    /\ UNCHANGED <<stack, result, script, streams, outside>>

EndOfInput ==
    /\ AtPrompt /\ ~stuck
    /\ result' = Exit(0)
    /\ UNCHANGED <<stack, lastStatus, script, paste, streams, outside>>

\* What the prompt prints meets the bytes that could not be written.
PromptFails ==
    /\ AtPrompt /\ stuck
    /\ result' = OSErr
    /\ UNCHANGED <<stack, lastStatus, script, paste, streams, outside>>

PromptReturns ==
    /\ interactive /\ stack = <<>> /\ result.kind = "status"
    /\ lastStatus' = result.code
    /\ result' = Running
    /\ UNCHANGED <<stack, script, paste, streams, outside>>

\* Ctrl+C while a call is in progress that does not expect it.
Interrupt ==
    /\ stack # <<>> /\ result = Running
    /\ faults < MaxFaults /\ faults' = faults + 1
    /\ result' = Stopped
    /\ UNCHANGED <<stack, lastStatus, script, paste, streams, interactive, gone>>

\* Another process removes the working directory.
Vanish ==
    /\ ~gone
    /\ gone' = TRUE
    /\ UNCHANGED <<stack, result, lastStatus, script, paste, streams, interactive, faults>>

Step ==
    \/ SkipElement \/ BrokenElement \/ RunCommand \/ ElementDone \/ LineEnds \/ LineUnwinds
    \/ BeginBuiltin \/ RedirectionFails \/ PrintText \/ ExitBuiltin \/ EndBuiltin
    \/ Source \/ RunScript \/ PasteRun \/ PasteCancel \/ PasteShow \/ PasteEdit
    \/ SkipLine \/ NextLine \/ BlockNeverEnds \/ LineDone \/ LineRaises \/ FileEnds
    \/ PromptReturns

Next ==
    \/ Step
    \/ \E l \in Typed : TypeLine(l)
    \/ TypeEnter \/ (\E p \in Paste : CapturePaste(p)) \/ CtrlC \/ EndOfInput
    \/ PromptFails \/ Interrupt \/ Vanish

Spec     == Init /\ [][Next]_vars
FairSpec == Spec /\ WF_vars(Step)

----------------------------------------------------------------------------
Done == [op : {"&&", "||", ";", "&", "end"}, docs : Seq(Doc), got : Seq(Doc),
         ran : BOOLEAN, status : Int]

ExecuteFrame ==
    [call : {"execute"}, rest : Seq(Element), status : Int, run : BOOLEAN,
     got : Seq(Doc), bodies : Seq(Doc), done : Seq(Done)]

BuiltinFrame == [call : {"builtin"}, cmd : Command, saved : [Fd -> Device]]

FileFrame ==
    [call : {"rc", "script", "paste", "batch"}, file : File, rest : Seq(Line),
     status : Int, guarded : BOOLEAN,
     oldName : File \union {None}, oldContext : File \union {None}]

\* The types of the variables; the calls in progress stay under the limit (the
\* call that meets it is never a file or a builtin).
TypeOK ==
    /\ stack \in Seq(ExecuteFrame \union BuiltinFrame \union FileFrame)
    /\ Len(stack) <= MaxDepth + 2
    /\ result \in [kind : {"none", "status", "exit", "oserror", "valueerror", "error", "interrupt"},
                   code : Int]
    /\ lastStatus \in Int
    /\ name \in File \union {None} /\ context \in File \union {None}
    /\ staged \in Paste \union {None} /\ pasting \in BOOLEAN
    /\ interactive \in BOOLEAN
    /\ fds \in [Fd -> Device] /\ stuck \in BOOLEAN
    /\ gone \in BOOLEAN /\ faults \in 0..MaxFaults

\* An element of a chain runs exactly if it is the first, follows ; or &,
\* follows && and the last element that ran succeeded, or follows || and that
\* one failed, whatever the elements in between did (execute).
ChainRule ==
    /\ TypeOK
    /\ \A f \in Range(stack) : f.call = "execute" =>
           \A i \in DOMAIN f.done :
               IF i = 1 THEN f.done[i].ran
               ELSE \E k \in 1..(i - 1) :
                        /\ f.done[k].ran
                        /\ \A m \in (k + 1)..(i - 1) : ~f.done[m].ran
                        /\ f.done[i].ran = CASE f.done[i - 1].op = "&&" -> f.done[k].status = 0
                                             [] f.done[i - 1].op = "||" -> f.done[k].status # 0
                                             [] OTHER -> TRUE

\* A command gets the bodies of its own here-documents, as long as no element
\* with a here-document was skipped (collect_heredoc_bodies gathers the bodies
\* of the whole line, parse_redirections takes them from the front).
OwnDocs ==
    \A f \in Range(stack) : f.call = "execute" =>
        \A i \in DOMAIN f.done :
            f.done[i].ran /\ (\A k \in 1..i : f.done[k].ran \/ f.done[k].docs = <<>>)
                => f.done[i].got = f.done[i].docs

\* x is the file of the innermost of the first n calls of s that is of one of
\* the kinds, or None if there is no such call.
Innermost(s, kinds, n, x) ==
    \/ x = None /\ \A i \in 1..n : s[i].call \notin kinds
    \/ \E i \in 1..n : /\ s[i].call \in kinds /\ s[i].file = x
                      /\ \A j \in (i + 1)..n : s[j].call \notin kinds

\* x is what the descriptors are within the first n calls of s.
Connected(s, n, x) ==
    \/ x = Own /\ \A i \in 1..n : ~Redirected(s[i])
    \/ \E i \in 1..n : /\ Redirected(s[i]) /\ x = Applied(s[i].cmd.spec, s[i].saved)
                      /\ \A j \in (i + 1)..n : ~Redirected(s[j])

\* As long as every byte written was taken, the standard descriptors are those
\* of the innermost builtin in progress that was given redirections, and the
\* shell's own without one: a redirection ends with its builtin, also when it
\* fails half-way or the builtin raises (_redirect_standard_fds).
FdsFollowCalls == ~stuck => Connected(stack, Len(stack), fds)

\* However the calls inside ended, what belongs to a call in progress is that of
\* the innermost one: $0 is the script that is running, the context of diagnostics
\* a line of the script or paste that is running, the paste flag is up exactly
\* while a paste runs (run_script_file, _builtin_paste_run), and so are the
\* standard descriptors.
CallsNest ==
    /\ Innermost(stack, {"script"}, Len(stack), name)
    /\ context = None \/ Innermost(stack, {"script", "paste"}, Len(stack), context)
    /\ pasting = \E i \in DOMAIN stack : stack[i].call = "paste"
    /\ FdsFollowCalls

\* At most one paste is being run, and nothing is staged meanwhile: text that was
\* pasted once is not run twice, whatever it contains (_builtin_paste_run).
OnePaste ==
    \A i \in DOMAIN stack : stack[i].call = "paste" =>
        /\ staged = None
        /\ \A j \in DOMAIN stack : stack[j].call = "paste" => i = j

\* The calls in progress keep to their order in both ways.
CallsKeepOrder == CallsNest /\ OnePaste

\* Every line that is executed ends, also a file that executes itself and goes
\* on after the error of the recursion limit (_interpret).
EveryLineReturns == stack # <<>> ~> stack = <<>>

=============================================================================
