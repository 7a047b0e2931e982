---------------------------- MODULE ShellLinesMC ----------------------------
(* Commands, lines and files for ShellLines.  "job" and "lib" execute each    *)
(* other, and "clip" tries to run itself.  The typed lines are texts, read by *)
(* CommandText.                                                               *)
EXTENDS ShellLines, WrittenLinesMC

Command_(does, code, file, spec, docs) ==
    [does |-> does, code |-> code, file |-> file, spec |-> spec, docs |-> docs]

Simple(does, code)   == Command_(does, code, None, <<>>, <<>>)
Prints(code, spec)   == Command_("print", code, None, spec, <<>>)
Reads(code, docs)    == Command_("run", code, None, <<>>, docs)
Calls(does, f, spec) == Command_(does, 0, f, spec, <<>>)

Into(device) == [fd |-> 1, kind |-> "open", from |-> device]
Both       == [fd |-> 2, kind |-> "dup", from |-> 1]

\* A chain: commands and the operators that follow them.
Chain(cmds, ops) ==
    [kind |-> "chain", elems |-> [i \in DOMAIN cmds |-> [op |-> ops[i], cmd |-> cmds[i]]]]

One(cmd)    == Chain(<<cmd>>, <<"end">>)
Plain(k, n) == [kind |-> k, code |-> n]

MCFile == {"job", "lib", "half", "open", "tool", "clip"}

MCContent ==
    [f \in MCFile |->
        CASE f = "job" ->
               <<Chain(<<Simple("run", 2), Calls("source", "lib", <<>>)>>, <<"||", "end">>),
                 Plain("blank", 0), Plain("other", 2), One(Simple("exit", 1))>>
          [] f = "lib" ->
               <<Plain("comment", 0), One(Prints(0, <<Into("log"), Both>>)),
                 One(Calls("run_script", "job", <<Both, Into("log")>>)), One(Simple("exit", 3))>>
          [] f = "half" -> <<One(Calls("source", "open", <<>>)), Plain("opener", 2), One(Prints(0, <<>>))>>
          [] f = "open" -> <<One(Prints(1, <<>>))>>
          [] f = "tool" -> <<Plain("other", 0)>>
          [] f = "clip" ->
               <<Chain(<<Simple("paste_run", 0), Simple("paste_cancel", 0)>>, <<"&", "end">>),
                 One(Calls("run_script", "lib", <<>>)),
                 Chain(<<Calls("run_script", "tool", <<>>), Calls("run_script", "open", <<>>)>>,
                       <<"&&", "end">>)>>]

\* What a command of a typed line does; the second word of the last two is a file.
Effects == [yes |-> Simple("run", 0), no |-> Simple("run", 1), cat |-> Simple("run", 0),
            diff |-> Simple("run", 1), echo |-> Prints(0, <<>>), exit |-> Simple("exit", 0),
            clear |-> Simple("clear", 0), paste_show |-> Simple("paste_show", 0),
            paste_edit |-> Simple("paste_edit", 0), paste_cancel |-> Simple("paste_cancel", 0),
            paste_run |-> Calls("paste_run", None, <<>>)]

Effect(argv) ==
    IF argv[1][1] = "source" THEN Calls("source", argv[2][1], <<>>) ELSE Effects[argv[1][1]]

IsData(act) == act.kind = "data"

SpecOf(acts) ==
    LET others == SelectSeq(acts, LAMBDA a : ~IsData(a))
    IN  [i \in DOMAIN others |-> IF others[i].kind = "dup" THEN others[i]
                                 ELSE [fd |-> others[i].fd, kind |-> "open", from |-> others[i].path[1]]]

CommandOf(stage, docs) ==
    IF ~stage.ok THEN Simple("broken", 2)
    ELSE [Effect(stage.argv) EXCEPT !.spec = SpecOf(stage.acts), !.docs = docs]

\* The line that a text is read as; its bodies belong to the commands in their order.
LineOf(text) ==
    LET read  == CommandRead(text)
        Stage(i) == read.elements[i].stages[1]
        owner == FlattenSeq([i \in DOMAIN read.elements |->
                    [k \in DOMAIN SelectSeq(Stage(i).acts, IsData) |-> i]])
        DocsOf(i) == LET own == SelectSeq([n \in DOMAIN owner |-> <<owner[n], read.bodies[n][1]>>],
                                          LAMBDA d : d[1] = i)
                     IN  [k \in DOMAIN own |-> own[k][2]]
    IN  Chain([i \in DOMAIN read.elements |-> CommandOf(Stage(i), DocsOf(i))],
              [i \in DOMAIN read.elements |-> read.elements[i].op])

\* The lines of a here-document, which begin with its name.
Doc_(d) == <<Newline, d, d, Newline, d>>

Log == <<">", "log", Space, "2", ">", "&", "1">>

MCTexts ==
    {<<"no", "||", "cat", "<<", "A", "&&", "diff", Space, "<<", "B", Space, "<<", SQuote, "A", SQuote, ";",
       "cat", Space, "<<", "B">> \o Doc_("A") \o Doc_("B") \o Doc_("A") \o Doc_("B"),
     <<"yes", Space, "||", Space, "diff", "<<", "A", "&&", "cat", "<<", "B", Space, "&&", "echo", ">", "full">>
         \o Doc_("A") \o Doc_("B"),
     <<"yes", Space, ">", "||", "source", Space, "lib">> \o Log,
     <<"source", Space, DQuote, "half", DQuote, Space, Hash, Space, SQuote>>,
     <<"paste_show", "||", "paste_edit", ";", "paste_cancel">>,
     <<"paste_run", Space>> \o Log,
     <<"clear">>, <<"exit">>}

MCTyped == {LineOf(text) : text \in MCTexts} \cup {Plain("other", 2)}

\* Every line that is written down is read back as what it was put together from: quotes
\* protect operators, comments, variables and patterns at every stage of the reading, no
\* stage finds what another has put there, and what is taken out of the line (bodies,
\* redirections, assignments) keeps its order (_execute_impl to _run_simple).  The reading
\* does not depend on the state, so one state, the shell at its first prompt, is enough.
AtFirstPrompt == interactive /\ Init

ReadAsWritten == AtFirstPrompt => \A line \in MCWritten : ReadBack(line)

=============================================================================
