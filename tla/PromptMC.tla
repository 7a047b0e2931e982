------------------------------ MODULE PromptMC ------------------------------
(***************************************************************************)
(* Users of the prompt for TLC, each with the strokes that one task needs, *)
(* and what must hold whatever they type.                                  *)
(***************************************************************************)
EXTENDS Prompt, TLC

\* A pasted text between its markers; a newline in it arrives as an Enter.
Paste(text) ==
    <<PasteStart>> \o [i \in 1..Len(text) |-> IF text[i] = Newline THEN Enter ELSE text[i]]
                   \o <<PasteEnd>>

Typed(text) == Append(text, Enter)

MCPasted == "p"
TwoLines == <<"p", Newline, "p">>

MCHistory == <<<<"h">>, <<"h", "k">>, <<"k">>>>

MCCommands == {<<"c", "a">>, <<"c", "b">>}
MCPluginCommands == {<<"c", "z">>}
MCVariables == {<<"V">>}
MCJobIds == {<<"1">>}
MCLower == [c \in {"A"} |-> "a"]

MCTree ==
    (<<>> :> (<<"a", Space, "b">> :> FALSE @@ <<"d">> :> TRUE @@ <<"e", Dollar>> :> FALSE
              @@ <<"e", "e">> :> FALSE @@ <<Dot, "a">> :> FALSE))
    @@ (<<"d", Slash>> :> (<<"A", Hash>> :> FALSE))

\* Pastes, and decides on what was pasted.
Paster ==
    [strokes |-> {Paste(TwoLines), Paste(<<"p", Newline>>), <<"x">>, <<Enter>>, <<"CTRL_C">>,
                  Typed(<<"paste_run", Space, ";", Space, "x">>), Typed(<<"exit">>),
                  Typed(<<"clear", Space, "&&", Space, "paste_run">>)},
     lines |-> {}, files |-> {Missing}, most |-> 6]

\* Edits and drops what was pasted.
Reviewer ==
    [strokes |-> {Paste(TwoLines), Paste(<<"py {", Newline, "p">>), <<"x">>, <<Enter>>, <<"CTRL_C">>,
                  <<"CTRL_D">>, Typed(<<"paste_edit", Space, ";", Space, "paste_run">>),
                  Typed(<<"paste_cancel">>), Typed(<<"clear", Space, ";", Space, "quit">>)},
     lines |-> {}, files |-> {Missing}, most |-> 5]

\* Types blocks and here-documents, several lines at once among them.
Author ==
    [strokes |-> {Typed(<<"py {">>), Typed(<<"}">>), Typed(<<"c", "<<", "E">>), Typed(<<"E">>),
                  Typed(<<"c", "<<">>), <<"py {", Enter, "x", Enter>>, Paste(TwoLines),
                  <<Space, Enter>>, <<"CTRL_C">>, <<"CTRL_D">>},
     lines |-> {}, files |-> {Missing}, most |-> 5]

\* Edits a line and goes through the history.
Editor ==
    [strokes |-> {<<"a">>, <<Space>>, <<"BACKSPACE">>, <<"LEFT">>, <<"HOME", "DELETE">>, <<"END">>,
                  <<"CTRL_W">>, <<"CTRL_U">>, <<"CTRL_K">>, <<"UP">>, <<"DOWN">>, <<"RIGHT">>},
     lines |-> {}, files |-> {Missing}, most |-> 4]

\* Searches the history.
Searcher ==
    [strokes |-> {<<"CTRL_R">>, <<"h">>, <<"BACKSPACE">>, <<"ESC">>, <<Enter>>, <<"CTRL_C">>,
                  Paste(TwoLines), <<"TAB">>, <<PasteEnd>>},
     lines |-> {}, files |-> {Missing}, most |-> 5]

\* Completes commands, files, variables and jobs.
Completer ==
    [strokes |-> {<<"c">>, <<"a">>, <<"x", Space>>, <<"cd", Space>>, <<"d", Slash>>, <<"TAB">>, <<DQuote>>,
                  <<Backslash>>, <<Dollar>>, <<"fg", Space>>, <<Hash>>},
     lines |-> {}, files |-> {Missing}, most |-> 4]

\* Types statements of several lines in Python mode.
Programmer ==
    [strokes |-> {Typed(<<"#py">>)},
     lines |-> {Code("simple"), Code("opener"), Code("body"), BlankLine, Code("indentation"),
                Code("syntax"), Code("fails"), Code("quits"), Directive("run", NoFile),
                Directive("clear", NoFile)},
     files |-> {Missing}, most |-> 7]

\* Edits, saves and runs the source buffer.
Maintainer ==
    [strokes |-> {Typed(<<"#py">>)},
     lines |-> {Code("simple"), Code("opener"), Code("body"), BlankLine, Directive("insert", 1),
                Directive("replace", 1), Directive("delete", <<1, 1>>), Directive("save", NoFile),
                Directive("save", CHOOSE f \in FileNames : TRUE),
                Directive("open", CHOOSE f \in FileNames : TRUE), Directive("open", NoFile),
                Directive("run", CHOOSE f \in FileNames : TRUE), Directive("reset", NoFile),
                Directive("open", Redirection), Directive("exit", NoFile), Directive("show", NoFile), Directive("edit", NoFile), Directive("append", NoFile), [is |-> "word", text |-> "save"]},
     files |-> {Missing, Directory, <<Code("simple")>>}, most |-> 6]

MCUsers == {Paster, Reviewer, Author, Editor, Searcher, Completer, Programmer, Maintainer}
-----------------------------------------------------------------------------
\* The one file or directory that TAB may offer at the end of a bare word, as it is named.
Named(context) ==
    LET search == PathSearch(context.prefix)
        names  == Tree[search.directory]
    IN  {search.directory \o n \o (IF names[n] THEN <<Slash>> ELSE <<>>) : n \in DOMAIN names}

CursorInLine == line # None => line.cur \in 0..Len(line.buf) /\ line.nav \in 0..Len(line.history)

\* A name that TAB completes is read back by the shell as that name: its blanks, dollars
\* and quotes are escaped (_quote_path_value against _tokens_before, two scanners that
\* know nothing of each other).  TAB like every key leaves the cursor in the line and the
\* position in the history.
CompletedAsOffered ==
    [][CursorInLine' /\
       LET context == Context(line.buf, line.cur)
           offered == Candidates(context)
       IN  (/\ Reading /\ line' # None /\ events # <<>>
            /\ Head(events) = "TAB" /\ ~line.searching /\ ~line.inPaste /\ line.completes
            /\ context.quote = "" /\ context.variable = "none" /\ ~context.first
            /\ context.command \notin JobCommands /\ Cardinality(offered) = 1)
           => LET words == Words(Before(line')) IN words # <<>> /\ Last(words) \in Named(context)]_vars
=============================================================================
