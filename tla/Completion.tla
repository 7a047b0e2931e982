----------------------------- MODULE Completion -----------------------------
(***************************************************************************)
(* TAB: what the completion engine offers for the word under the cursor,   *)
(* and how one candidate, or what several have in common, replaces it.     *)
(*                                                                         *)
(* Names are texts of Scanners.  The file tree gives, for a directory as   *)
(* it is typed (<<>> for the current one), its names and which of them are *)
(* directories.                                                            *)
(***************************************************************************)
EXTENDS Scanners, FiniteSets

CONSTANTS
    Commands,       \* builtins, aliases and executables on PATH
    PluginCommands, \* commands of plugins
    Variables,      \* environment and local variables
    JobIds,         \* as texts
    Tree,           \* [directory -> [name -> BOOLEAN: is a directory]]
    Lower           \* casefold, on the characters it changes

Slash  == "/"
Dot    == "."
Percent == "%"
BraceOpen  == "{"
BraceClose == "}"

Separators == {";", "&&", "||", "&", Pipe}
ShellMeta == {Space, Newline, DQuote, SQuote, Backslash, Dollar, Hash, Pipe, "backquote", ";", "&", "<", ">",
              "(", ")", "[", "]", "{", "}", "*", "?", "!"}

JobCommands == {<<"fg">>, <<"bg">>}
DirectoryCommands == {<<"cd">>, <<"pushd">>}

Fold(text) == [i \in 1..Len(text) |-> IF text[i] \in DOMAIN Lower THEN Lower[text[i]] ELSE text[i]]

\* _match_type: the name begins with the prefix, whatever the case.
Matches(name, prefix) == IsPrefix(Fold(prefix), Fold(name))
-----------------------------------------------------------------------------
(***************************************************************************)
(* The context of the cursor.                                              *)
(***************************************************************************)

\* Where the word under the cursor starts, and the quote it starts with.
CurrentToken(head) ==
    LET modes == Modes(head)
        Step(token, i) ==
            IF modes[i - 1] # "bare" THEN token
            ELSE CASE Pairs(head, i, "bare") -> token
                   [] head[i] \in {SQuote, DQuote} ->
                        IF token.start = i THEN [start |-> i + 1, quote |-> head[i]] ELSE token
                   [] Blank(head[i]) \/ head[i] \in Separators -> [start |-> i + 1, quote |-> ""]
                   [] OTHER -> token
    IN  FoldLeft(Step, [start |-> 1, quote |-> ""], [i \in 1..Len(head) |-> i])

\* Backslashes taken away, except in single quotes.
Unescape(text, quote) ==
    LET Step(acc, i) ==
            IF acc.skip THEN [text |-> Append(acc.text, text[i]), skip |-> FALSE]
            ELSE IF text[i] = Backslash /\ i < Len(text) THEN [acc EXCEPT !.skip = TRUE]
            ELSE [acc EXCEPT !.text = Append(@, text[i])]
    IN  IF quote = SQuote THEN text
        ELSE FoldLeft(Step, [text |-> <<>>, skip |-> FALSE], [i \in 1..Len(text) |-> i]).text

\* The words and separators of a text, quotes and escaping backslashes taken away.
Words(text) ==
    LET modes == Modes(text)
        Flush(acc) == IF acc.word = <<>> THEN acc
                      ELSE [words |-> Append(acc.words, acc.word), word |-> <<>>]
        Keep(acc, c) == [acc EXCEPT !.word = Append(@, c)]
        Step(acc, i) ==
            CASE Pairs(text, i, modes[i - 1]) -> acc
              [] modes[i - 1] \in {"escaped", "within"} -> Keep(acc, text[i])
              [] modes[i - 1] = "single" -> IF text[i] = SQuote THEN acc ELSE Keep(acc, text[i])
              [] text[i] = DQuote -> acc
              [] modes[i - 1] = "double" -> Keep(acc, text[i])
              [] text[i] = SQuote -> acc
              [] text[i] \in Separators ->
                    [Flush(acc) EXCEPT !.words = Append(@, <<text[i]>>)]
              [] Blank(text[i]) -> Flush(acc)
              [] OTHER -> Keep(acc, text[i])
    IN  Flush(FoldLeft(Step, [words |-> <<>>, word |-> <<>>], [i \in 1..Len(text) |-> i])).words

\* The last dollar of a segment that no backslash precedes; 0 when there is none.
VariableAt(segment) ==
    LET dollars == {i \in 1..Len(segment) :
                       segment[i] = Dollar /\ (i = 1 \/ segment[i - 1] # Backslash)}
    IN  IF dollars = {} THEN 0 ELSE CHOOSE i \in dollars : \A j \in dollars : i >= j

\* The words of the command the cursor is in: those behind the last separator.
LastCommand(words) ==
    LET breaks == {i \in 1..Len(words) : Len(words[i]) = 1 /\ words[i][1] \in Separators}
    IN  SubSeq(words, 1 + (IF breaks = {} THEN 0 ELSE CHOOSE i \in breaks : \A j \in breaks : i >= j),
               Len(words))

\* The variable that the segment ends in: its kind, where its dollar is, and its name so far.
VariableIn(segment, dollar) ==
    IF dollar = 0 THEN [kind |-> "none", offset |-> 0, name |-> <<>>]
    ELSE IF dollar < Len(segment) /\ segment[dollar + 1] = BraceOpen
    THEN [kind |-> "brace", offset |-> dollar - 1, name |-> SubSeq(segment, dollar + 2, Len(segment))]
    ELSE [kind |-> "plain", offset |-> dollar - 1, name |-> SubSeq(segment, dollar + 1, Len(segment))]

\* The cursor is behind a hash that begins a comment.
InComment(head) == Len(CommandPart(head)) < Len(head)

WordContext(token, segment, variable, command, comment) ==
    [start    |-> token.start + variable.offset,
     prefix   |-> Unescape(segment, token.quote),
     quote    |-> token.quote,
     command  |-> IF command = <<>> THEN <<>> ELSE Head(command),
     first    |-> command = <<>>,
     variable |-> variable.kind,
     name     |-> variable.name,
     comment  |-> comment]

TokenContext(head, token) ==
    LET segment == SubSeq(head, token.start, Len(head))
    IN  WordContext(token, segment,
                    VariableIn(segment, IF token.quote = SQuote THEN 0 ELSE VariableAt(segment)),
                    LastCommand(Words(SubSeq(head, 1, token.start - 1))),
                    InComment(head))

\* parse_completion_context.
Context(line, cursor) ==
    LET head == SubSeq(line, 1, cursor) IN TokenContext(head, CurrentToken(head))
-----------------------------------------------------------------------------
(***************************************************************************)
(* Candidates.                                                             *)
(***************************************************************************)
QuotedButBlanks(name, quote) ==          \* variant: a blank is no shell metacharacter
    LET Of(c) == IF quote = "" /\ c \in ShellMeta \ {Space} THEN <<Backslash, c>> ELSE <<c>>
    IN  FoldLeft(LAMBDA text, c : text \o Of(c), <<>>, name)

Quoted(name, quote) ==
    LET Of(c) == CASE quote = SQuote /\ c = SQuote -> <<SQuote, Backslash, SQuote, SQuote>>
                   [] quote = DQuote /\ c \in {Backslash, DQuote, Dollar} -> <<Backslash, c>>
                   [] quote = "" /\ c \in ShellMeta -> <<Backslash, c>>
                   [] OTHER -> <<c>>
    IN  FoldLeft(LAMBDA text, c : text \o Of(c), <<>>, name)

\* A path typed so far: the directory, as typed, and what its name begins with.
PathSearch(prefix) ==
    LET slashes == {i \in 1..Len(prefix) : prefix[i] = Slash}
        cut     == IF slashes = {} THEN 0 ELSE CHOOSE i \in slashes : \A j \in slashes : i >= j
    IN  [directory |-> SubSeq(prefix, 1, cut), name |-> SubSeq(prefix, cut + 1, Len(prefix))]

PathCandidates(context, onlyDirectories) ==
    LET search == PathSearch(context.prefix)
        names  == IF search.directory \in DOMAIN Tree THEN Tree[search.directory] ELSE <<>>
        hidden == search.name # <<>> /\ search.name[1] = Dot
    IN  {[value |-> Quoted(search.directory \o n \o (IF names[n] THEN <<Slash>> ELSE <<>>), context.quote),
          space |-> ~names[n]] :
            n \in {m \in DOMAIN names : /\ Matches(m, search.name)
                                        /\ m[1] = Dot => hidden
                                        /\ onlyDirectories => names[m]}}

CommandCandidates(context) ==
    {[value |-> n, space |-> TRUE] : n \in {m \in Commands : Matches(m, context.prefix)}}
    \cup PathCandidates(context, FALSE)

VariableCandidates(context) ==
    {[value |-> IF context.variable = "brace" THEN <<Dollar, BraceOpen>> \o n \o <<BraceClose>>
                ELSE <<Dollar>> \o n,
      space |-> FALSE] : n \in {m \in Variables : Matches(m, context.name)}}

JobCandidates(context) ==
    LET percent == context.prefix # <<>> /\ context.prefix[1] = Percent
        prefix  == IF percent THEN Tail(context.prefix) ELSE context.prefix
    IN  {[value |-> IF percent THEN <<Percent>> \o n ELSE n, space |-> TRUE] :
            n \in {m \in JobIds : IsPrefix(prefix, m)}}

\* CompletionEngine.complete.
Offered(context) ==
    CASE context.comment -> {}
      [] context.variable # "none" -> VariableCandidates(context)
      [] context.command \in JobCommands -> JobCandidates(context)
      [] context.first -> CommandCandidates(context)
      [] OTHER -> PathCandidates(context, context.command \in DirectoryCommands)

\* Completer.raw_completion: plugin commands join; then a space follows whatever has no slash.
WithPlugins(own, plugin) ==
    LET Bare(value) == [value |-> value, space |-> value[Len(value)] # Slash]
    IN  IF plugin = {} THEN own ELSE {Bare(v) : v \in plugin \cup {c.value : c \in own}}

CandidatesIn(context, own) ==
    WithPlugins(own, {n \in PluginCommands : context.first /\ Matches(n, context.prefix)}
                     \ {c.value : c \in own})

Candidates(context) == CandidatesIn(context, Offered(context))
-----------------------------------------------------------------------------
CommonPrefix(texts) ==
    LET t == CHOOSE u \in texts : TRUE
        n == {k \in 0..Len(t) : \A u \in texts : IsPrefix(SubSeq(t, 1, k), u)}
    IN  SubSeq(t, 1, CHOOSE k \in n : \A j \in n : k >= j)

Replaced(line, start, cursor, text) ==
    [buf |-> SubSeq(line, 1, start - 1) \o text \o SubSeq(line, cursor + 1, Len(line)),
     cur |-> start - 1 + Len(text)]

\* _complete: one candidate replaces the word, several extend it by what they share.
CompletedWith(line, cursor, context, candidates) ==
    LET Insert(text) == Replaced(line, context.start, cursor, text)
        Extend(shared) == IF Len(shared) > Len(context.prefix) THEN Insert(shared)
                          ELSE [buf |-> line, cur |-> cursor]
    IN  IF candidates = {} THEN [buf |-> line, cur |-> cursor]
        ELSE IF Cardinality(candidates) > 1 THEN Extend(CommonPrefix({c.value : c \in candidates}))
        ELSE LET c == CHOOSE d \in candidates : TRUE
             IN  Insert(IF c.space THEN Append(c.value, Space) ELSE c.value)

CompletedIn(line, cursor, context) == CompletedWith(line, cursor, context, Candidates(context))

Completed(line, cursor) == CompletedIn(line, cursor, Context(line, cursor))

\* AutoSuggester: what the completion of a command's first word would add, when it is certain.
TailOf(context, shared) ==
    IF context.first /\ Len(shared) > Len(context.prefix)
    THEN SubSeq(shared, Len(context.prefix) + 1, Len(shared)) ELSE <<>>

Shared(candidates) == IF candidates = {} THEN <<>> ELSE CommonPrefix({c.value : c \in candidates})

TailIn(context) == TailOf(context, Shared(Candidates(context)))

CompletionTail(line) == TailIn(Context(line, Len(line)))
=============================================================================
