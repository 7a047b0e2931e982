---------------------------- MODULE WrittenLines ----------------------------
(***************************************************************************)
(* What a command line means, from how it is put together and not from its *)
(* text: the grammar and the rules of docs/spec/pysh-language.md (sections *)
(* 3 to 7).  A line is built of elements, stages, tokens, words and        *)
(* fragments; Text writes it down, and CommandText reads it back.          *)
(*                                                                         *)
(* Left out is what the language leaves unspecified, and the lines where   *)
(* the shell is known to differ (README, "Also observed").                 *)
(***************************************************************************)
EXTENDS CommandText

(***************************************************************************)
(* Words: fragments, each with a way of quoting.                           *)
(***************************************************************************)
Chars(quote, text) == [quote |-> quote, is |-> "chars", text |-> text]
Var(quote, name)   == [quote |-> quote, is |-> "var", text |-> name]
Subst(quote, text) == [quote |-> quote, is |-> "subst", text |-> text]

Mark(quote) == CASE quote = "single" -> <<SQuote>>
                 [] quote \in {"double", "unclosed"} -> <<DQuote>>
                 [] OTHER -> <<>>

Protected(quote, c) == IF quote = "escaped" \/ (quote = "double" /\ c \in Escapable) THEN <<Backslash, c>> ELSE <<c>>

Inner(f, last) ==
    CASE f.is = "chars" -> FlattenSeq([i \in DOMAIN f.text |-> Protected(f.quote, f.text[i])])
      [] f.is = "var"   -> IF last THEN <<Dollar>> \o f.text ELSE <<Dollar, "{">> \o f.text \o <<Closer>>
      [] f.is = "subst" -> <<Dollar, "(">> \o f.text \o <<")">>

\* Neighbours that are quoted alike share their quotes.
WordText(w) ==
    LET Begins(i) == i = 1 \/ w[i - 1].quote # w[i].quote
        Ends(i)   == w[i].quote # "unclosed" /\ (i = Len(w) \/ w[i + 1].quote # w[i].quote)
    IN  FlattenSeq([i \in DOMAIN w |-> (IF Begins(i) THEN Mark(w[i].quote) ELSE <<>>)
                                       \o Inner(w[i], i = Len(w))
                                       \o (IF Ends(i) THEN Mark(w[i].quote) ELSE <<>>)])

\* PYSH-LANG-EXP-VARIABLE, -SUBST-COMMAND: what the characters of a fragment stand for.
Value(f) == CASE f.is = "chars" -> f.text
              [] f.is = "var"   -> IF f.text[1] \in SpecialNames THEN SpecialValue(f.text[1], Special) ELSE ValueOf(f.text)
              [] f.is = "subst" -> Output[f.text]

\* PYSH-LANG-QUOTE-RULES: each character, and whether it is bare.
Marked(w) ==
    FlattenSeq([i \in DOMAIN w |->
        LET value == Value(w[i])
        IN  [k \in DOMAIN value |-> [c |-> value[k], bare |-> w[i].quote = "bare"]]])

BareMarks(text)  == [i \in DOMAIN text |-> [c |-> text[i], bare |-> TRUE]]
PlainText(marks) == [i \in DOMAIN marks |-> marks[i].c]

\* PYSH-LANG-LEX-WORDS: bare blanks separate words.
Fields(marks) ==
    LET Step(fields, m) == IF m.bare /\ Blank(m.c) THEN Append(fields, <<>>)
                           ELSE Append(Front(fields), Append(Last(fields), m))
    IN  SelectSeq(FoldLeft(Step, <<<<>>>>, marks), NotEmpty)

\* PYSH-LANG-EXP-PATH; a redirection's target is no pattern.
TildeWord(marks) == IF marks[1].bare THEN Tilded(PlainText(marks)) ELSE PlainText(marks)

Arguments(field) ==
    IF \E i \in DOMAIN field : field[i].bare /\ field[i].c \in Metacharacters THEN PathWord(PlainText(field))
    ELSE <<TildeWord(field)>>

ArgumentsOf(fields) == FlattenSeq([i \in DOMAIN fields |-> Arguments(fields[i])])
-----------------------------------------------------------------------------
(***************************************************************************)
(* Tokens: words, assignments, redirections and here-documents.            *)
(***************************************************************************)
Word(w)        == [is |-> "word", word |-> w]
Sets(name, w)  == [is |-> "set", name |-> name, word |-> w]
To(op, w)      == [is |-> "to", op |-> op, word |-> w]
HereString(w)  == [is |-> "here", op |-> "<<<", word |-> w]

\* The lines of the body are words; ended says that the delimiter follows them.
HereDoc(op, w, body, ended) == [is |-> "here", op |-> op, word |-> w, body |-> body, ended |-> ended]

\* Python text in the line, and in lines that follow it.
Code(text)   == [is |-> "code", text |-> text, word |-> <<>>]
Block(lines) == [is |-> "block", lines |-> lines, word |-> <<>>]

\* PYSH-LANG-REDIR-FILES, -FD-DUP: how each operator is written, and what it does.
Files == [op \in {"<", "0<", ">", "1>", ">>", "1>>", "2>", "2>>", "&>", "&>>"} |->
    CASE op = "<"   -> [text |-> <<"<">>, fd |-> 0, kind |-> "read"]
      [] op = "0<"  -> [text |-> <<"0", "<">>, fd |-> 0, kind |-> "read"]
      [] op = ">"   -> [text |-> <<">">>, fd |-> 1, kind |-> "write"]
      [] op = "1>"  -> [text |-> <<"1", ">">>, fd |-> 1, kind |-> "write"]
      [] op = ">>"  -> [text |-> <<">>">>, fd |-> 1, kind |-> "append"]
      [] op = "1>>" -> [text |-> <<"1", ">>">>, fd |-> 1, kind |-> "append"]
      [] op = "2>"  -> [text |-> <<"2", ">">>, fd |-> 2, kind |-> "write"]
      [] op = "2>>" -> [text |-> <<"2", ">>">>, fd |-> 2, kind |-> "append"]
      [] op = "&>"  -> [text |-> <<"&", ">">>, fd |-> 1, kind |-> "write"]
      [] op = "&>>" -> [text |-> <<"&", ">>">>, fd |-> 1, kind |-> "append"]]

Copies == [op \in {"2>&1", "1>&2", ">&2"} |->
    CASE op = "2>&1" -> [text |-> <<"2", ">", "&", "1">>, fd |-> 2, from |-> 1]
      [] op = "1>&2" -> [text |-> <<"1", ">", "&", "2">>, fd |-> 1, from |-> 2]
      [] op = ">&2"  -> [text |-> <<">", "&", "2">>, fd |-> 1, from |-> 2]]

Copy(fd, from) == [fd |-> fd, kind |-> "dup", from |-> from]
Data           == [fd |-> 0, kind |-> "data"]

Acts(t) ==
    CASE t.is = "here" -> <<Data>>
      [] t.is = "to" /\ t.op \in DOMAIN Copies -> <<Copy(Copies[t.op].fd, Copies[t.op].from)>>
      [] t.is = "to" /\ t.op \in DOMAIN Files ->
           <<[fd |-> Files[t.op].fd, kind |-> Files[t.op].kind, path |-> TildeWord(Marked(t.word))]>>
           \o (IF t.op \in {"&>", "&>>"} THEN <<Copy(2, 1)>> ELSE <<>>)
      [] OTHER -> <<>>

\* How a token is written; with the token before it, or apart from it.
Operator(t) == CASE t.is = "here" -> <<t.op>>
                 [] t.op \in DOMAIN Copies -> Copies[t.op].text
                 [] OTHER -> Files[t.op].text

TokenText(t, tight) ==
    CASE t.is = "word"  -> WordText(t.word)
      [] t.is = "code"  -> <<"py", Space>> \o t.text
      [] t.is = "block" -> <<Opener>>
      [] t.is = "set"  -> t.name \o <<"=">> \o WordText(t.word)
      [] OTHER -> Operator(t) \o (IF tight \/ t.word = <<>> THEN <<>> ELSE <<Space>>) \o WordText(t.word)

MayTouch(t) == t.is = "here" \/ (t.is = "to" /\ t.op \in {"<", ">", ">>"})
-----------------------------------------------------------------------------
(***************************************************************************)
(* Stages, elements and lines.                                             *)
(***************************************************************************)
\* A line is wide, tight, or broken by backslashes between its tokens.
Gap(style) == IF style = "broken" THEN <<Space, Backslash, Newline>> ELSE <<Space>>

StageText(stage, style) ==
    LET tight == style = "tight"
    IN  FlattenSeq([i \in DOMAIN stage |->
            (IF i = 1 \/ (tight /\ MayTouch(stage[i])) THEN <<>> ELSE Gap(style)) \o TokenText(stage[i], tight)])

Apart(op, style) == IF style = "tight" THEN <<op>> ELSE Gap(style) \o <<op>> \o Gap(style)

ElementText(e, style) ==
    FlattenSeq([i \in DOMAIN e.stages |->
        (IF i = 1 THEN <<>> ELSE Apart(Pipe, style)) \o StageText(e.stages[i], style)])
    \o (IF e.op = "end" THEN <<>> ELSE Apart(e.op, style))

\* What stands in the lines behind the command line.
LinesOf(t) ==
    CASE t.is = "block" -> Append(t.lines, <<Closer>>)
      [] t.is = "here" /\ t.op # "<<<" ->
           [i \in DOMAIN t.body |-> WordText(t.body[i])] \o (IF t.ended THEN <<PlainText(Marked(t.word))>> ELSE <<>>)
      [] OTHER -> <<>>

Tokens(line) == FlattenSeq([i \in DOMAIN line.elements |-> FlattenSeq(line.elements[i].stages)])

Text(line) ==
    FlattenSeq([i \in DOMAIN line.elements |-> ElementText(line.elements[i], line.style)]) \o line.comment
    \o FlattenSeq([i \in DOMAIN Tokens(line) |->
           FlattenSeq([k \in DOMAIN LinesOf(Tokens(line)[i]) |-> <<Newline>> \o LinesOf(Tokens(line)[i])[k]])])

\* The alias of a stage's first word; PYSH-LANG-EXP-ORDER.
TokenMarks(stage, i) ==
    LET marks == Marked(stage[i].word)
    IN  CASE stage[i].is = "set" -> BareMarks(stage[i].name \o <<"=">>) \o marks
          [] stage[i].is = "word" /\ i = 1 /\ PlainText(marks) \in DOMAIN Aliases ->
               BareMarks(Aliases[PlainText(marks)])
          [] OTHER -> marks

FieldsOf(stage) ==
    FlattenSeq([i \in DOMAIN stage |->
        IF stage[i].is \in {"word", "set"} THEN Fields(TokenMarks(stage, i)) ELSE <<>>])

\* PYSH-LANG-QUOTE-RULES, -REDIR-FILES: an unclosed quote, and a missing target.
IsRefused(stage) ==
    \E t \in ToSet(stage) : \/ \E f \in ToSet(t.word) : f.quote = "unclosed"
                            \/ t.is = "to" /\ t.op \in DOMAIN Files /\ t.word = <<>>

\* PYSH-LANG-EXP-VARIABLE: the assignments that lead a command.
CommandMeans(stage) ==
    LET fields == FieldsOf(stage)
        n      == IF stage[1].is = "set" THEN 1 ELSE 0
        from   == IF n = 1 THEN Len(stage[1].name) + 1 ELSE 0
    IN  IF IsRefused(stage) THEN Refused
    ELSE [ok  |-> TRUE,
         sets |-> [i \in 1..n |-> <<stage[1].name, SubSeq(PlainText(fields[1]), from + 1, Len(fields[1]))>>],
         argv |-> ArgumentsOf(SubSeq(fields, n + 1, Len(fields))),
         acts |-> FlattenSeq([i \in DOMAIN stage |-> Acts(stage[i])])]

\* PYSH-LANG-PY-INLINE, -PY-BLOCK.
StageMeans(stage) ==
    CASE stage[1].is = "code"  -> PythonOf(stage[1].text, FlattenSeq([i \in DOMAIN stage |-> Acts(stage[i])]))
      [] stage[1].is = "block" -> PythonOf(IF stage[1].lines = <<>> THEN <<>> ELSE Joined(stage[1].lines), <<>>)
      [] OTHER -> CommandMeans(stage)

\* A line that is one assignment sets the variable to the whole value.
AssignmentMeans(t) ==
    [ok |-> TRUE, sets |-> <<<<t.name, PlainText(Marked(t.word))>>>>, argv |-> <<>>, acts |-> <<>>]

IsOneAssignment(line) ==
    /\ Len(line.elements) = 1 /\ Len(line.elements[1].stages) = 1
    /\ Len(line.elements[1].stages[1]) = 1 /\ line.elements[1].stages[1][1].is = "set"

\* PYSH-LANG-HEREDOC-COLLECT, -HEREDOC-EXPAND: a quoted delimiter makes the body literal.
Stored(t, w) ==
    LET said == IF \E f \in ToSet(t.word) : f.quote # "bare" THEN WordText(w) ELSE PlainText(Marked(w))
    IN  IF t.op = "<<-" THEN Untabbed(said) ELSE said

BodyOf(t) == IF t.op = "<<<" THEN Append(PlainText(Marked(t.word)), Newline)
             ELSE FlattenSeq([i \in DOMAIN t.body |-> Append(Stored(t, t.body[i]), Newline)])

BodiesOf(stage) ==
    LET here == SelectSeq(stage, LAMBDA t : t.is = "here")
    IN  [i \in DOMAIN here |-> BodyOf(here[i])]

\* PYSH-LANG-PIPE-STATUS: an empty stage is an error of the whole pipeline, and so is one
\* that names no command.
PipelineMeans(stages) ==
    IF \E i \in DOMAIN stages : stages[i] = <<>> \/ StageMeans(stages[i]).argv = <<>> THEN <<Refused>>
    ELSE [i \in DOMAIN stages |-> StageMeans(stages[i])]

ElementMeans(line, e) ==
    [op |-> e.op,
     stages |-> IF IsOneAssignment(line) THEN <<AssignmentMeans(e.stages[1][1])>>
                ELSE IF Len(e.stages) = 1 /\ e.stages[1] # <<>> THEN <<StageMeans(e.stages[1])>>
                ELSE PipelineMeans(e.stages)]

\* PYSH-LANG-CHAIN-BACKGROUND: an ampersand without a command, of the whole line.
IsLoneAmpersand(e) == e.op = "&" /\ e.stages = <<>>

\* PYSH-LANG-ERROR-UNSUPPORTED: a control word at the start of a line, and bare signs; and what
\* docs/migration/zsh-compatibility.md lists.
ForeignSigns ==
    {<<"<", "(">>, <<Dollar, "(", "(">>, <<"*", "(", ".", ")">>, <<Dollar, "{", "A", "[", "2", "]", Closer>>,
     <<Dollar, "{", "(", "U", ")", "A", Closer>>, <<Dollar, "{", "A", ":", "U", Closer>>}

HoldsForeign(w) == \E f \in ToSet(w) : f.quote = "bare" /\ f.is = "chars" /\ f.text \in ForeignSigns

StartsForeign(t) ==
    \/ t.is = "word" /\ \E word \in ControlWords \cup ZshWords : t.word = <<Chars("bare", <<word>>)>>
    \/ t.is = "set" /\ \/ t.name = <<"PS1">> /\ \E f \in ToSet(t.word) : f.is = "chars" /\ f.text = <<"%", "~">>
                       \/ t.word = <<Chars("bare", <<"(", "a", ")">>)>>

IsForeign(line) ==
    \/ \E t \in ToSet(Tokens(line)) : HoldsForeign(t.word)
    \/ Tokens(line) # <<>> /\ StartsForeign(Head(Tokens(line)))

\* PYSH-LANG-HEREDOC-COLLECT: a missing terminator.
LacksTerminator(line) == \E t \in ToSet(Tokens(line)) : t.is = "here" /\ t.op # "<<<" /\ ~t.ended

Meaning(line) ==
    IF LacksTerminator(line) THEN [elements |-> RefusedLine, bodies |-> <<>>]
    ELSE [elements |-> IF IsForeign(line) \/ \E e \in ToSet(line.elements) : IsLoneAmpersand(e) THEN RefusedLine
                       ELSE [i \in DOMAIN line.elements |-> ElementMeans(line, line.elements[i])],
          bodies   |-> FlattenSeq([i \in DOMAIN line.elements |->
                           FlattenSeq([k \in DOMAIN line.elements[i].stages |->
                                          BodiesOf(line.elements[i].stages[k])])])]

ReadBack(line) == CommandRead(Text(line)) = Meaning(line)
=============================================================================
