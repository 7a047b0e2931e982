---------------------------- MODULE CommandText ----------------------------
(***************************************************************************)
(* From the text of a command line to what is run: the stages of           *)
(* _execute_impl, _run_chain_element and _run_simple (core/shell.py) with  *)
(* the scanners of parsing/.                                               *)
(*                                                                         *)
(* Every stage rewrites text, and the next one reads that text again from  *)
(* its quotes on.  Backquotes, ~user and the patterns "[" and "**" are     *)
(* left out, and a stage of Python text has "py" for its first word.       *)
(***************************************************************************)
EXTENDS Scanners, FiniteSets

CONSTANTS
    Output,      \* what each command prints when it is substituted
    Aliases,     \* the text each alias stands for
    LocalVars,   \* local_vars
    Environ,     \* os.environ
    Special,     \* _special_vars
    NameChars,   \* letters, digits and the underscore
    Home,        \* the home directory
    Directory    \* the names in the working directory, in order

\* A character that stands for what is left of a here-document's word.
Placeholder == "PYSH_HEREDOC"

Digits == {"0", "1", "2", "9"}

IsName(text) == /\ text # <<>> /\ text[1] \notin Digits
                /\ \A i \in 1..Len(text) : text[i] \in NameChars

\* What a scan finds at i: a text in the place of the characters before next, and records.
Instead(text, next, found) == [out |-> text, next |-> next, found |-> found]
Nothing(i) == Instead(<<>>, i, <<>>)

\* A scan from left to right; At(i, mode) is what is found at i, and what was read is skipped.
Scan(text, At(_, _)) ==
    LET Take(acc, here, i) ==
            IF here.next > i
            THEN [acc EXCEPT !.out = @ \o here.out, !.next = here.next, !.found = @ \o here.found]
            ELSE [acc EXCEPT !.out = Append(@, text[i]), !.mode = NextMode(text, i, @)]
        Step(acc, i) == IF i < acc.next THEN acc ELSE Take(acc, At(i, acc.mode), i)
    IN  FoldLeft(Step, [out |-> <<>>, next |-> 1, found |-> <<>>, mode |-> "bare"],
                 [i \in 1..Len(text) |-> i])

Active(text, i, mode, next) ==
    mode \in {"bare", "double"} /\ text[i] = Dollar /\ i < Len(text) /\ text[i + 1] \in next
-----------------------------------------------------------------------------
(***************************************************************************)
(* Command substitution and variables.                                     *)
(***************************************************************************)
\* _find_matching_paren: where the parenthesis that opens at i is closed; 0 for nowhere.
MatchingParen(text, i) ==
    LET rest  == SubSeq(text, i, Len(text))
        modes == Modes(rest)
        bare(c, k) == {j \in 1..k : rest[j] = c /\ modes[j - 1] = "bare"}
        ends  == {k \in bare(")", Len(rest)) : Cardinality(bare("(", k)) = Cardinality(bare(")", k))}
    IN  IF ends = {} THEN 0 ELSE i - 1 + (CHOOSE k \in ends : \A j \in ends : k <= j)

SubstitutionTo(text, i, close) ==
    IF close = 0 THEN Nothing(i) ELSE Instead(Output[SubSeq(text, i + 2, close - 1)], close + 1, <<>>)

\* expand_command_substitution.
Substituted(text) ==
    LET At(i, mode) == IF Active(text, i, mode, {"("}) THEN SubstitutionTo(text, i, MatchingParen(text, i + 1))
                       ELSE Nothing(i)
    IN  Scan(text, At).out

\* A local variable comes before one of the environment; an unset one is empty.
ValueOf(name) ==
    CASE name \in DOMAIN LocalVars -> LocalVars[name]
      [] name \in DOMAIN Environ   -> Environ[name]
      [] OTHER -> <<>>

\* A special parameter that is not given is empty, and the status 0.
SpecialValue(c, special) ==
    CASE c \in DOMAIN special -> special[c]
      [] c = "?" -> <<"0">>
      [] OTHER -> <<>>

SpecialNames == Digits \cup {"?", "@", Hash, "*"}

\* ${name}: what is neither a name nor a parameter stays as it is, and so does an open brace.
Braced(text, i, special) ==
    LET ends == {j \in i + 2..Len(text) : text[j] = Closer}
        end  == CHOOSE j \in ends : \A k \in ends : j <= k
        name == SubSeq(text, i + 2, end - 1)
    IN  CASE ends = {} -> Nothing(i)
          [] IsName(name) -> Instead(ValueOf(name), end + 1, <<>>)
          [] Len(name) = 1 /\ name[1] \in SpecialNames -> Instead(SpecialValue(name[1], special), end + 1, <<>>)
          [] OTHER -> Instead(SubSeq(text, i, end), end + 1, <<>>)

\* $name: the longest name.
Named(text, i) ==
    LET ends == {j \in i + 1..Len(text) : IsName(SubSeq(text, i + 1, j))}
        end  == CHOOSE j \in ends : \A k \in ends : j >= k
    IN  IF ends = {} THEN Nothing(i) ELSE Instead(ValueOf(SubSeq(text, i + 1, end)), end + 1, <<>>)

\* expand_variables.
Expanded(text, special) ==
    LET At(i, mode) ==
            CASE Active(text, i, mode, SpecialNames) -> Instead(SpecialValue(text[i + 1], special), i + 2, <<>>)
              [] Active(text, i, mode, {"{"})        -> Braced(text, i, special)
              [] Active(text, i, mode, NameChars)    -> Named(text, i)
              [] OTHER -> Nothing(i)
    IN  Scan(text, At).out
-----------------------------------------------------------------------------
(***************************************************************************)
(* Here-documents: their bodies follow the command line, their words are   *)
(* taken out of it before it is read, and what they say is kept in order.  *)
(***************************************************************************)
Tab == "tab"

IsQuotedWord(word) == \E c \in ToSet(word) : c \in {SQuote, DQuote, Backslash}

Untabbed(line) ==
    LET others == {i \in 1..Len(line) : line[i] # Tab}
    IN  IF others = {} THEN <<>> ELSE SubSeq(line, CHOOSE i \in others : \A j \in others : i <= j, Len(line))

BodyLineOf(spec, line) == IF spec.operator = "<<-" THEN Untabbed(line) ELSE line

\* apply_heredoc_expansion: a quoted delimiter keeps the body as it is.
BodyApplied(spec, text) ==
    CASE spec.operator = "<<<"   -> Append(ShlexUnquoted(Expanded(Substituted(text), Special)), Newline)
      [] IsQuotedWord(spec.word) -> text
      [] OTHER -> Expanded(Substituted(text), Special)

\* The lines of a body up to its delimiter, or the word of a here-string.
BodyTaken(acc, spec) ==
    LET ends == {k \in DOMAIN acc.lines : BodyLineOf(spec, acc.lines[k]) = spec.delimiter}
        end  == CHOOSE k \in ends : \A j \in ends : k <= j
        body == FlattenSeq([k \in 1..end - 1 |-> Append(BodyLineOf(spec, acc.lines[k]), Newline)])
    IN  CASE spec.operator = "<<<" -> [acc EXCEPT !.bodies = Append(@, BodyApplied(spec, spec.word))]
          [] ends = {} -> [acc EXCEPT !.failed = TRUE]
          [] OTHER -> [acc EXCEPT !.bodies = Append(@, BodyApplied(spec, body)), !.lines = SubSeq(@, end + 1, Len(@))]

\* _mask_heredoc_words.
Masked(text) ==
    LET At(i, mode) ==
            IF mode = "bare" /\ text[i] \in HeredocOperators
            THEN Instead(<<text[i], Space, Placeholder>>, WordEnd(text, i + 1) + 1, <<>>)
            ELSE Nothing(i)
    IN  Scan(text, At).out

\* collect_heredoc_bodies: the line with placeholders, and the bodies; without a here-document
\* what follows the first line stays with it.
BodiesCollected(text) ==
    LET first == Head(Lines(text))
        all   == FoldLeft(BodyTaken, [lines |-> Tail(Lines(text)), bodies |-> <<>>, failed |-> FALSE],
                          HeredocSpecs(first))
    IN  IF HeredocSpecs(first) = <<>> THEN [text |-> text, bodies |-> <<>>, failed |-> FALSE]
        ELSE [text |-> Masked(first), bodies |-> all.bodies, failed |-> LacksDelimiter(first) \/ all.failed]
-----------------------------------------------------------------------------
(***************************************************************************)
(* Redirections.                                                           *)
(***************************************************************************)
Dup(word, fd, from) == [word |-> word, acts |-> <<[fd |-> fd, kind |-> "dup", from |-> from]>>,
                        fd |-> fd, kind |-> "dup", alone |-> TRUE, both |-> FALSE]
Open(word, fd, kind, alone) == [word |-> word, acts |-> <<>>, fd |-> fd, kind |-> kind,
                                alone |-> alone, both |-> FALSE]
OpenBoth(word, kind) == [Open(word, 1, kind, TRUE) EXCEPT !.both = TRUE]

\* The operators; those that begin with a digit or an ampersand, and ">&2", only where a
\* word begins.
Redirections ==
    {Dup(<<"2", ">", "&", "1">>, 2, 1), Dup(<<"1", ">", "&", "2">>, 1, 2), Dup(<<">", "&", "2">>, 1, 2),
     OpenBoth(<<"&", ">>">>, "append"), OpenBoth(<<"&", ">">>, "write"),
     Open(<<"2", ">>">>, 2, "append", TRUE), Open(<<"2", ">">>, 2, "write", TRUE),
     Open(<<"1", ">>">>, 1, "append", TRUE), Open(<<"1", ">">>, 1, "write", TRUE),
     Open(<<">>">>, 1, "append", FALSE), Open(<<">">>, 1, "write", FALSE),
     Open(<<"0", "<">>, 0, "read", TRUE), Open(<<"<">>, 0, "read", FALSE)}

AtTokenBoundary(text, i) == i = 1 \/ text[i - 1] \in WordEnds

\* The operator at i; the tests are made from the longest to the shortest.
OperatorsAt(text, i) ==
    {op \in Redirections : /\ IsPrefix(op.word, SubSeq(text, i, Len(text)))
                           /\ op.alone => AtTokenBoundary(text, i)}

Tilded(word) ==
    IF word # <<>> /\ word[1] = "~" /\ (Len(word) = 1 \/ word[2] = "/") THEN Home \o Tail(word) ELSE word

Missing == [fd |-> 0, kind |-> "missing"]

\* The actions of an operator whose target is given.
Opening(op, target) ==
    IF target = <<>> THEN <<Missing>>
    ELSE <<[fd |-> op.fd, kind |-> op.kind, path |-> Tilded(target)]>>
         \o (IF op.both THEN <<[fd |-> 2, kind |-> "dup", from |-> 1]>> ELSE <<>>)

RedirectionBy(op, text, i) ==
    LET behind == i + Len(op.word)
    IN  IF op.kind = "dup" THEN Instead(<<>>, behind, op.acts)
        ELSE Instead(<<>>, WordEnd(text, behind) + 1, Opening(op, ShlexUnquoted(WordAt(text, behind))))

\* parse_redirections: the command without its redirections, and the actions in their order.
ParsedRedirections(text) ==
    LET Longest(ops) == CHOOSE op \in ops : \A o \in ops : Len(op.word) >= Len(o.word)
        At(i, mode) ==
            CASE mode # "bare" -> Nothing(i)
              [] text[i] \in HeredocOperators ->
                   Instead(<<>>, WordEnd(text, i + 1) + 1, <<[fd |-> 0, kind |-> "data"]>>)
              [] OperatorsAt(text, i) # {} -> RedirectionBy(Longest(OperatorsAt(text, i)), text, i)
              [] OTHER -> Nothing(i)
    IN  Scan(text, At)
-----------------------------------------------------------------------------
(***************************************************************************)
(* Words.                                                                  *)
(***************************************************************************)
\* glob: a star stands for any characters, a question mark for one, neither for a slash, and
\* a name that begins with a dot wants one in the pattern.
GlobMatches(pattern, name) ==
    LET match[k \in (0..Len(pattern)) \X (0..Len(name))] ==
            LET p == k[1]  n == k[2]
            IN  CASE p = 0 -> n = 0
                  [] pattern[p] = "*" -> match[<<p - 1, n>>] \/ (n > 0 /\ name[n] # "/" /\ match[<<p, n - 1>>])
                  [] pattern[p] = "?" -> n > 0 /\ name[n] # "/" /\ match[<<p - 1, n - 1>>]
                  [] OTHER -> n > 0 /\ pattern[p] = name[n] /\ match[<<p - 1, n - 1>>]
    IN  match[<<Len(pattern), Len(name)>>] /\ (name[1] = "." => pattern[1] = ".")

\* expand_path_word: a pattern that nothing matches stays as it was written.
PathWord(word) ==
    LET found == SelectSeq(Directory, LAMBDA name : GlobMatches(Tilded(word), name))
    IN  IF found = <<>> THEN <<word>> ELSE found

Finished(word) ==
    CASE word.glob  -> PathWord(word.chars)
      [] word.tilde -> <<Tilded(word.chars)>>
      [] OTHER -> <<word.chars>>

\* tokenize_and_glob_expand, after _collapse_unquoted_whitespace.
Argv(text) ==
    LET words == WordsOf(text, Escapable)
    IN  FlattenSeq([i \in DOMAIN words |-> Finished(words[i])])

\* NAME=value.
EqualsAt(word) ==
    LET at == {i \in 2..Len(word) : word[i] = "=" /\ IsName(SubSeq(word, 1, i - 1))}
    IN  IF at = {} THEN 0 ELSE CHOOSE i \in at : TRUE

IsAssignment(word) == EqualsAt(word) > 0

Assignment(word) == <<SubSeq(word, 1, EqualsAt(word) - 1), SubSeq(word, EqualsAt(word) + 1, Len(word))>>

\* parse_leading_env_assignments.
SplitAssignments(words) ==
    LET others == {i \in 1..Len(words) : ~IsAssignment(words[i])}
        first  == IF others = {} THEN Len(words) + 1 ELSE CHOOSE i \in others : \A j \in others : i <= j
    IN  [sets |-> [i \in 1..first - 1 |-> Assignment(words[i])], argv |-> SubSeq(words, first, Len(words))]
-----------------------------------------------------------------------------
(***************************************************************************)
(* Commands, pipelines and chains.                                         *)
(***************************************************************************)
\* _expand_alias: the first word, up to a bare blank, without its quotes.
FirstBlank(text) ==
    LET at == {i \in 1..Len(text) : text[i] = Space /\ IsBare(text, i)}
    IN  IF at = {} THEN Len(text) + 1 ELSE CHOOSE i \in at : \A j \in at : i <= j

AliasExpanded(text) ==
    LET end  == FirstBlank(text)
        name == ShlexUnquoted(SubSeq(text, 1, end - 1))
    IN  IF name \in DOMAIN Aliases THEN Aliases[name] \o SubSeq(text, end, Len(text)) ELSE text

Refused == [ok |-> FALSE, sets |-> <<>>, argv |-> <<>>, acts |-> <<>>]

\* _run_simple, up to the command.
SimpleRead(parsed) ==
    IF (\E a \in ToSet(parsed.found) : a.kind = "missing") \/ QuoteOpen(parsed.out) THEN Refused
    ELSE LET split == SplitAssignments(Argv(parsed.out))
         IN  [ok |-> TRUE, sets |-> split.sets, argv |-> split.argv, acts |-> parsed.found]

\* A Python text is a stage whose words are py and the text.
PythonOf(code, acts) == [ok |-> TRUE, sets |-> <<>>, argv |-> <<<<"py">>, code>>, acts |-> acts]

\* _extract_direct_py_code.
StartsPython(text) == Len(text) > 2 /\ text[1] = "py" /\ text[2] = Space

PythonCode(text) == Strip(SubSeq(text, 3, Len(text)))

StageRead(text) == SimpleRead(ParsedRedirections(Expanded(AliasExpanded(text), Special)))

\* An ampersand that belongs to a redirection.
IsRedirecting(line, i) ==
    \/ i < Len(line) /\ line[i + 1] \in {">", ">>"}
    \/ i > 1 /\ line[i - 1] \in {">", ">>", "<"}

ChainOperators == {";", "&&", "||", "&"}

\* split_chain: the operator behind each element, and its text.
SplitChain(line) ==
    LET modes == Modes(line)
        Ends(i) == modes[i - 1] = "bare" /\ line[i] \in ChainOperators /\ ~(line[i] = "&" /\ IsRedirecting(line, i))
        Step(acc, i) ==
            IF Ends(i) THEN [done |-> Append(acc.done, [op |-> line[i], text |-> Strip(acc.text)]), text |-> <<>>]
            ELSE [acc EXCEPT !.text = Append(@, line[i])]
        all == FoldLeft(Step, [done |-> <<>>, text |-> <<>>], [i \in 1..Len(line) |-> i])
    IN  Append(all.done, [op |-> "end", text |-> Strip(all.text)])

LoneAmpersand == [op |-> "&", text |-> <<>>]

\* _resolve_execution_stage: in a pipeline a stage may be Python text, and has to have a command.
PipedRead(parsed) ==
    IF (\A a \in ToSet(parsed.found) : a.kind # "missing") /\ StartsPython(Strip(parsed.out))
    THEN PythonOf(PythonCode(Strip(parsed.out)), parsed.found)
    ELSE LET read == SimpleRead(parsed) IN IF read.argv = <<>> THEN Refused ELSE read

PipedStageRead(text) == PipedRead(ParsedRedirections(Expanded(AliasExpanded(text), Special)))

\* One stage that cannot be read refuses the whole pipeline.
Pipeline(reads) == IF Refused \in ToSet(reads) THEN <<Refused>> ELSE reads

\* A pipeline with an empty stage is refused, and so is a lone ampersand with its whole line.
ElementRead(element) ==
    LET stages == Stages(element.text)
    IN  [op |-> element.op,
         stages |-> CASE <<>> \in ToSet(stages) -> <<Refused>>
                      [] Len(stages) = 1 -> <<StageRead(stages[1])>>
                      [] OTHER -> Pipeline([i \in 1..Len(stages) |-> PipedStageRead(stages[i])])]

ChainRead(chain) == [i \in 1..Len(chain) |-> ElementRead(chain[i])]

RefusedLine == <<[op |-> "end", stages |-> <<Refused>>]>>

\* A bare assignment is a line that shlex reads as one word; it knows no special parameters.
IsBareAssignment(line) ==
    /\ IsAssignment(line)
    /\ \A i \in 1..Len(line) : Blank(line[i]) => ~IsBare(line, i)
    /\ ~ShlexUnreadable(line)

AssignmentRead(line) ==
    [op |-> "end", stages |-> <<[ok |-> TRUE, argv |-> <<>>, acts |-> <<>>,
        sets |-> <<<<Assignment(line)[1], ShlexJoined(Expanded(Assignment(line)[2], <<>>), <<Space>>)>>>>]>>]

\* validate_unsupported_syntax: substitution of processes, arithmetic, and the control flow of
\* other shells, which is known by the first word of the line.
ControlWords == {"case", "do", "done", "else", "esac", "fi", "for", "function", "if", "then", "while", "let"}

UnsupportedIn(text, start) ==
    \/ \E i \in 1..Len(text) : /\ text[i] \in {"<", Dollar} /\ IsBare(text, i)
                              /\ \E sign \in {<<"<", "(">>, <<Dollar, "(", "(">>} :
                                    IsPrefix(sign, SubSeq(text, i, Len(text)))
    \/ IsPrefix(<<"(", "(">>, start)
    \/ start # <<>> /\ start[1] \in ControlWords /\ (Len(start) = 1 \/ Blank(start[2]))

\* detect_unsupported_zsh_syntax.  Its patterns are looked for in the text as it is, in quotes
\* or not; only its words are read, up to a hash.
ZshWords    == {"compinit", "autoload", "setopt", "unsetopt"}
PromptNames == {"PROMPT", "RPROMPT", "PS1"}
Qualifiers  == {".", "N", "/", "^", "@", "=", "+", "-"}
NoPattern   == {Space, SQuote, DQuote, ";", Pipe, "||", "&", "&&"}

FirstShlexWord(text) ==
    LET ends == {i \in 1..Len(text) : text[i] = Hash /\ IsBare(text, i)}
        cut  == IF ends = {} THEN text ELSE SubSeq(text, 1, (CHOOSE i \in ends : \A j \in ends : i <= j) - 1)
        words == WordsOf(cut, {DQuote, Backslash})
    IN  IF ShlexUnreadable(cut) \/ words = <<>> THEN <<>> ELSE words[1].chars

\* What stands between a "${" and a brace that may close it.
InBraces(text) ==
    LET opens == {i \in 1..Len(text) - 1 : text[i] = Dollar /\ text[i + 1] = "{"}
    IN  {SubSeq(text, k[1] + 2, k[2] - 1) : k \in {k \in opens \X (1..Len(text)) : k[1] < k[2] /\ text[k[2]] = Closer}}

IsSubscripted(t) ==
    \E k \in 2..Len(t) - 2 : /\ IsName(SubSeq(t, 1, k - 1)) /\ t[k] = "[" /\ t[Len(t)] = "]"
                            /\ "]" \notin ToSet(SubSeq(t, k + 1, Len(t) - 1))

IsFlaggedOrModified(t) ==
    /\ Closer \notin ToSet(t)
    /\ \/ \E k \in 3..Len(t) - 1 : t[1] = "(" /\ t[k] = ")"
       \/ \E k \in 2..Len(t) - 1 : /\ IsName(SubSeq(t, 1, k - 1)) /\ t[k] = ":"
                                   /\ t[k + 1] \in NameChars \ Digits

IsArray(text) ==
    /\ EqualsAt(text) > 0 /\ EqualsAt(text) + 2 <= Len(text) /\ text[EqualsAt(text) + 1] = "("
    /\ {i \in 1..Len(text) : text[i] = ")"} = {Len(text)}

IsQualified(text) ==
    \E s \in 1..Len(text) :
        /\ text[s] = "*"
        /\ \E b \in 1..s : /\ b = 1 \/ text[b - 1] \in {"/", Space}
                           /\ \A i \in b..s : text[i] \notin NoPattern
        /\ \E o \in s + 1..Len(text) :
              /\ text[o] = "(" /\ \A i \in s..o : text[i] \notin NoPattern
              /\ \E c \in o + 2..Len(text) : text[c] = ")" /\ \A i \in o + 1..c - 1 : text[i] \in Qualifiers

IsPromptEscape(text, i) ==
    /\ text[i] = "%" /\ i < Len(text)
    /\ \/ text[i + 1] \in {"~", "m", "d", "n", Hash, "?", "f", "k"}
       \/ text[i + 1] \in {"F", "K"} /\ i + 3 < Len(text) /\ text[i + 2] = "{"
          /\ \E j \in i + 4..Len(text) : text[j] = Closer

SetsZshPrompt(text) ==
    /\ \/ Len(FirstShlexWord(text)) = 1 /\ FirstShlexWord(text)[1] \in PromptNames
       \/ Len(text) > 1 /\ text[1] \in PromptNames /\ text[2] = "="
    /\ \E i \in 1..Len(text) : IsPromptEscape(text, i)

\* A "${" outside single quotes.
HoldsBraces(text) == \E i \in 1..Len(text) : Active(text, i, Modes(text)[i - 1], {"{"})

IsZsh(text) ==
    \/ Len(FirstShlexWord(text)) = 1 /\ FirstShlexWord(text)[1] \in ZshWords
    \/ HoldsBraces(text) /\ \E t \in InBraces(text) : IsFlaggedOrModified(t)
    \/ IsArray(text) \/ \E t \in InBraces(text) : IsSubscripted(t)
    \/ IsQualified(text) \/ SetsZshPrompt(text)

IsUnsupported(text) == text # <<>> /\ (IsZsh(text) \/ UnsupportedIn(text, text))
-----------------------------------------------------------------------------
(***************************************************************************)
(* Python in a command line, and the whole of _execute_impl.               *)
(***************************************************************************)
OneStage(stage) == <<[op |-> "end", stages |-> <<stage>>]>>

\* _is_python_block_text, and what stands between its first line and its last.
IsPythonBlock(lines) == Len(lines) > 1 /\ Strip(Head(lines)) = <<Opener>> /\ IsBlockCloser(Last(lines))

BlockBody(lines) == IF Len(lines) = 2 THEN <<>> ELSE Joined(SubSeq(lines, 2, Len(lines) - 1))

\* _is_pipeline_python_block, _run_python_block_pipeline: the block is the last stage, and only
\* the line above it is read.
IsPythonPipeline(lines) == Len(lines) > 1 /\ Strip(Last(lines)) = <<Closer>> /\ EndsInOpener(Stages(Head(lines)))

PythonPipelineRead(lines) ==
    LET first  == CommandPart(Head(lines))
        stages == Stages(Substituted(first))
        reads  == [i \in 1..Len(stages) - 1 |-> PipedStageRead(stages[i])]
    IN  IF IsUnsupported(Strip(first)) \/ <<>> \in ToSet(stages) THEN RefusedLine
        ELSE <<[op |-> "end", stages |-> Pipeline(Append(reads, PythonOf(BlockBody(lines), <<>>)))]>>

\* _run_direct_python: with redirections, the code is the rest of the line.
DirectPythonRead(text) ==
    LET parsed == ParsedRedirections(text)
    IN  CASE \E a \in ToSet(parsed.found) : a.kind \in {"missing", "data"} -> RefusedLine
          [] parsed.found = <<>> \/ ~StartsPython(Strip(parsed.out)) -> OneStage(PythonOf(PythonCode(text), <<>>))
          [] OTHER -> OneStage(PythonOf(PythonCode(Strip(parsed.out)), parsed.found))

SubstitutedRead(line) ==
    CASE StartsPython(line) -> DirectPythonRead(line)
      [] IsBareAssignment(line) -> <<AssignmentRead(line)>>
      [] LoneAmpersand \in ToSet(SplitChain(line)) -> RefusedLine
      [] OTHER -> ChainRead(SelectSeq(SplitChain(line), LAMBDA e : e.text # <<>>))

\* A line that opens a block and is alone is refused.
OpensAlone(text) == Newline \notin ToSet(text) /\ IsBlockOpener(text)

CommandPartRead(text) ==
    IF IsUnsupported(text) \/ OpensAlone(text) THEN RefusedLine ELSE SubstitutedRead(Strip(Substituted(text)))

CollectedRead(collected) ==
    IF collected.failed THEN [elements |-> RefusedLine, bodies |-> <<>>]
    ELSE [elements |-> CommandPartRead(Strip(CommandPart(collected.text))), bodies |-> collected.bodies]

\* join_backslash_continuations: a line that ends in a backslash goes on in the next one,
\* whatever the lines stand for.
Unfolded(text) ==
    LET Take(acc, line) ==
            IF Continues(line) THEN [acc EXCEPT !.carry = Append(@ \o RStrip(Front(RStrip(line))), Space)]
            ELSE [lines |-> Append(acc.lines, acc.carry \o line), carry |-> <<>>]
        all == FoldLeft(Take, [lines |-> <<>>, carry |-> <<>>], Lines(text))
    IN  IF Len(Lines(text)) <= 1 THEN text
        ELSE Joined(IF all.carry = <<>> THEN all.lines ELSE Append(all.lines, RStrip(all.carry)))

\* _execute_impl: what a command line says.
LogicalLineRead(text) ==
    CASE IsPythonBlock(Lines(text)) ->
           [elements |-> OneStage(PythonOf(BlockBody(Lines(text)), <<>>)), bodies |-> <<>>]
      [] IsPythonPipeline(Lines(text)) -> [elements |-> PythonPipelineRead(Lines(text)), bodies |-> <<>>]
      [] OTHER -> CollectedRead(BodiesCollected(text))

CommandRead(text) == LogicalLineRead(Unfolded(text))
=============================================================================
