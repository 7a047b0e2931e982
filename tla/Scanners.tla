------------------------------ MODULE Scanners ------------------------------
(***************************************************************************)
(* How PySH reads a line of text.  Every scanner of the shell, the editor  *)
(* and the completion walks the text with the same quoting rule; Modes is  *)
(* that rule, and each scanner is what it looks for among the characters   *)
(* the rule leaves bare.                                                   *)
(*                                                                         *)
(* A text is a sequence of characters.  A character is a string; operators *)
(* and reserved words of several letters ("<<", "py {") count as one.      *)
(***************************************************************************)
EXTENDS Integers, Sequences, SequencesExt

Space     == "space"
Newline   == "newline"
DQuote    == "dquote"
SQuote    == "squote"
Backslash == "backslash"
Dollar    == "$"
Hash      == "#"
Pipe      == "|"
Opener    == "py {"
Closer    == "}"

\* What a backslash escapes inside double quotes, of the characters modelled.
Escapable == {DQuote, Backslash, Dollar}

\* Whether the character at i, which ends the text or not, starts a pair with the next one.
Pairs(text, i, mode) ==
    /\ text[i] = Backslash
    /\ i < Len(text)
    /\ mode = "bare" \/ (mode = "double" /\ text[i + 1] \in Escapable)

\* The mode in which the character after text[i] is read, given the mode of text[i].
NextMode(text, i, mode) ==
    CASE mode = "escaped" -> "bare"
      [] mode = "within"  -> "double"
      [] mode = "single"  -> IF text[i] = SQuote THEN "bare" ELSE "single"
      [] Pairs(text, i, mode) -> IF mode = "bare" THEN "escaped" ELSE "within"
      [] mode = "double"  -> IF text[i] = DQuote THEN "bare" ELSE "double"
      [] OTHER -> CASE text[i] = SQuote -> "single"
                    [] text[i] = DQuote -> "double"
                    [] OTHER            -> "bare"

\* Modes(text)[i] is the mode after i characters.
Modes(text) ==
    LET mode[i \in 0..Len(text)] ==
            IF i = 0 THEN "bare"
            ELSE LET before == mode[i - 1] IN NextMode(text, i, before)
    IN  mode

IsBare(text, i) == Modes(text)[i - 1] = "bare"

\* scan_quote_state: a quote is still open at the end of the text.
QuoteOpen(text) == Modes(text)[Len(text)] \in {"single", "double"}

Blank(c) == c \in {Space, Newline}

IsBlank(text) == \A i \in 1..Len(text) : Blank(text[i])

Strip(text) ==
    LET solid == {i \in 1..Len(text) : ~Blank(text[i])}
    IN  IF solid = {} THEN <<>>
        ELSE SubSeq(text, CHOOSE i \in solid : \A j \in solid : i <= j,
                          CHOOSE i \in solid : \A j \in solid : i >= j)

RStrip(text) ==
    LET solid == {i \in 1..Len(text) : ~Blank(text[i])}
    IN  IF solid = {} THEN <<>> ELSE SubSeq(text, 1, CHOOSE i \in solid : \A j \in solid : i >= j)

\* The pieces of a text between its bare characters that are in a set.
Pieces(text, separators) ==
    LET modes == Modes(text)
        Step(pieces, i) ==
            IF modes[i - 1] = "bare" /\ text[i] \in separators THEN Append(pieces, <<>>)
            ELSE [pieces EXCEPT ![Len(pieces)] = Append(@, text[i])]
    IN  FoldLeft(Step, <<<<>>>>, [i \in 1..Len(text) |-> i])

NotEmpty(text) == text # <<>>

Stripped(pieces) == [i \in 1..Len(pieces) |-> Strip(pieces[i])]

\* split_paste_commands: the commands of a pasted text, none of them empty.
PasteCommands(text) == SelectSeq(Stripped(Pieces(text, {Newline})), NotEmpty)

Stages(text) == IF IsBlank(text) THEN <<>> ELSE Stripped(Pieces(text, {Pipe}))

\* A block line's comment starts at any unquoted hash, at the start of a word or not;
\* a backslash hides the next character inside either kind of quote and nowhere else.
WithoutComment(text) ==
    LET Step(acc, i) ==
            CASE acc.skip -> [acc EXCEPT !.skip = FALSE]
              [] acc.cut > 0 -> acc
              [] acc.quote # "" /\ text[i] = Backslash /\ i < Len(text) -> [acc EXCEPT !.skip = TRUE]
              [] acc.quote # "" -> [acc EXCEPT !.quote = IF text[i] = @ THEN "" ELSE @]
              [] text[i] \in {SQuote, DQuote} -> [acc EXCEPT !.quote = text[i]]
              [] text[i] = Hash -> [acc EXCEPT !.cut = i]
              [] OTHER -> acc
        cut == FoldLeft(Step, [quote |-> "", skip |-> FALSE, cut |-> 0],
                        [i \in 1..Len(text) |-> i]).cut
    IN  Strip(IF cut > 0 THEN SubSeq(text, 1, cut - 1) ELSE text)

\* A pipeline whose last stage is the opener.
EndsInOpener(stages) == /\ Len(stages) > 1 /\ Last(stages) = <<Opener>>
                        /\ \A i \in 1..Len(stages) : stages[i] # <<>>

OpensBlock(line) == line = <<Opener>> \/ EndsInOpener(Stages(line))

IsBlockOpener(text) == OpensBlock(WithoutComment(Strip(text)))

IsBlockCloser(text) == WithoutComment(Strip(text)) = <<Closer>>

\* strip_comments: a command's comment starts at a bare hash that begins a word.
CommandPart(text) ==
    LET modes  == Modes(text)
        starts == {i \in 1..Len(text) :
                      /\ modes[i - 1] = "bare" /\ text[i] = Hash
                      /\ i = 1 \/ (modes[i - 2] = "bare" /\ text[i - 1] = Space)}
    IN  IF starts = {} THEN text
        ELSE SubSeq(text, 1, (CHOOSE i \in starts : \A j \in starts : i <= j) - 1)
-----------------------------------------------------------------------------
(***************************************************************************)
(* Quotes taken away.                                                      *)
(***************************************************************************)
\* Whether the character at i is a quote, or a backslash that quotes the next one; inside
\* double quotes it does so before the characters in escapes.
IsQuoting(text, i, mode, escapes) ==
    \/ Pairs(text, i, mode) /\ (mode = "bare" \/ text[i + 1] \in escapes)
    \/ mode = "bare" /\ text[i] \in {SQuote, DQuote}
    \/ mode = "single" /\ text[i] = SQuote
    \/ mode = "double" /\ text[i] = DQuote

\* A word in the making: its characters, whether a bare metacharacter is among them, and
\* whether it began with a bare tilde.
NewWord == [chars |-> <<>>, glob |-> FALSE, tilde |-> FALSE]

Metacharacters == {"*", "?"}

WithCharacter(word, c, bare) ==
    [chars |-> Append(word.chars, c),
     glob  |-> word.glob \/ (bare /\ c \in Metacharacters),
     tilde |-> word.tilde \/ (bare /\ c = "~" /\ word.chars = <<>>)]

\* The words of a text: bare blanks end them, and an empty one is none.
WordsOfUnprotected(text, escapes) ==            \* variant: blanks in double quotes end words
    LET modes == Modes(text)
        Step(words, i) ==
            IF modes[i - 1] \in {"bare", "double"} /\ Blank(text[i]) THEN Append(words, NewWord)
            ELSE IF IsQuoting(text, i, modes[i - 1], escapes) THEN words
            ELSE Append(Front(words), WithCharacter(Last(words), text[i], modes[i - 1] = "bare"))
    IN  SelectSeq(FoldLeft(Step, <<NewWord>>, [i \in 1..Len(text) |-> i]), LAMBDA w : w.chars # <<>>)

WordsOf(text, escapes) ==
    LET modes == Modes(text)
        Step(words, i) ==
            IF modes[i - 1] = "bare" /\ Blank(text[i]) THEN Append(words, NewWord)
            ELSE IF IsQuoting(text, i, modes[i - 1], escapes) THEN words
            ELSE Append(Front(words), WithCharacter(Last(words), text[i], modes[i - 1] = "bare"))
    IN  SelectSeq(FoldLeft(Step, <<NewWord>>, [i \in 1..Len(text) |-> i]), LAMBDA w : w.chars # <<>>)

\* shlex.split, its parts put together again; a text it cannot read stays as it is.
ShlexUnreadable(text) ==
    QuoteOpen(text) \/ (text # <<>> /\ Last(text) = Backslash /\ IsBare(text, Len(text)))

ShlexJoined(text, between) ==
    LET words == WordsOf(text, {DQuote, Backslash})
    IN  IF ShlexUnreadable(text) THEN text
        ELSE FoldLeft(LAMBDA out, w : IF out = <<>> THEN w.chars ELSE out \o between \o w.chars, <<>>, words)

ShlexUnquoted(text) == ShlexJoined(text, <<>>)
-----------------------------------------------------------------------------
(***************************************************************************)
(* Heredocs.                                                               *)
(***************************************************************************)
HeredocOperators == {"<<", "<<-", "<<<"}

\* Where the word after an operator ends: at a bare blank or a bare operator.
WordEnds == HeredocOperators \cup {Space, Pipe, "&", ";", "<", ">", ">>", "&&", "||"}

\* The word behind i - 1 starts here, blanks skipped.
WordStart(text, i) ==
    LET from == {j \in i..Len(text) : text[j] # Space}
    IN  IF from = {} THEN Len(text) + 1 ELSE CHOOSE j \in from : \A k \in from : j <= k

LengthOfWord(rest) ==
    LET modes == Modes(rest)
        ends  == {j \in 1..Len(rest) : modes[j - 1] = "bare" /\ rest[j] \in WordEnds}
    IN  IF ends = {} THEN Len(rest) ELSE (CHOOSE j \in ends : \A k \in ends : j <= k) - 1

WordEnd(text, i) == WordStart(text, i) - 1 + LengthOfWord(SubSeq(text, WordStart(text, i), Len(text)))

WordAt(text, i) == SubSeq(text, WordStart(text, i), WordEnd(text, i))

\* The here-documents and here-strings of a command line; no delimiter is an error.
HeredocSpecs(text) ==
    LET modes == Modes(text)
        At(i) == [operator |-> text[i], word |-> WordAt(text, i + 1),
                  delimiter |-> ShlexUnquoted(WordAt(text, i + 1))]
        Step(specs, i) ==
            IF modes[i - 1] = "bare" /\ text[i] \in HeredocOperators THEN Append(specs, At(i)) ELSE specs
    IN  FoldLeft(Step, <<>>, [i \in 1..Len(text) |-> i])

LacksDelimiter(text) == \E s \in ToSet(HeredocSpecs(text)) : s.delimiter = <<>>

\* The delimiters whose bodies must follow the command line.
PendingDelimiters(text) ==
    LET bodies == SelectSeq(HeredocSpecs(text), LAMBDA s : s.operator # "<<<")
    IN  [i \in 1..Len(bodies) |-> bodies[i].delimiter]

\* A backslash that ends the line outside quotes, itself not escaped.
EndsInBackslash(line) ==
    LET other == {i \in 1..Len(line) : line[i] # Backslash}
        last == IF other = {} THEN 0 ELSE CHOOSE i \in other : \A j \in other : i >= j
    IN  /\ line # <<>> /\ line[Len(line)] = Backslash
        /\ ~QuoteOpen(SubSeq(line, 1, Len(line) - 1))
        /\ (Len(line) - last) % 2 = 1

Continues(text) == EndsInBackslash(RStrip(text))
-----------------------------------------------------------------------------
(***************************************************************************)
(* Logical lines: the commands of a script or of a pasted text.            *)
(***************************************************************************)
\* splitlines: a final newline begins no line.
Lines(text) ==
    LET all == FoldLeft(LAMBDA lines, c : IF c = Newline THEN Append(lines, <<>>)
                                          ELSE [lines EXCEPT ![Len(lines)] = Append(@, c)],
                        <<<<>>>>, text)
    IN  IF Last(all) = <<>> THEN Front(all) ELSE all

Joined(lines) == FoldLeft(LAMBDA text, line : text \o <<Newline>> \o line,
                          Head(lines), Tail(lines))

\* What the reader of logical lines is in the middle of: a block, a quoted string, a
\* line continued by a backslash, or the bodies of here-documents.
Between == [out |-> <<>>, block |-> <<>>, quote |-> <<>>, carry |-> <<>>, doc |-> <<>>,
            delimiters |-> <<>>, failed |-> FALSE]

Yield(acc, lines) == [acc EXCEPT !.out = Append(@, Joined(lines)), !.block = <<>>, !.quote = <<>>,
                                 !.doc = <<>>, !.carry = <<>>]

BlockLine(acc, line) ==
    IF IsBlockOpener(line) THEN [acc EXCEPT !.failed = TRUE]
    ELSE IF IsBlockCloser(line) THEN Yield(acc, Append(acc.block, line))
    ELSE [acc EXCEPT !.block = Append(@, line)]

QuoteLine(acc, line) ==
    IF QuoteOpen(Joined(Append(acc.quote, line))) THEN [acc EXCEPT !.quote = Append(@, line)]
    ELSE Yield(acc, Append(acc.quote, line))

BodyLine(acc, line) ==
    LET left == IF line = Head(acc.delimiters) THEN Tail(acc.delimiters) ELSE acc.delimiters
    IN  IF left = <<>> THEN [Yield(acc, Append(acc.doc, line)) EXCEPT !.delimiters = <<>>]
        ELSE [acc EXCEPT !.doc = Append(@, line), !.delimiters = left]

FirstLine(acc, physical) ==
    LET line == acc.carry \o physical
    IN  CASE IsBlockOpener(line) -> [acc EXCEPT !.block = <<line>>, !.carry = <<>>]
          [] Continues(line) ->
                [acc EXCEPT !.carry = Append(RStrip(Front(RStrip(line))), Space)]
          [] QuoteOpen(line) -> [acc EXCEPT !.quote = <<line>>, !.carry = <<>>]
          [] LacksDelimiter(line) -> [acc EXCEPT !.failed = TRUE]
          [] PendingDelimiters(line) # <<>> ->
                [acc EXCEPT !.doc = <<line>>, !.delimiters = PendingDelimiters(line), !.carry = <<>>]
          [] OTHER -> Yield(acc, <<line>>)

PhysicalLine(acc, line) ==
    CASE acc.failed -> acc
      [] acc.block # <<>> -> BlockLine(acc, line)
      [] acc.quote # <<>> -> QuoteLine(acc, line)
      [] acc.doc # <<>>   -> BodyLine(acc, line)
      [] OTHER -> FirstLine(acc, line)

\* What is left at the end of the text: a block is an error, anything else a last line.
Ended(acc) ==
    IF acc.failed \/ acc.block # <<>> THEN [readable |-> FALSE, lines |-> <<>>]
    ELSE [readable |-> TRUE,
          lines |-> acc.out \o (IF acc.quote # <<>> THEN <<Joined(acc.quote)>>
                                ELSE IF acc.doc # <<>> THEN <<Joined(acc.doc)>>
                                ELSE IF acc.carry # <<>> THEN <<RStrip(acc.carry)>> ELSE <<>>)]

\* The logical lines of a text; a nested or unterminated block, or a here-document without
\* a delimiter, makes the whole text unreadable.
LogicalLines(text) == Ended(FoldLeft(PhysicalLine, Between, Lines(text)))
=============================================================================
