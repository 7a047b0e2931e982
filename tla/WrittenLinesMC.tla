--------------------------- MODULE WrittenLinesMC ---------------------------
(* Words, and the lines they are put into, for WrittenLines: every way of     *)
(* quoting every character that some scanner looks for, alone and next to     *)
(* every other, in each place where a word can stand.                         *)
EXTENDS WrittenLines

MCSubstituted == {<<"c">>, <<"c", Space, DQuote, ")", DQuote>>}
MCOutput      == [t \in MCSubstituted |-> IF t = <<"c">> THEN <<"o", Space, "?">> ELSE <<"a", "*">>]
MCAliases     == [n \in {<<"ll">>} |-> <<"l", Space, "-", "l">>]
MCLocalVars   == [n \in {<<"A">>, <<"G">>} |-> IF n = <<"A">> THEN <<"x", Space, "y">> ELSE <<"*">>]
MCEnviron     == [n \in {<<"A">>, <<"H">>} |-> <<"h">>]
MCSpecial     == [c \in {"?", "1"} |-> IF c = "?" THEN <<"5">> ELSE <<"p", Space, "q">>]
MCHome        == <<"/", "h">>
MCDirectory   == <<<<".", "d">>, <<"/", "h", "/", "a">>, <<"a">>, <<"a", "2">>>>

----------------------------------------------------------------------------
(* Words.                                                                  *)
BareFragments ==
    {Chars("bare", text) : text \in {<<"a">>, <<"a", "2">>, <<"*">>, <<"?">>, <<".">>, <<"=">>,
                                     <<"a", Hash>>, <<"~">>, <<"~", "/", "a">>}}
    \cup {Var("bare", <<v>>) : v \in {"A", "G", "H", "U", "?", "1"}}
    \cup {Subst("bare", t) : t \in MCSubstituted}

SingleFragments ==
    {Chars("single", <<c>>) : c \in {Space, Hash, Pipe, ">", "*", DQuote, Backslash, "&", "<<", ";", "~"}}
    \cup {Chars("single", <<"if">>), Chars("single", <<"<", "(">>), Chars("single", <<Dollar, "A">>), Chars("single", <<Dollar, "(", "c", ")">>)}

DoubleFragments ==
    {Chars("double", <<c>>) : c \in {Space, Hash, "||", ">>", "?", SQuote, DQuote, Backslash, "<<<", "&&", "~"}}
    \cup {Chars("double", <<Dollar, "A">>), Var("double", <<"A">>), Var("double", <<"G">>)}
    \cup {Subst("double", t) : t \in MCSubstituted}

EscapedFragments ==
    {Chars("escaped", <<c>>) : c \in {Space, Hash, Pipe, ">", "*", DQuote, SQuote, Backslash, Dollar, "~", ";"}}

Fragments == BareFragments \cup SingleFragments \cup DoubleFragments \cup EscapedFragments

\* A pattern with a quoted star or tilde, and a word that ends in an escaped blank or an
\* escaped ">", are not always read as the language says; two stars go into subdirectories.
BareStar(w)   == \E i \in DOMAIN Marked(w) : Marked(w)[i].bare /\ Marked(w)[i].c \in Metacharacters
QuotedSign(w) == \E i \in DOMAIN Marked(w) : ~Marked(w)[i].bare /\ Marked(w)[i].c \in Metacharacters \cup {"~"}
TwoStars(w)   == \E i \in 2..Len(Marked(w)) : \A k \in {i - 1, i} : Marked(w)[k].c = "*"
AsSpecified(w) == ~(BareStar(w) /\ QuotedSign(w)) /\ ~(BareStar(w) /\ TwoStars(w)) /\ Last(w) \notin {Chars("escaped", <<c>>) : c \in {Space, ">"}}

ShortWords == {w \in {<<f>> : f \in Fragments} : AsSpecified(w)}
LongWords  == {w \in {<<f, g>> : f \in Fragments, g \in Fragments} : AsSpecified(w)}

\* A target, a value and a here-string keep the backslash of a quoted dollar and expand a
\* quoted tilde, and blanks of an unquoted value or substitution do not belong to them.
Kept(w) == /\ Marked(w) # <<>>
           /\ \A i \in DOMAIN w : w[i].quote = "double" /\ w[i].is = "chars" => Dollar \notin ToSet(w[i].text)
           /\ \A i \in DOMAIN Marked(w) : Marked(w)[i].c = Space => ~Marked(w)[i].bare
           /\ \A i \in DOMAIN w : w[i].quote = "bare" /\ w[i].is = "subst" => Space \notin ToSet(w[i].text)
           /\ Marked(w)[1].c = "~" => Marked(w)[1].bare

\* An assignment that is the whole line does not know the special parameters.
WithSpecial == {<<Var("bare", <<v>>)>> : v \in {"?", "1"}}

KeptWords == {w \in ShortWords : Kept(w)}

----------------------------------------------------------------------------
(* Lines.                                                                  *)
Call(c) == Word(<<Chars("bare", <<c>>)>>)

Element_(op, stages) == [op |-> op, stages |-> stages]
Single(stage)        == <<Element_("end", <<stage>>)>>

Lines_(elements) == {[elements |-> elements, style |-> style, comment |-> <<>>] : style \in {"wide", "tight"}}

Remark == <<Space, Hash, Space, SQuote, ";", Space, DQuote, ">">>

\* A word in the places where words stand.
WordLines(w) ==
    UNION {Lines_(Single(<<Word(w), Call("c")>>)),
           Lines_(Single(<<Call("c"), Word(w)>>)),
           Lines_(Single(<<Call("ll"), Word(w)>>)),
           Lines_(<<Element_("end", <<<<Call("c"), Word(w)>>, <<Call("d"), Word(w)>>>>)>>),
           Lines_(<<Element_("&&", <<<<Call("c"), Word(w)>>>>), Element_("||", <<<<Call("d")>>, <<Word(w)>>>>),
                    Element_("&", <<<<Word(w)>>>>), Element_("end", <<<<Call("e"), Word(w)>>>>)>>),
           {[elements |-> Single(<<Call("c"), Word(w)>>), style |-> "wide", comment |-> Remark],
            [elements |-> <<Element_("&&", <<<<Call("c"), Word(w)>>>>), Element_("end", <<<<Word(w), Call("d")>>>>)>>,
             style |-> "broken", comment |-> Remark]}}

LongLines(w) ==
    {[elements |-> Single(<<Call("c"), Word(w)>>), style |-> "wide", comment |-> <<>>]}
    \cup {[elements |-> <<Element_("end", <<<<Call("c"), To(">", <<Chars("bare", <<"a">>)>>)>>, <<Word(w)>>>>)>>,
           style |-> "tight", comment |-> Remark] : x \in {y \in {w} : ~IsAssignment(PlainText(Marked(y)))}}

\* And in those where its blanks and dollars are read differently.
KeptLines(w) ==
    UNION {Lines_(Single(<<Call("c"), To(">", w), Call("d")>>)),
           Lines_(Single(<<To("2>>", w), Call("c"), Word(w), To("<", w)>>)),
           Lines_(Single(<<Call("c"), HereString(w), Call("d")>>)),
           Lines_(Single(<<Sets(<<"A">>, w), Call("c"), Word(w)>>)),
           {[elements |-> Single(<<Sets(<<"A">>, v)>>), style |-> "wide", comment |-> <<>>] : v \in {w} \ WithSpecial}}

\* The lines of bodies: what looks like a command, a delimiter or a comment is none, and
\* where the delimiter is quoted a variable is none either.
Bare(text) == <<Chars("bare", text)>>

Bodies       == <<Bare(<<"*">>), Bare(<<"a", Space>>), Bare(<<Tab, "a">>), <<Var("bare", <<"A">>)>>,
                  <<Subst("bare", <<"c">>), Chars("bare", <<"|", "<<", Hash>>)>>, <<>>>>
QuotedBodies == Bodies \o <<Bare(<<DQuote, Backslash, Dollar, "A", ";">>), Bare(<<Tab, Tab, SQuote, "a">>)>>

\* Two operators after another, each redirection with each.
Clauses ==
    {To(op, <<Chars("bare", <<"a">>)>>) : op \in DOMAIN Files} \cup {To(op, <<>>) : op \in DOMAIN Copies}
    \cup {HereDoc("<<", <<Chars("bare", <<"a">>)>>, body, TRUE) : body \in {<<>>, Bodies}}
    \cup {HereDoc("<<-", <<Chars("single", <<"a", ">">>)>>, QuotedBodies, TRUE)}

ClauseLines == UNION {Lines_(Single(<<Call("c"), t, Call("d"), u>>)) : t \in Clauses, u \in Clauses}

DocLines ==
    UNION {Lines_(<<Element_(op, <<<<Call("c"), t>>, <<Call("d"), u, HereString(<<Var("double", <<"A">>)>>)>>>>),
                    Element_("end", <<<<Call("e"), t>>>>)>>) :
               op \in {"&&", "||", ";", "&"}, t \in {x \in Clauses : x.is = "here"}, u \in {x \in Clauses : x.is = "here"}}

\* Python text, in which no sign of the shell means anything but redirections behind it.
Codes  == {<<"a", "=", "2">>, <<SQuote, Hash, ">", Pipe, SQuote>>, <<DQuote, "<<", ";", DQuote, Space, "*", Space, Dollar, "A">>,
           <<"py", Space, "&&", Space, "a">>}
Blocks == {<<>>, <<<<"a">>, <<Space, "*", Hash, SQuote>>>>, <<<<DQuote, ">", "<<", "a">>, <<>>, <<Dollar, "(", "c", ")">>>>}

PythonLines ==
    UNION {Lines_(<<Element_("end", <<<<Call("c")>>, <<Code(text), To(">", <<Chars("bare", <<"a">>)>>)>>>>)>>) :
             text \in {<<"a", "=", "2">>, <<SQuote, Hash, ">", Pipe, SQuote>>}}
    \cup UNION {Lines_(Single(<<Code(text)>>)) : text \in Codes}
    \cup UNION {Lines_(Single(<<Code(text), To(op, <<Chars("bare", <<"a">>)>>)>>)) : text \in Codes, op \in {">", "2>>", "&>"}}
    \cup {[elements |-> <<Element_("end", stages \o <<<<Block(lines)>>>>)>>, style |-> "wide", comment |-> <<>>] :
             stages \in {<<>>} \cup {<<<<Call("ll"), Word(w)>>>> : w \in ShortWords}, lines \in Blocks}

\* Lines with an error in them, before and behind commands without.
Unclosed(c) == Word(<<Chars("bare", <<"a">>), Chars("unclosed", <<Space, c, "a">>)>>)

BrokenStages ==
    {<<<<Call("c")>>, <<>>>>, <<<<>>, <<Call("c")>>>>, <<<<Call("c")>>, <<>>, <<Call("d")>>>>}
    \cup {<<<<Call("c"), To(op, <<>>)>>>> : op \in DOMAIN Files}
    \cup {<<<<Call("c"), To(op, <<>>)>>, <<Call("d")>>>> : op \in DOMAIN Files}

BrokenLines ==
    {[elements |-> <<Element_(op, <<<<Call("e")>>>>), Element_("||", stages), Element_("end", <<<<Call("e")>>>>)>>,
      style |-> "wide", comment |-> <<>>] : op \in {"&&", ";", "&"}, stages \in BrokenStages}
    \cup {[elements |-> <<Element_(";", <<<<Call("c")>>>>), Element_("end", <<<<Call("d"), Unclosed(c)>>>>)>>,
           style |-> "wide", comment |-> <<>>] : c \in {SQuote, Hash, ";", Pipe, ">", "<<", "*"}}
    \cup Lines_(<<Element_("&", <<>>), Element_("end", <<<<Call("c")>>>>)>>)
    \cup Lines_(<<Element_(";", <<<<Call("c")>>>>), Element_("&", <<>>), Element_("end", <<<<Call("c")>>>>)>>)

ForeignLines ==
    UNION {Lines_(Single(<<Word(<<Chars("bare", <<w>>)>>), Call("c")>>)) : w \in ControlWords \cup ZshWords}
    \cup UNION {Lines_(<<Element_(";", <<<<Call("c")>>>>), Element_("end", <<<<Call("d"), Word(<<Chars("bare", sign)>>)>>>>)>>) :
                   sign \in ForeignSigns}
    \cup UNION {Lines_(Single(<<Sets(<<"PS1">>, <<Chars(quote, <<"%", "~">>)>>)>>)) : quote \in {"bare", "single", "double"}}
    \cup Lines_(Single(<<Sets(<<"A">>, <<Chars("bare", <<"(", "a", ")">>)>>)>>))

UnendedLines ==
    Lines_(<<Element_("||", <<<<Call("c")>>>>),
             Element_("end", <<<<Call("d"), HereDoc("<<", <<Chars("bare", <<"a">>)>>, Bodies, FALSE)>>>>)>>)

MCWritten ==
    UNION {WordLines(w) : w \in ShortWords} \cup UNION {KeptLines(w) : w \in KeptWords}
    \cup UNION {LongLines(w) : w \in LongWords} \cup PythonLines
    \cup ClauseLines \cup DocLines \cup BrokenLines \cup ForeignLines \cup UnendedLines

=============================================================================
