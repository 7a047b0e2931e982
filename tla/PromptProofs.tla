---------------------------- MODULE PromptProofs ----------------------------
(***************************************************************************)
(* Theorems about the prompt, for every history, every set of users and    *)
(* whatever they type: the two lists of Python mode stay one input, the    *)
(* editor's mode says what the shell is doing, and, if no read cuts a      *)
(* paste, a pasted text does not run before an Enter outside its markers.  *)
(*                                                                         *)
(* What a text means - its words, its lines, whether it opens a block or a *)
(* here-document, what TAB makes of it - plays no part in the proofs.      *)
(***************************************************************************)
EXTENDS Prompt, TLAPS, FiniteSetTheorems

PythonLines == (UNION {u.lines : u \in Users})
                   \cup {BlankLine, Code("comment"), Code("simple"), Code("fails")}

\* A record with the fields of a request, and the one the shell keeps of its place.
LineFields == {"history", "completes", "suggests", "catches", "pending", "nav", "inPaste",
               "paste", "searching", "query", "offset", "original", "buf", "cur"}

IsLine(l) == l = [f \in LineFields |-> l[f]]

IsPlace(p) == p = [in |-> p.in, lines |-> p.lines, left |-> p.left, next |-> p.next, of |-> p.of]

EditorShapes ==
    /\ tty \in Seq(STRING) /\ events \in Seq(STRING)
    /\ Reading => IsLine(line) /\ line.searching \in BOOLEAN /\ line.inPaste \in BOOLEAN
                  /\ line.offset \in Nat

PlaceShapes ==
    /\ IsPlace(at)
    /\ pend # NoPaste => pend = Staged(pend[1])
    /\ asked \in BOOLEAN /\ user \in Users

PythonShapes ==
    /\ inPython \in BOOLEAN /\ atPrimary \in BOOLEAN
    /\ unit \in Seq(PythonLines)
    /\ pendingEdit # NoEdit =>
          pendingEdit \in [op : {"insert", "replace"}, line : Int, lines : Seq(PythonLines)]

\* While a line is read there is no answer yet, nothing is queued and Python mode is not on.
ReadAlone == Reading => result = None /\ queue = <<>> /\ ~inPython

\* The line is read for the place where the shell is.
ReadForPlace ==
    Reading =>
        /\ line.catches <=> at.in = "prompt"
        /\ line.history = IF at.in = "prompt" THEN History ELSE <<>>
        /\ at.in = "prompt" /\ pend # NoPaste => line.pending
        /\ line.searching => ~line.pending

\* Nothing is read between the commands of a line, and no answer waits.
WorkAlone == at.in = "prompt" /\ at.next # <<>> => ~Reading /\ result = None

\* Every Enter among the keys stands within the markers of a paste; open says whether the
\* first of the keys does.
Opened(keys, s, i) == keys[s] = PasteStart /\ \A k \in s..i : keys[k] # PasteEnd

Enclosed(keys, open) ==
    \A i \in 1..Len(keys) : keys[i] = Enter =>
        \/ open /\ \A k \in 1..i : keys[k] # PasteEnd
        \/ \E s \in 1..i - 1 : Opened(keys, s, i)

\* What no Enter of the user's has brought: a line, unless a search of the history has.
Unasked ==
    ~asked =>
        /\ queue = <<>>
        /\ Enclosed(tty, FALSE)
        /\ Reading /\ ~line.searching => Enclosed(events, line.inPaste)
        /\ result # None /\ result.end = "line" =>
              /\ at.in = "prompt" /\ pend = NoPaste
              /\ \E i \in 1..Len(History) : result.text = History[i]
        /\ at.next # <<>> =>
              /\ at.in = "prompt" /\ pend = NoPaste
              /\ \E i \in 1..Len(History) : at.of = History[i]

EditorInv == EditorShapes /\ ReadAlone /\ ReadForPlace /\ WorkAlone

ShellInv == PlaceShapes /\ PythonShapes /\ PythonInStep /\ ReaderAtRest

IInv == EditorInv /\ ShellInv

-----------------------------------------------------------------------------
\* The line m is l but for its text, its place in the history, what is pasted and what is
\* searched.
Moved(l, m, searching, inPaste, offset) ==
    /\ IsLine(m)
    /\ m.history = l.history /\ m.catches = l.catches /\ m.pending = l.pending
    /\ m.searching = searching /\ m.inPaste = inPaste /\ m.offset = offset

Kept(l, m) == Moved(l, m, l.searching, l.inPaste, l.offset)

\* Changing the text keeps the rest.
LEMMA SetKeeps ==
    ASSUME NEW l, IsLine(l), NEW b
    PROVE  Kept(l, Set(l, b))
BY DEF IsLine, Set, Kept, Moved, LineFields

\* So does moving through the history.
LEMMA NavKeeps ==
    ASSUME NEW l, IsLine(l), NEW n
    PROVE  Kept(l, [l EXCEPT !.nav = n])
BY DEF IsLine, Kept, Moved, LineFields

\* A line that is asked for has all its fields.
LEMMA RequestIsLine ==
    ASSUME NEW h, NEW f, NEW p, NEW t
    PROVE  IsLine(Request(h, f, p, t))
BY DEF IsLine, Request, LineFields


\* The line goes on being read, for the same place; a search begins if no paste waits.
Carried ==
    /\ result' = result /\ queue' = queue
    /\ IsLine(line')
    /\ line'.history = line.history /\ line'.catches = line.catches /\ line'.pending = line.pending
    /\ line'.searching \in BOOLEAN /\ line'.inPaste \in BOOLEAN /\ line'.offset \in Nat
    /\ line'.searching => line.searching \/ ~line.pending

\* What changes those parts alone carries the line on.
LEMMA MovedIsCarried ==
    ASSUME NEW searching \in BOOLEAN, NEW inPaste \in BOOLEAN, NEW offset \in Nat,
           Moved(line, line', searching, inPaste, offset), UNCHANGED <<result, queue>>,
           searching => line.searching \/ ~line.pending
    PROVE  Carried
BY DEF Moved, Carried

\* A key that leaves the line as it is but for its text.
LEMMA KeptIsCarried ==
    ASSUME EditorShapes, Reading, NEW l, Kept(line, l), Becomes(l)
    PROVE  Carried
BY MovedIsCarried DEF EditorShapes, Kept, Becomes

\* A part of the keys that wait.
LEMMA PartOfKeys ==
    ASSUME NEW keys \in Seq(STRING), NEW n \in 1..Len(keys)
    PROVE  SubSeq(keys, 1, n) \in Seq(STRING) /\ SubSeq(keys, n + 1, Len(keys)) \in Seq(STRING)
OBVIOUS

\* A read takes some of the keys that wait.
LEMMA TakenPart ==
    ASSUME EditorShapes, tty # <<>>
    PROVE  Taken \subseteq 1..Len(tty)
BY DEF EditorShapes, Taken

\* All keys but the first.
LEMMA TailOfKeys ==
    ASSUME NEW keys \in Seq(STRING), keys # <<>>
    PROVE  Tail(keys) \in Seq(STRING)
OBVIOUS

\* UP, DOWN and the query of a search.
LEMMA HistoryKeeps ==
    ASSUME NEW l, IsLine(l)
    PROVE  Kept(l, l) /\ Kept(l, HistoryUp(l)) /\ Kept(l, HistoryDown(l))
<1>1. Kept(l, l)
  BY DEF Kept, Moved
<1>2. ASSUME NEW b, NEW n PROVE Kept(l, [Set(l, b) EXCEPT !.nav = n])
  <2>1. Kept(l, Set(l, b))
    BY SetKeeps
  <2>2. Kept(Set(l, b), [Set(l, b) EXCEPT !.nav = n])
    BY <2>1, NavKeeps DEF Kept, Moved
  <2>3. QED
    BY <2>1, <2>2 DEF Kept, Moved
<1>3. Kept(l, HistoryUp(l))
  BY <1>2, NavKeeps DEF HistoryUp
<1>4. Kept(l, HistoryDown(l))
  BY <1>1, <1>2 DEF HistoryDown
<1>5. QED
  BY <1>1, <1>3, <1>4

\* The steps of a search and of a paste, by what they change.
LEMMA QueryMoves ==
    ASSUME NEW l, IsLine(l), NEW q
    PROVE  Moved(l, Query(l, q), l.searching, l.inPaste, 0)
BY DEF Query, Moved, IsLine, LineFields

\* Ctrl+R again.
LEMMA OffsetMoves ==
    ASSUME NEW l, IsLine(l), NEW n
    PROVE  Moved(l, [l EXCEPT !.offset = n], l.searching, l.inPaste, n)
BY DEF Moved, IsLine, LineFields

\* Ctrl+R.
LEMMA SearchMoves ==
    ASSUME NEW l, IsLine(l)
    PROVE  Moved(l, SearchBegun(l), TRUE, l.inPaste, l.offset)
BY DEF SearchBegun, Moved, IsLine, LineFields

\* A search that is ended.
LEMMA GivenUpMoves ==
    ASSUME NEW l, IsLine(l), NEW b
    PROVE  Moved(l, [Set(l, b) EXCEPT !.searching = FALSE, !.query = <<>>, !.offset = 0, !.original = <<>>],
                 FALSE, l.inPaste, 0)
BY DEF Set, Moved, IsLine, LineFields

\* The start of a paste.
LEMMA PasteStartMoves ==
    ASSUME NEW l, IsLine(l)
    PROVE  Moved(l, [l EXCEPT !.inPaste = TRUE], l.searching, TRUE, l.offset)
BY DEF Moved, IsLine, LineFields

\* A key within a paste.
LEMMA PasteGrows ==
    ASSUME NEW l, IsLine(l), NEW t
    PROVE  Kept(l, [l EXCEPT !.paste = t])
BY DEF Kept, Moved, IsLine, LineFields

\* The end of a short paste.
LEMMA PasteEndMoves ==
    ASSUME NEW l, IsLine(l), NEW b
    PROVE  Moved(l, [Set(l, b) EXCEPT !.inPaste = FALSE, !.paste = <<>>], l.searching, FALSE, l.offset)
BY DEF Set, Moved, IsLine, LineFields

\* The end of one of several lines.
LEMMA LongPasteMoves ==
    ASSUME NEW l, IsLine(l), NEW b
    PROVE  LET m == [Set(l, b) EXCEPT !.inPaste = FALSE, !.paste = <<>>, !.pending = TRUE]
           IN  /\ IsLine(m) /\ m.history = l.history /\ m.catches = l.catches /\ m.pending = TRUE
               /\ m.searching = l.searching /\ m.inPaste = FALSE /\ m.offset = l.offset
BY DEF Set, IsLine, LineFields

\* The matches of a search are entries of the history, finitely many.
LEMMA MatchesCounted ==
    ASSUME NEW l, l.history \in Seq(Seq(STRING))
    PROVE  /\ SearchMatches(l) \subseteq 1..Len(l.history)
           /\ IsFiniteSet(SearchMatches(l)) /\ Cardinality(SearchMatches(l)) \in Nat
           /\ SearchMatches(l) # {} => Cardinality(SearchMatches(l)) > 0
<1>1. SearchMatches(l) \subseteq 1..Len(l.history)
  BY DEF SearchMatches
<1>2. Len(l.history) \in Int /\ 1 \in Int
  OBVIOUS
<1>3. IsFiniteSet(1..Len(l.history))
  BY <1>2, FS_Interval
<1>4. IsFiniteSet(SearchMatches(l))
  BY <1>1, <1>3, FS_Subset
<1>5. Cardinality(SearchMatches(l)) \in Nat
  BY <1>4, FS_CardinalityType
<1>6. SearchMatches(l) # {} => Cardinality(SearchMatches(l)) # 0
  BY <1>4, FS_EmptySet
<1>7. QED
  BY <1>1, <1>4, <1>5, <1>6

\* The position of a match among the matches.
LEMMA Remainder ==
    ASSUME NEW a \in Nat, NEW b \in Nat, b > 0
    PROVE  a % b \in Nat /\ a % b < b
OBVIOUS

\* The history that the editor searches.
LEMMA HistoryRead ==
    ASSUME ReadForPlace, Reading
    PROVE  line.history \in Seq(Seq(STRING))
<1>1. History \in Seq(Seq(STRING))
  BY HistoryAssumption
<1>2. <<>> \in Seq(Seq(STRING))
  OBVIOUS
<1>3. line.history = History \/ line.history = <<>>
  BY DEF ReadForPlace
<1>4. QED
  BY <1>1, <1>2, <1>3

\* What a step of the editor alone does to the line that is read, if it goes on.
LEMMA EditorCarries ==
    ASSUME EditorShapes, ReadForPlace, EditorStep
    PROVE  /\ tty' \in Seq(STRING) /\ events' \in Seq(STRING)
           /\ mode' = mode /\ Reading
           /\ line' = None \/ Carried
<1>types. tty \in Seq(STRING) /\ events \in Seq(STRING)
  BY DEF EditorShapes
<1>line. ASSUME Reading
         PROVE  IsLine(line) /\ line.searching \in BOOLEAN /\ line.inPaste \in BOOLEAN /\ line.offset \in Nat
  BY <1>line DEF EditorShapes
<1>same. ASSUME Reading, UNCHANGED <<line, result, queue>>
         PROVE  Carried
  BY <1>same, <1>line DEF Carried
<1>next. ASSUME NEW l, Becomes(l), events # <<>>
         PROVE  tty' \in Seq(STRING) /\ events' \in Seq(STRING) /\ mode' = mode
  BY <1>next, <1>types, TailOfKeys DEF Becomes
<1>end. ASSUME NEW r, Ends(r)
        PROVE  tty' \in Seq(STRING) /\ events' \in Seq(STRING) /\ mode' = mode /\ line' = None
  BY <1>end, <1>types DEF Ends
<1>kept. ASSUME NEW l, Becomes(l), Reading, events # <<>>, Kept(line, l)
         PROVE  tty' \in Seq(STRING) /\ events' \in Seq(STRING) /\ mode' = mode /\ Carried
  BY <1>kept, <1>next, KeptIsCarried
<1>1. CASE Read
  <2>1. PICK n \in Taken :
           /\ tty' = SubSeq(tty, n + 1, Len(tty))
           /\ \/ UNCHANGED <<events, line, result, queue, mode>>
              \/ line' = None /\ UNCHANGED <<events, mode>>
              \/ events' = SubSeq(tty, 1, n) /\ UNCHANGED <<line, result, queue, mode>>
    BY <1>1 DEF Read
  <2>2. n \in 1..Len(tty) /\ Reading
    BY <1>1, TakenPart DEF Read, Waiting
  <2>3. tty' \in Seq(STRING) /\ SubSeq(tty, 1, n) \in Seq(STRING)
    BY <2>1, <2>2, <1>types, PartOfKeys
  <2>4. QED
    BY <2>1, <2>2, <2>3, <1>types, <1>same
<1>2. CASE ReadInSearch
  <2>1. PICK n \in Taken : events' = SubSeq(tty, 1, n) /\ tty' = SubSeq(tty, n + 1, Len(tty))
    BY <1>2 DEF ReadInSearch
  <2>2. n \in 1..Len(tty) /\ Reading /\ UNCHANGED <<line, result, queue, mode>>
    BY <1>2, TakenPart DEF ReadInSearch, Waiting
  <2>3. QED
    BY <2>1, <2>2, <1>types, <1>same, PartOfKeys
<1>3. CASE Hangup
  BY <1>3, <1>end DEF Hangup, Waiting
<1>4. CASE StartPaste
  <2>1. Reading /\ events # <<>> /\ Becomes([line EXCEPT !.inPaste = TRUE]) /\ ~line.searching
    BY <1>4 DEF StartPaste, Normal, Handling
  <2>2. Carried
    BY <2>1, <1>line, PasteStartMoves, MovedIsCarried DEF Becomes
  <2>3. QED
    BY <2>1, <2>2, <1>next
<1>5. CASE CollectPaste
  <2>1. Reading /\ events # <<>> /\ Becomes([line EXCEPT !.paste = line.paste \o TextOf(<<Head(events)>>)])
    BY <1>5 DEF CollectPaste
  <2>2. QED
    BY <2>1, <1>line, <1>kept, PasteGrows
<1>6. CASE EndShortPaste
  <2>1. PICK b : Becomes([Set(line, b) EXCEPT !.inPaste = FALSE, !.paste = <<>>])
    BY <1>6 DEF EndShortPaste
  <2>2. Reading /\ events # <<>>
    BY <1>6 DEF EndShortPaste, Handling
  <2>3. Carried
    BY <2>1, <2>2, <1>line, PasteEndMoves, MovedIsCarried DEF Becomes
  <2>4. QED
    BY <2>1, <2>2, <2>3, <1>next
<1>7. CASE StrayPasteEnd
  BY <1>7, <1>kept, <1>line, HistoryKeeps DEF StrayPasteEnd, Normal, Handling
<1>8. CASE Submit
  BY <1>8, <1>end DEF Submit, Normal, Handling
<1>9. CASE PressCtrlC
  BY <1>9, <1>end DEF PressCtrlC, Normal, Handling
<1>10. CASE PressCtrlD
  BY <1>10, <1>end, <1>kept, <1>line, HistoryKeeps DEF PressCtrlD, Normal, Handling
<1>11. CASE PressEsc
  BY <1>11, <1>kept, <1>line, HistoryKeeps DEF PressEsc, Normal, Handling
<1>12. CASE EditLine
  BY <1>12, <1>kept, <1>line, SetKeeps DEF EditLine
<1>13. CASE InsertCharacter
  <2>1. Reading /\ events # <<>>
    BY <1>13 DEF InsertCharacter
  <2>2. PICK b : Becomes([Set(line, b) EXCEPT !.nav = 0])
    BY <1>13 DEF InsertCharacter
  <2>3. Kept(line, [Set(line, b) EXCEPT !.nav = 0])
    <3>1. Kept(line, Set(line, b))
      BY <2>1, <1>line, SetKeeps
    <3>2. Kept(Set(line, b), [Set(line, b) EXCEPT !.nav = 0])
      BY <3>1, NavKeeps DEF Kept, Moved
    <3>3. QED
      BY <3>1, <3>2 DEF Kept, Moved
  <2>4. QED
    BY <2>1, <2>2, <2>3, <1>kept
<1>14. CASE PressUp
  BY <1>14, <1>kept, <1>line, HistoryKeeps DEF PressUp, Normal, Handling
<1>15. CASE PressDown
  BY <1>15, <1>kept, <1>line, HistoryKeeps DEF PressDown, Normal, Handling
<1>16. CASE StartSearch
  <2>1. Reading /\ events # <<>>
    BY <1>16 DEF StartSearch, Normal, Handling
  <2>2. CASE line.pending
    BY <1>16, <2>1, <2>2, <1>same, <1>types DEF StartSearch
  <2>3. CASE ~line.pending
    <3>1. Becomes(SearchBegun(line))
      BY <1>16, <2>3 DEF StartSearch
    <3>2. Carried
      BY <2>1, <2>3, <3>1, <1>line, SearchMoves, MovedIsCarried DEF Becomes
    <3>3. QED
      BY <2>1, <3>1, <3>2, <1>next
  <2>4. QED
    BY <2>2, <2>3
<1>17. CASE SearchType \/ SearchErase
  <2>1. Reading /\ events # <<>> /\ line.searching
    BY <1>17 DEF SearchType, SearchErase, Searching, Handling
  <2>2. PICK q : Becomes(Query(line, q))
    BY <1>17 DEF SearchType, SearchErase
  <2>3. Carried
    BY <2>1, <2>2, <1>line, QueryMoves, MovedIsCarried DEF Becomes
  <2>4. QED
    BY <2>1, <2>2, <2>3, <1>next
<1>18. CASE SearchAgain
  <2>1. Reading /\ events # <<>> /\ line.searching
    BY <1>18 DEF SearchAgain, Searching, Handling
  <2>2. CASE SearchMatches(line) = {}
    BY <1>18, <2>1, <2>2, <1>kept, <1>line, HistoryKeeps DEF SearchAgain
  <2>3. CASE SearchMatches(line) # {}
    <3>1. Becomes([line EXCEPT !.offset = (line.offset + 1) % Cardinality(SearchMatches(line))])
      BY <1>18, <2>3 DEF SearchAgain
    <3>2. (line.offset + 1) % Cardinality(SearchMatches(line)) \in Nat
      <4>1. line.history \in Seq(Seq(STRING))
        BY <2>1, HistoryRead
      <4>2. Cardinality(SearchMatches(line)) \in Nat /\ Cardinality(SearchMatches(line)) > 0
        BY <4>1, <2>3, MatchesCounted
      <4>3. line.offset + 1 \in Nat
        BY <2>1, <1>line
      <4>4. QED
        BY <4>2, <4>3, Remainder
    <3>3. Carried
      BY <2>1, <3>1, <3>2, <1>line, OffsetMoves, MovedIsCarried DEF Becomes
    <3>4. QED
      BY <2>1, <3>1, <3>3, <1>next
  <2>4. QED
    BY <2>2, <2>3
<1>19. CASE SearchSubmit \/ SearchEsc
  <2>1. Reading
    BY <1>19 DEF SearchSubmit, SearchEsc, Searching, Handling
  <2>2. CASE SearchGivenUp
    <3>1. PICK b : line' = [Set(line, b) EXCEPT !.searching = FALSE, !.query = <<>>, !.offset = 0, !.original = <<>>]
      BY <2>2 DEF SearchGivenUp
    <3>2. events' = <<>> /\ UNCHANGED <<tty, result, queue, mode>>
      BY <2>2 DEF SearchGivenUp
    <3>3. Carried
      BY <2>1, <3>1, <3>2, <1>line, GivenUpMoves, MovedIsCarried
    <3>4. QED
      BY <2>1, <3>2, <3>3, <1>types
  <2>3. CASE ~SearchGivenUp
    BY <1>19, <2>1, <2>3, <1>end DEF SearchSubmit, SearchEsc
  <2>4. QED
    BY <2>2, <2>3
<1>20. CASE SearchCtrlC
  BY <1>20, <1>end DEF SearchCtrlC, Searching, Handling
<1>21. CASE SearchIgnore
  BY <1>21, <1>kept, <1>line, HistoryKeeps DEF SearchIgnore
<1>22. QED
  BY <1>1, <1>2, <1>3, <1>4, <1>5, <1>6, <1>7, <1>8, <1>9, <1>10, <1>11, <1>12, <1>13, <1>14,
     <1>15, <1>16, <1>17, <1>18, <1>19, <1>20, <1>21 DEF EditorStep
-----------------------------------------------------------------------------
(***************************************************************************)
(* Python mode.                                                            *)
(***************************************************************************)

\* What Python mode takes for a line is one of its lines.
LEMMA LinesTaken ==
    ASSUME PlaceShapes, NEW l \in user.lines
    PROVE  AsCode(l) \in PythonLines /\ Normalised(AsCode(l)) \in PythonLines
<1>1. user \in Users
  BY DEF PlaceShapes
<1>2. l \in PythonLines
  BY <1>1 DEF PythonLines
<1>3. /\ BlankLine \in PythonLines /\ Code("comment") \in PythonLines
      /\ Code("simple") \in PythonLines /\ Code("fails") \in PythonLines
  <2>1. ASSUME NEW A, NEW a, NEW b, NEW c, NEW d
        PROVE  {a, b, c, d} \subseteq A \cup {a, b, c, d}
    OBVIOUS
  <2>2. {BlankLine, Code("comment"), Code("simple"), Code("fails")} \subseteq PythonLines
    BY <2>1 DEF PythonLines
  <2>3. QED
    BY <2>2
<1>4. AsCode(l) \in PythonLines
  BY <1>2, <1>3 DEF AsCode
<1>5. QED
  BY <1>3, <1>4 DEF Normalised

\* Nothing of Python mode changes.
LEMMA PythonIdle ==
    ASSUME PythonShapes, PythonInStep, UNCHANGED pythonVars
    PROVE  PythonShapes' /\ PythonInStep' /\ inPython' = inPython
BY DEF PythonShapes, PythonInStep, pythonVars

\* Python mode ends, or gives up its input.
LEMMA PythonLeaves ==
    ASSUME PythonShapes, PythonInStep, inPython, LeavePython \/ CancelInput
    PROVE  PythonShapes' /\ PythonInStep' /\ (inPython' => inPython)
<1>1. CASE LeavePython
  BY <1>1 DEF PythonShapes, PythonInStep, LeavePython
<1>2. CASE CancelInput
  <2>1. inPython' = inPython /\ atPrimary' = TRUE /\ pending' = <<>> /\ unit' = <<>> /\ pendingEdit' = NoEdit
    BY <1>2 DEF CancelInput, ClearInputBuffer
  <2>2. PythonShapes'
    BY <2>1 DEF PythonShapes
  <2>3. QED
    BY <2>1, <2>2 DEF PythonInStep
<1>3. QED
  BY <1>1, <1>2

\* A new mode begins with nothing typed.
LEMMA PythonBegins ==
    ASSUME EnterPython
    PROVE  PythonShapes' /\ PythonInStep' /\ inPython'
BY DEF PythonShapes, PythonInStep, EnterPython, NewRuntime

\* A line of the text that an edit waits for.
LEMMA EditKeepsStep ==
    ASSUME PythonShapes, PythonInStep, NEW l \in PythonLines, CollectEditLine(l)
    PROVE  PythonShapes' /\ PythonInStep' /\ inPython'
<1>1. inPython /\ pendingEdit # NoEdit /\ UNCHANGED <<inPython, pending, unit>>
  BY DEF CollectEditLine
<1>2. CASE pendingEdit' = NoEdit /\ atPrimary' = TRUE
  BY <1>1, <1>2 DEF PythonShapes, PythonInStep
<1>3. CASE pendingEdit' = [pendingEdit EXCEPT !.lines = Append(pendingEdit.lines, l)]
           /\ UNCHANGED <<source, atPrimary>>
  <2>1. pendingEdit \in [op : {"insert", "replace"}, line : Int, lines : Seq(PythonLines)]
    BY <1>1 DEF PythonShapes
  <2>2. /\ pendingEdit' \in [op : {"insert", "replace"}, line : Int, lines : Seq(PythonLines)]
        /\ pendingEdit'.op = pendingEdit.op /\ pendingEdit'.line = pendingEdit.line
    <3>1. Append(pendingEdit.lines, l) \in Seq(PythonLines)
      BY <2>1
    <3>2. QED
      BY <1>3, <2>1, <3>1
  <2>3. PythonShapes'
    BY <1>1, <1>3, <2>2 DEF PythonShapes
  <2>4. QED
    BY <1>1, <1>3, <2>2, <2>3 DEF PythonInStep
<1>4. QED
  BY <1>1, <1>2, <1>3 DEF CollectEditLine

\* A line for the runtime: the two lists grow together and are emptied together.
LEMMA PushKeepsStep ==
    ASSUME PythonShapes, PythonInStep, NEW l \in PythonLines, Push(l)
    PROVE  PythonShapes' /\ PythonInStep' /\ (inPython' => inPython)
<1>1. /\ inPython /\ pendingEdit = NoEdit /\ UNCHANGED pendingEdit
      /\ unit' = IF Compiled(Append(unit, l)) = "more" THEN Append(unit, l) ELSE <<>>
  BY DEF Push, PushInteractive
<1>2. unit \in Seq(PythonLines) /\ pending = unit
  BY <1>1 DEF PythonShapes, PythonInStep
<1>3. Append(unit, l) \in Seq(PythonLines) /\ Append(unit, l) # <<>>
  BY <1>2
<1>4. Answer(Append(unit, l)) = "more" <=> Compiled(Append(unit, l)) = "more"
  BY DEF Answer, Execution
<1>5. CASE Answer(Append(unit, l)) = "more"
  <2>1. pending' = Append(pending, l) /\ atPrimary' = FALSE /\ inPython' = inPython
    BY <1>5 DEF Push
  <2>2. QED
    BY <1>1, <1>2, <1>3, <1>4, <1>5, <2>1 DEF PythonShapes, PythonInStep
<1>6. CASE Answer(Append(unit, l)) = "exit"
  <2>1. inPython' = FALSE /\ atPrimary' = atPrimary
    BY <1>6 DEF Push
  <2>2. unit' = <<>>
    BY <1>1, <1>4, <1>6
  <2>3. inPython' \in BOOLEAN /\ atPrimary' \in BOOLEAN
    BY <2>1 DEF PythonShapes
  <2>4. PythonShapes'
    BY <1>1, <2>2, <2>3 DEF PythonShapes
  <2>5. QED
    BY <2>1, <2>4 DEF PythonInStep
<1>7. CASE Answer(Append(unit, l)) \notin {"more", "exit"}
  <2>1. pending' = <<>> /\ atPrimary' = TRUE /\ inPython' = inPython
    BY <1>7 DEF Push
  <2>2. unit' = <<>>
    BY <1>1, <1>4, <1>7
  <2>3. PythonShapes'
    BY <1>1, <2>1, <2>2 DEF PythonShapes
  <2>4. PythonInStep'
    BY <1>1, <2>1, <2>2 DEF PythonInStep
  <2>5. QED
    BY <1>1, <2>3, <2>4
<1>8. QED
  BY <1>5, <1>6, <1>7

\* A directive, at the primary prompt, where nothing is being typed.
LEMMA DirectiveKeepsStep ==
    ASSUME PythonShapes, PythonInStep, NEW l, Dispatch(l)
    PROVE  PythonShapes' /\ PythonInStep' /\ (inPython' => inPython)
<1>1. inPython /\ atPrimary /\ pendingEdit = NoEdit /\ pending = <<>> /\ unit = <<>>
  BY DEF Dispatch, ShowsPrimary, PythonInStep
<1>2. ASSUME UNCHANGED <<inPython, atPrimary, pending>>, pendingEdit' = NoEdit, unit' = <<>>
      PROVE  PythonShapes' /\ PythonInStep' /\ (inPython' => inPython)
  BY <1>1, <1>2 DEF PythonShapes, PythonInStep
<1>3. CASE LeavePython
  BY <1>1, <1>3, PythonLeaves
<1>4. CASE HandleOpen(l.arg) \/ HandleSave(l.arg) \/ HandleRun \/ HandleDelete(l.arg)
           \/ HandleClear \/ HandleReset
  BY <1>1, <1>2, <1>4 DEF HandleOpen, HandleSave, HandleRun, HandleDelete, HandleClear, HandleReset,
     ClearInputBuffer, ResetWorkspace
<1>5. CASE HandleInsert(l.arg) \/ HandleReplace(l.arg)
  <2>1. UNCHANGED <<inPython, atPrimary, pending, unit, source>>
    BY <1>5 DEF HandleInsert, HandleReplace
  <2>2. CASE pendingEdit' = NoEdit
    BY <1>1, <1>2, <2>1, <2>2
  <2>3. CASE l.arg \in 1..Len(source) + 1 /\ pendingEdit' = [op |-> "insert", line |-> l.arg, lines |-> <<>>]
    <3>1. PythonShapes'
      BY <2>1, <2>3 DEF PythonShapes
    <3>2. PythonInStep'
      BY <1>1, <2>1, <2>3 DEF PythonInStep
    <3>3. QED
      BY <1>1, <3>1, <3>2
  <2>4. CASE l.arg \in 1..Len(source) /\ pendingEdit' = [op |-> "replace", line |-> l.arg, lines |-> <<>>]
    <3>1. PythonShapes'
      BY <2>1, <2>4 DEF PythonShapes
    <3>2. PythonInStep'
      BY <1>1, <2>1, <2>4 DEF PythonInStep
    <3>3. QED
      BY <1>1, <3>1, <3>2
  <2>5. QED
    BY <1>5, <2>2, <2>3, <2>4 DEF HandleInsert, HandleReplace
<1>6. CASE Prints
  BY <1>6, PythonIdle DEF Prints
<1>7. QED
  BY <1>3, <1>4, <1>5, <1>6 DEF Dispatch, HandleShow, HandleEdit, HandleAppend

\* Python mode goes on in step, or ends.
LEMMA PythonKeepsStep ==
    ASSUME PlaceShapes, PythonShapes, PythonInStep, PythonReads
    PROVE  PythonShapes' /\ PythonInStep' /\ (inPython' => inPython)
<1>1. inPython
  BY DEF PythonReads
<1>2. ASSUME NEW l \in user.lines, PythonLine(l)
      PROVE  PythonShapes' /\ PythonInStep' /\ (inPython' => inPython)
  <2>1. AsCode(l) \in PythonLines /\ Normalised(AsCode(l)) \in PythonLines
    BY LinesTaken
  <2>2. CASE CollectEditLine(AsCode(l))
    BY <1>1, <2>1, <2>2, EditKeepsStep
  <2>3. CASE Dispatch(l)
    BY <2>3, DirectiveKeepsStep
  <2>4. CASE MissingHash(l)
    BY <1>1, <2>4, PythonIdle DEF MissingHash, Prints
  <2>5. CASE Push(Normalised(AsCode(l)))
    BY <2>1, <2>5, PushKeepsStep
  <2>6. QED
    BY <1>2, <2>2, <2>3, <2>4, <2>5 DEF PythonLine
<1>3. CASE PythonEof \/ PythonInterrupt
  BY <1>1, <1>3, PythonLeaves DEF PythonEof, PythonInterrupt
<1>4. QED
  BY <1>2, <1>3 DEF PythonReads
-----------------------------------------------------------------------------
(***************************************************************************)
(* The shell takes an answer.                                              *)
(***************************************************************************)

\* There was no line being read, and there is none.
LEMMA AnswerTaken ==
    ASSUME EditorInv, NEW end, Answered(end)
    PROVE  EditorInv' /\ ~Reading
<1>1. result # None /\ UNCHANGED <<tty, events, line>>
  BY DEF Answered
<1>2. line = None /\ line' = None
  BY <1>1 DEF EditorInv, ReadAlone, Reading
<1>3. result' = None /\ ~Reading'
  BY <1>2 DEF Answered, Reading
<1>4. EditorShapes' /\ ~Reading
  BY <1>1, <1>2, <1>3 DEF EditorInv, EditorShapes, Reading
<1>5. ReadAlone' /\ ReadForPlace' /\ WorkAlone'
  BY <1>3 DEF ReadAlone, ReadForPlace, WorkAlone
<1>6. QED
  BY <1>4, <1>5 DEF EditorInv

\* The shell is at its prompt again, with the same paste staged or with none.
LEMMA BackAtPrompt ==
    ASSUME ShellInv, ~inPython, UNCHANGED <<pythonVars, asked, user>>,
           IsPlace(at'), at'.in = "prompt",
           \/ at.in \in {"prompt", "edit"} /\ UNCHANGED <<pend, mode>>
           \/ pend' = NoPaste /\ mode' = "normal"
    PROVE  ShellInv'
<1>1. PythonShapes' /\ PythonInStep' /\ ~inPython'
  BY PythonIdle DEF ShellInv
<1>2. PlaceShapes'
  BY DEF ShellInv, PlaceShapes
<1>3. ReaderAtRest'
  BY <1>1 DEF ShellInv, ReaderAtRest
<1>4. QED
  BY <1>1, <1>2, <1>3 DEF ShellInv

\* The shell has ended.
LEMMA HasLeft ==
    ASSUME ShellInv, ~inPython, UNCHANGED <<pythonVars, asked, user>>,
           at' = Left, pend' = pend \/ pend' = NoPaste
    PROVE  ShellInv'
<1>1. PythonShapes' /\ PythonInStep' /\ ~inPython'
  BY PythonIdle DEF ShellInv
<1>2. IsPlace(at') /\ at'.in = "left"
  BY DEF Left, Place, IsPlace
<1>3. PlaceShapes'
  BY <1>2 DEF ShellInv, PlaceShapes
<1>4. ReaderAtRest'
  BY <1>1, <1>2 DEF ReaderAtRest
<1>5. QED
  BY <1>1, <1>3, <1>4 DEF ShellInv

\* More lines are wanted at the same place, or a collector begins.
LEMMA GoesOn ==
    ASSUME ShellInv, ~inPython, UNCHANGED <<pythonVars, asked, user, pend>>, IsPlace(at'),
           \/ at'.in = at.in /\ at'.left = at.left /\ mode' = mode
           \/ at'.in = at.in /\ at.in = "heredoc" /\ mode' = mode
           \/ pend = NoPaste /\ at'.in \in {"block", "heredoc"}
              /\ mode' = IF at'.in = "block" THEN "multiline" ELSE "heredoc"
    PROVE  ShellInv'
<1>1. PythonShapes' /\ PythonInStep' /\ ~inPython'
  BY PythonIdle DEF ShellInv
<1>2. PlaceShapes'
  BY DEF ShellInv, PlaceShapes
<1>3. ReaderAtRest'
  BY <1>1 DEF ShellInv, ReaderAtRest
<1>4. QED
  BY <1>1, <1>2, <1>3 DEF ShellInv

\* A place without commands.
LEMMA PlaceIsPlace ==
    ASSUME NEW in, NEW lines, NEW left
    PROVE  LET p == Place(in, lines, left)
           IN  IsPlace(p) /\ p.in = in /\ p.left = left /\ p.next = <<>>
BY DEF IsPlace, Place

\* The prompt is one of the places, and so is that between two commands.
LEMMA PromptIsPlace == IsPlace(AtPrompt) /\ AtPrompt.in = "prompt" /\ AtPrompt.next = <<>>
BY DEF IsPlace, AtPrompt, Place

LEMMA WithinIsPlace ==
    ASSUME NEW next, NEW of
    PROVE  /\ IsPlace(Within(next, of)) /\ Within(next, of).in = "prompt"
           /\ Within(next, of).next = next /\ (next # <<>> => Within(next, of).of = of)
<1>1. CASE next = <<>>
  BY <1>1, PromptIsPlace DEF Within
<1>2. CASE next # <<>>
  BY <1>2 DEF Within, AtPrompt, Place, IsPlace
<1>3. QED
  BY <1>1, <1>2

\* Python mode begins at the prompt, with no paste that waits.
LEMMA PythonBeginsAtRest ==
    ASSUME ShellInv, EnterPython, at.in = "prompt", pend = NoPaste, at' = AtPrompt,
           UNCHANGED <<asked, user, pend, mode>>
    PROVE  ShellInv'
<1>1. PythonShapes' /\ PythonInStep'
  BY PythonBegins
<1>2. PlaceShapes'
  BY PromptIsPlace DEF ShellInv, PlaceShapes
<1>3. ReaderAtRest'
  BY PromptIsPlace DEF ShellInv, ReaderAtRest
<1>4. QED
  BY <1>1, <1>2, <1>3 DEF ShellInv

\* The commands of a line are still to come.
LEMMA EnteredRests ==
    ASSUME ShellInv, ~inPython, UNCHANGED <<pythonVars, asked, user>>, NEW l, NEW text,
           at' = Entered(l, text),
           \/ at.in = "prompt" /\ UNCHANGED <<pend, mode>>
           \/ pend' = NoPaste /\ mode' = "normal"
    PROVE  ShellInv'
<1>1. IsPlace(at') /\ at'.in = "prompt"
  BY WithinIsPlace DEF Entered
<1>2. QED
  BY <1>1, BackAtPrompt

\* A command line, whichever it is.
LEMMA ExecuteRests ==
    ASSUME ShellInv, ~inPython, UNCHANGED <<asked, user>>, at.in = "prompt", NEW text, Execute(text),
           Strip(text) = <<"#py">> => pend = NoPaste
    PROVE  ShellInv'
<1>1. CASE Strip(text) = <<"#py">>
  BY <1>1, PythonBeginsAtRest DEF Execute
<1>2. CASE Strip(text) # <<"#py">>
  BY <1>2, EnteredRests DEF Execute
<1>3. QED
  BY <1>1, <1>2

\* The paste is run or dropped; the shell stays at its prompt.
LEMMA PasteRests ==
    ASSUME ShellInv, ~inPython, UNCHANGED <<pythonVars, asked, user>>, at.in = "prompt",
           PasteRun \/ PasteCancel, IsPlace(at'), at'.in = "prompt"
    PROVE  ShellInv'
BY BackAtPrompt DEF PasteRun, PasteCancel, DropPaste, ClearEditorState

\* It is edited, line by line.
LEMMA PasteEditRests ==
    ASSUME ShellInv, ~inPython, UNCHANGED <<pythonVars, asked, user>>, at.in = "prompt", PasteEdit
    PROVE  ShellInv'
<1>1. UNCHANGED <<pend, mode>>
  BY DEF PasteEdit
<1>2. CASE pend = NoPaste
  BY <1>1, <1>2, BackAtPrompt, WithinIsPlace DEF PasteEdit
<1>3. CASE pend # NoPaste
  <2>1. at' = [at EXCEPT !.in = "edit", !.left = pend[1], !.next = Tail(@)]
    BY <1>3 DEF PasteEdit
  <2>2. IsPlace(at') /\ at'.in = "edit" /\ pend' = Staged(at'.left)
    BY <1>1, <1>3, <2>1 DEF IsPlace, ShellInv, PlaceShapes
  <2>3. PythonShapes' /\ PythonInStep' /\ ~inPython'
    BY PythonIdle DEF ShellInv
  <2>4. PlaceShapes'
    BY <1>1, <2>2 DEF ShellInv, PlaceShapes
  <2>5. ReaderAtRest'
    BY <1>1, <1>3, <2>2, <2>3 DEF ShellInv, ReaderAtRest
  <2>6. QED
    BY <2>3, <2>4, <2>5 DEF ShellInv
<1>4. QED
  BY <1>2, <1>3

\* A command of the line: it runs or is passed over, it ends the shell, it is about the paste.
LEMMA CommandKeeps ==
    ASSUME IInv, RunCommand
    PROVE  IInv'
<1> DEFINE behind == Within(Tail(at.next), at.of)
<1>1. /\ at.in = "prompt" /\ ~inPython /\ ~Reading /\ result = None
      /\ UNCHANGED <<tty, events, line, result, pythonVars, inPython, asked, user>>
  BY DEF RunCommand, typist, pythonVars, IInv, EditorInv, WorkAlone
<1>2. EditorInv'
  <2>1. ~Reading'
    BY <1>1 DEF Reading
  <2>2. EditorShapes'
    BY <1>1, <2>1 DEF IInv, EditorInv, EditorShapes
  <2>3. ReadAlone' /\ ReadForPlace' /\ WorkAlone'
    BY <1>1, <2>1 DEF ReadAlone, ReadForPlace, WorkAlone
  <2>4. QED
    BY <2>2, <2>3 DEF EditorInv
<1>3. ShellInv /\ IsPlace(behind) /\ behind.in = "prompt"
  BY WithinIsPlace DEF IInv
<1>4. CASE at' = behind /\ (UNCHANGED <<pend, mode>> \/ PasteRun \/ PasteCancel)
  BY <1>1, <1>2, <1>3, <1>4, BackAtPrompt, PasteRests DEF IInv
<1>5. CASE PasteEdit
  BY <1>1, <1>2, <1>3, <1>5, PasteEditRests DEF IInv
<1>6. CASE at' = Left /\ UNCHANGED <<queue, mode, pend, ran>>
  BY <1>1, <1>2, <1>3, <1>6, HasLeft DEF IInv
<1>7. QED
  BY <1>4, <1>5, <1>6 DEF RunCommand

\* What is typed is a sequence of keys, the markers of a paste at its ends alone.
LEMMA StrokesTyped ==
    ASSUME PlaceShapes, NEW keys \in user.strokes
    PROVE  /\ keys \in Seq(STRING) /\ keys # <<>>
           /\ \A i \in 1..Len(keys) : keys[i] = PasteStart => i = 1
           /\ keys[1] = PasteStart => \A i \in 1..Len(keys) : keys[i] = PasteEnd <=> i = Len(keys)
BY UsersAssumption DEF PlaceShapes

\* Only the editor is at work, or the user.
LEMMA ShellIdle ==
    ASSUME ShellInv, UNCHANGED <<pythonVars, at, pend, mode, user>>, asked' \in BOOLEAN
    PROVE  ShellInv'
<1>1. PythonShapes' /\ PythonInStep' /\ inPython' = inPython
  BY PythonIdle DEF ShellInv
<1>2. PlaceShapes'
  BY DEF ShellInv, PlaceShapes
<1>3. ReaderAtRest'
  BY <1>1 DEF ShellInv, ReaderAtRest
<1>4. QED
  BY <1>1, <1>2, <1>3 DEF ShellInv

\* A line is asked for, or a queued command is answered at once.
LEMMA AskReads ==
    ASSUME EditorInv, ~inPython, UNCHANGED <<pythonVars, shellVars>>, NEW h, NEW p, NEW i,
           NEW f \in BOOLEAN, f <=> at.in = "prompt", h = IF at.in = "prompt" THEN History ELSE <<>>,
           at.in = "prompt" /\ pend # NoPaste => p,
           BeginRead(Request(h, f, p, i)), at.in = "prompt" => at.next = <<>>
    PROVE  EditorInv' /\ mode' = mode
<1>1. mode' = mode /\ events' = <<>> /\ inPython' = inPython /\ at' = at /\ pend' = pend
  BY DEF BeginRead, pythonVars, shellVars
<1>2. CASE queue # <<>>
  <2>1. tty' = tty /\ line' = None
    BY <1>2 DEF BeginRead
  <2>2. QED
    BY <1>1, <2>1 DEF EditorInv, EditorShapes, ReadAlone, ReadForPlace, WorkAlone, Reading
<1>3. CASE queue = <<>>
  <2>1. tty' = <<>> /\ line' = Request(h, f, p, i) /\ result' = None /\ queue' = <<>>
    BY <1>3 DEF BeginRead
  <2>2. IsLine(line')
    BY <2>1, RequestIsLine
  <2>3. /\ line'.searching = FALSE /\ line'.inPaste = FALSE /\ line'.offset = 0
        /\ line'.catches = f /\ line'.history = h /\ line'.pending = p
    BY <2>1 DEF Request
  <2>4. EditorShapes'
    <3>1. tty' \in Seq(STRING) /\ events' \in Seq(STRING)
      BY <1>1, <2>1
    <3>2. line'.searching \in BOOLEAN /\ line'.inPaste \in BOOLEAN
      BY <2>3
    <3>3. line'.offset \in Nat
      BY <2>3
    <3>4. QED
      BY <2>2, <3>1, <3>2, <3>3 DEF EditorShapes
  <2>5. ReadAlone'
    BY <1>1, <2>1 DEF ReadAlone
  <2>6. ReadForPlace'
    BY <1>1, <2>3 DEF ReadForPlace
  <2>7. QED
    BY <1>1, <2>4, <2>5, <2>6 DEF EditorInv, WorkAlone
<1>4. QED
  BY <1>2, <1>3

\* A place of the shell asks for a line.
LEMMA AskKeeps ==
    ASSUME IInv, AskCommand \/ AskCollector \/ AskEditedLine
    PROVE  IInv'
<1>1. UNCHANGED <<pythonVars, shellVars, asked, user, at, pend>> /\ asked' \in BOOLEAN
  BY DEF AskCommand, AskCollector, AskEditedLine, typist, shellVars, IInv, ShellInv, PlaceShapes
<1>2. ~inPython
  BY DEF AskCommand, AskCollector, AskEditedLine, IInv, ShellInv, ReaderAtRest
<1>3. CASE AskCommand
  <2>1. /\ at.in = "prompt" /\ at.next = <<>>
        /\ BeginRead(Request(History, TRUE, pend # NoPaste, <<>>))
    BY <1>3 DEF AskCommand
  <2>2. EditorInv' /\ mode' = mode
    BY <1>1, <1>2, <2>1, AskReads DEF IInv
  <2>3. QED
    BY <1>1, <2>2, ShellIdle DEF IInv
<1>4. CASE AskCollector \/ AskEditedLine
  <2>1. PICK i : at.in # "prompt" /\ BeginRead(Request(<<>>, FALSE, FALSE, i))
    BY <1>4 DEF AskCollector, AskEditedLine
  <2>2. EditorInv' /\ mode' = mode
    BY <1>1, <1>2, <2>1, AskReads DEF IInv
  <2>3. QED
    BY <1>1, <2>2, ShellIdle DEF IInv
<1>5. QED
  BY <1>3, <1>4

\* The editor at work: the line is carried on, it ends, or a paste of several lines is staged.
LEMMA EditorKeeps ==
    ASSUME IInv, EditorStep, UNCHANGED <<pythonVars, shellVars, typist>>
    PROVE  IInv'
<1>1. /\ tty' \in Seq(STRING) /\ events' \in Seq(STRING) /\ mode' = mode /\ Reading
      /\ line' = None \/ Carried
  BY EditorCarries DEF IInv, EditorInv
<1>2. at' = at /\ pend' = pend /\ user' = user /\ inPython' = inPython /\ asked' \in BOOLEAN
  BY DEF shellVars, typist, pythonVars, IInv, ShellInv, PlaceShapes
<1>3. ShellInv'
  BY <1>1, <1>2, ShellIdle DEF IInv
<1>4. CASE line' = None
  <2>1. ~Reading'
    BY <1>4 DEF Reading
  <2>2. EditorShapes' /\ ReadAlone' /\ ReadForPlace'
    BY <1>1, <2>1 DEF EditorShapes, ReadAlone, ReadForPlace
  <2>3. WorkAlone'
    BY <1>1, <1>2 DEF IInv, EditorInv, WorkAlone
  <2>4. QED
    BY <1>3, <2>2, <2>3 DEF IInv, EditorInv
<1>5. CASE Carried
  <2>1. EditorShapes'
    BY <1>1, <1>5 DEF EditorShapes, Carried
  <2>2. ReadAlone'
    BY <1>1, <1>2, <1>5 DEF IInv, EditorInv, ReadAlone, Carried
  <2>3. ReadForPlace'
    BY <1>1, <1>2, <1>5 DEF IInv, EditorInv, ReadForPlace, Carried
  <2>4. QED
    BY <1>1, <1>2, <1>3, <2>1, <2>2, <2>3 DEF IInv, EditorInv, WorkAlone
<1>6. QED
  BY <1>1, <1>4, <1>5

\* A paste of several lines is put aside.
LEMMA LongPasteKeeps ==
    ASSUME IInv, EndLongPaste, UNCHANGED <<pythonVars, ran, typist>>,
           pend' = IF line.catches THEN Staged(Classified(line.paste).text) ELSE pend,
           at' = IF line.catches /\ ~CanEnter("paste_staged") THEN Crashed ELSE at
    PROVE  IInv'
<1>1. Reading /\ events # <<>> /\ ~line.searching /\ ~inPython
  BY DEF EndLongPaste, Handling, IInv, EditorInv, ReadAlone
<1>2. /\ IsLine(line') /\ line'.history = line.history /\ line'.catches = line.catches
      /\ line'.pending = TRUE /\ line'.searching = line.searching /\ line'.inPaste = FALSE
      /\ line'.offset = line.offset
  <2>1. PICK b : line' = [Set(line, b) EXCEPT !.inPaste = FALSE, !.paste = <<>>, !.pending = TRUE]
    BY DEF EndLongPaste
  <2>2. IsLine(line)
    BY <1>1 DEF IInv, EditorInv, EditorShapes
  <2>3. QED
    BY <2>1, <2>2, LongPasteMoves
<1>3. /\ UNCHANGED <<tty, result, queue>> /\ events' = Tail(events)
      /\ mode' = IF line.catches THEN "paste_staged" ELSE mode
  BY DEF EndLongPaste
<1>4. line.catches <=> at.in = "prompt"
  BY <1>1 DEF IInv, EditorInv, ReadForPlace
<1>5. at' = at
  BY <1>4 DEF CanEnter, IInv, ShellInv, ReaderAtRest
<1>6. inPython' = inPython /\ user' = user /\ asked' = asked
  BY DEF pythonVars, typist
<1>7. EditorInv'
  <2>1. EditorShapes'
    BY <1>1, <1>2, <1>3, TailOfKeys DEF IInv, EditorInv, EditorShapes
  <2>2. ReadAlone'
    BY <1>1, <1>3, <1>6 DEF IInv, EditorInv, ReadAlone
  <2>3. ReadForPlace'
    BY <1>1, <1>2, <1>5 DEF IInv, EditorInv, ReadForPlace
  <2>4. QED
    BY <1>1, <1>5, <2>1, <2>2, <2>3 DEF IInv, EditorInv, WorkAlone
<1>8. PythonShapes' /\ PythonInStep'
  BY PythonIdle DEF IInv, ShellInv
<1>9. PlaceShapes'
  BY <1>5, <1>6 DEF IInv, ShellInv, PlaceShapes, Staged
<1>10. ReaderAtRest'
  BY <1>1, <1>3, <1>4, <1>5, <1>6 DEF IInv, ShellInv, ReaderAtRest, Staged, NoPaste
<1>11. QED
  BY <1>7, <1>8, <1>9, <1>10 DEF IInv, ShellInv

\* Keys come in.
LEMMA TypingKeeps ==
    ASSUME IInv, TypeKeys
    PROVE  IInv'
<1>1. PICK keys \in user.strokes :
         /\ Type(keys)
         /\ asked' = IF keys[1] = PasteStart THEN asked /\ (Enter \in {tty[i] : i \in 1..Len(tty)} \/ at.next # <<>>)
                      ELSE asked \/ Enter \in {keys[i] : i \in 1..Len(keys)}
  BY DEF TypeKeys
<1>2. UNCHANGED <<pythonVars, shellVars, user, inPython, at, pend>>
  BY DEF TypeKeys, pythonVars, shellVars
<1>3. asked' \in BOOLEAN
  <2>1. asked \in BOOLEAN
    BY DEF IInv, ShellInv, PlaceShapes
  <2>2. QED
    BY <1>1, <2>1
<1>4. tty' = tty \o keys /\ UNCHANGED <<events, line, result, queue, mode>>
  BY <1>1 DEF Type
<1>5. tty' \in Seq(STRING)
  <2>1. keys \in Seq(STRING)
    BY StrokesTyped DEF IInv, ShellInv
  <2>2. QED
    BY <1>4, <2>1 DEF IInv, EditorInv, EditorShapes
<1>6. EditorInv'
  BY <1>2, <1>4, <1>5 DEF IInv, EditorInv, EditorShapes, ReadAlone, ReadForPlace, WorkAlone, Reading
<1>7. QED
  BY <1>2, <1>3, <1>4, <1>6, ShellIdle DEF IInv

\* A line of Python mode.
LEMMA PythonKeeps ==
    ASSUME IInv, PythonReads
    PROVE  IInv'
<1>1. inPython /\ UNCHANGED <<editorVars, shellVars, asked, user>>
  BY DEF PythonReads
<1>2. PythonShapes' /\ PythonInStep' /\ (inPython' => inPython)
  BY PythonKeepsStep DEF IInv, ShellInv
<1>3. EditorInv'
  BY <1>1 DEF IInv, EditorInv, EditorShapes, ReadAlone, ReadForPlace, WorkAlone, Reading,
          editorVars, shellVars
<1>4. PlaceShapes'
  BY <1>1 DEF IInv, ShellInv, PlaceShapes, shellVars
<1>5. ReaderAtRest'
  BY <1>1, <1>2 DEF IInv, ShellInv, ReaderAtRest, shellVars, editorVars
<1>6. QED
  BY <1>2, <1>3, <1>4, <1>5 DEF IInv, ShellInv

\* Nothing happens.
LEMMA StutterKeeps ==
    ASSUME IInv, UNCHANGED vars
    PROVE  IInv'
<1>1. UNCHANGED <<pythonVars, inPython, at, pend, asked, user, tty, events, line, result, queue, mode>>
  BY DEF vars, pythonVars, shellVars, typist, editorVars
<1>2. asked' \in BOOLEAN
  BY <1>1 DEF IInv, ShellInv, PlaceShapes
<1>3. EditorInv'
  BY <1>1 DEF IInv, EditorInv, EditorShapes, ReadAlone, ReadForPlace, WorkAlone, Reading
<1>4. QED
  BY <1>1, <1>2, <1>3, ShellIdle DEF IInv

\* The run loop takes an answer at the prompt.
LEMMA AnswersKeep ==
    ASSUME IInv, CommandEof \/ CommandInterrupt \/ DecideOnPaste \/ TakeCommand
    PROVE  IInv'
<1>1. at.in = "prompt" /\ ~inPython /\ UNCHANGED <<asked, user>>
  BY DEF CommandEof, CommandInterrupt, DecideOnPaste, TakeCommand, Answered, typist
<1>2. EditorInv'
  BY AnswerTaken DEF CommandEof, CommandInterrupt, DecideOnPaste, TakeCommand, IInv
<1>3. ShellInv /\ IsPlace(at)
  BY DEF IInv, ShellInv, PlaceShapes
<1>4. ASSUME UNCHANGED <<pythonVars, shellVars, mode>>
      PROVE  ShellInv'
  BY <1>1, <1>3, <1>4, ShellIdle DEF shellVars, ShellInv, PlaceShapes
<1>5. CASE CommandEof
  BY <1>1, <1>2, <1>3, <1>5, HasLeft DEF CommandEof, IInv
<1>6. CASE CommandInterrupt
  <2>1. at' = at /\ pythonVars' = pythonVars
    BY <1>6 DEF CommandInterrupt
  <2>2. UNCHANGED <<pend, mode>> \/ (pend' = NoPaste /\ mode' = "normal")
    BY <1>6 DEF CommandInterrupt, DropPaste, ClearEditorState
  <2>3. QED
    BY <1>1, <1>2, <1>3, <2>1, <2>2, BackAtPrompt DEF IInv
<1>7. CASE DecideOnPaste
  <2>1. CASE PasteRun /\ at' = AtPrompt /\ UNCHANGED pythonVars
    BY <1>1, <1>2, <1>3, <2>1, PromptIsPlace, PasteRests DEF IInv
  <2>2. CASE DropPaste /\ at' = Entered(result.text, result.text) /\ UNCHANGED <<pythonVars, ran>>
    BY <1>1, <1>2, <1>3, <2>2, EnteredRests DEF IInv, DropPaste, ClearEditorState
  <2>3. CASE PendingPasteCommand(result.text) # "refused" /\ Execute(result.text)
    <3>1. Strip(result.text) # <<"#py">>
      BY <2>3 DEF PendingPasteCommand
    <3>2. QED
      BY <1>1, <1>2, <1>3, <2>3, <3>1, ExecuteRests DEF IInv
  <2>4. CASE UNCHANGED <<queue, mode, pythonVars, shellVars>>
    BY <1>2, <1>4, <2>4 DEF IInv
  <2>5. QED
    BY <1>7, <2>1, <2>2, <2>3, <2>4 DEF DecideOnPaste
<1>8. CASE TakeCommand
  <2>1. pend = NoPaste
    BY <1>8 DEF TakeCommand
  <2>2. ASSUME NEW place, IsPlace(place), NEW target,
               <<place.in, target>> \in {<<"block", "multiline">>, <<"heredoc", "heredoc">>},
               Collect(target, place)
        PROVE  ShellInv'
    <3>1. CanEnter(target)
      BY <1>1, <1>3, <2>1 DEF CanEnter, ShellInv, ReaderAtRest
    <3>2. mode' = target /\ at' = place /\ UNCHANGED <<pythonVars, pend>>
      BY <2>2, <3>1 DEF Collect
    <3>3. QED
      BY <1>1, <1>3, <2>1, <2>2, <3>2, GoesOn
  <2>3. ASSUME NEW a, NEW b, NEW c
        PROVE  IsPlace(Place(a, b, c)) /\ Place(a, b, c).in = a
    BY PlaceIsPlace
  <2>4. CASE Collect("multiline", Place("block", <<result.text>>, <<>>))
    BY <1>2, <2>2, <2>3, <2>4 DEF IInv
  <2>5. CASE Collect("heredoc", Place("heredoc", <<result.text>>, PendingDelimiters(result.text)))
    BY <1>2, <2>2, <2>3, <2>5 DEF IInv
  <2>6. CASE at' = Left /\ UNCHANGED <<queue, mode, pythonVars, pend, ran>>
    BY <1>1, <1>2, <1>3, <2>6, HasLeft DEF IInv
  <2>7. CASE Execute(result.text)
    BY <1>1, <1>2, <1>3, <2>1, <2>7, ExecuteRests DEF IInv
  <2>8. CASE UNCHANGED <<queue, mode, pythonVars, shellVars>>
    BY <1>2, <1>4, <2>8 DEF IInv
  <2>9. QED
    BY <1>8, <2>4, <2>5, <2>6, <2>7, <2>8 DEF TakeCommand
<1>9. QED
  BY <1>5, <1>6, <1>7, <1>8

\* A collector takes a line, or is given up.
LEMMA CollectorsKeep ==
    ASSUME IInv, GiveUp \/ CollectBlockLine \/ CollectHeredocLine
    PROVE  IInv'
<1>1. at.in \in {"block", "heredoc"} /\ ~inPython /\ UNCHANGED <<asked, user>>
  BY DEF GiveUp, CollectBlockLine, CollectHeredocLine, Answered, typist
<1>2. EditorInv'
  BY AnswerTaken DEF GiveUp, CollectBlockLine, CollectHeredocLine, IInv
<1>3. ShellInv /\ IsPlace(at) /\ pend = NoPaste
  BY <1>1 DEF IInv, ShellInv, PlaceShapes, ReaderAtRest
<1>4. CASE at' = AtPrompt /\ ClearEditorState /\ UNCHANGED <<queue, pythonVars, pend, ran>>
  BY <1>1, <1>2, <1>3, <1>4, BackAtPrompt, PromptIsPlace DEF IInv, ClearEditorState
<1>5. ASSUME NEW lines, Collected(lines)
      PROVE  IInv'
  BY <1>1, <1>2, <1>3, <1>5, EnteredRests DEF IInv, Collected, ClearEditorState
<1>6. ASSUME NEW lines, NEW left, More([at EXCEPT !.lines = lines, !.left = left]), at.in = "heredoc"
      PROVE  IInv'
  <2>1. IsPlace(at') /\ at'.in = at.in /\ UNCHANGED <<pythonVars, pend, mode>>
    BY <1>3, <1>6 DEF More, IsPlace
  <2>2. QED
    BY <1>1, <1>2, <1>3, <1>6, <2>1, GoesOn DEF IInv
<1>7. ASSUME NEW lines, More([at EXCEPT !.lines = lines])
      PROVE  IInv'
  <2>1. IsPlace(at') /\ at'.in = at.in /\ at'.left = at.left /\ UNCHANGED <<pythonVars, pend, mode>>
    BY <1>3, <1>7 DEF More, IsPlace
  <2>2. QED
    BY <1>1, <1>2, <1>3, <2>1, GoesOn DEF IInv
<1>8. CASE GiveUp
  BY <1>4, <1>8 DEF GiveUp
<1>9. CASE CollectBlockLine
  BY <1>4, <1>5, <1>7, <1>9 DEF CollectBlockLine
<1>10. CASE CollectHeredocLine
  BY <1>5, <1>6, <1>10 DEF CollectHeredocLine
<1>11. QED
  BY <1>8, <1>9, <1>10

\* A line of an edited paste is accepted, or the edit is broken off.
LEMMA EditKeeps ==
    ASSUME IInv, AcceptEditedLine \/ StopEditing
    PROVE  IInv'
<1>1. at.in = "edit" /\ ~inPython /\ UNCHANGED <<asked, user>>
  BY DEF AcceptEditedLine, StopEditing, Answered, typist
<1>2. EditorInv'
  BY AnswerTaken DEF AcceptEditedLine, StopEditing, IInv
<1>3. ShellInv /\ IsPlace(at) /\ pend # NoPaste /\ mode = "paste_staged"
  BY <1>1 DEF IInv, ShellInv, PlaceShapes, ReaderAtRest, Staged, NoPaste
<1>4. CASE StopEditing
  <2>1. IsPlace(at') /\ at'.in = "prompt" /\ UNCHANGED <<pythonVars, pend, mode>>
    BY <1>4, WithinIsPlace DEF StopEditing
  <2>2. QED
    BY <1>1, <1>2, <1>3, <2>1, BackAtPrompt DEF IInv
<1>5. ASSUME NEW lines, More([at EXCEPT !.lines = lines])
      PROVE  IInv'
  <2>1. IsPlace(at') /\ at'.in = at.in /\ at'.left = at.left /\ UNCHANGED <<pythonVars, pend, mode>>
    BY <1>3, <1>5 DEF More, IsPlace
  <2>2. QED
    BY <1>1, <1>2, <1>3, <2>1, GoesOn DEF IInv
<1>6. ASSUME NEW text, pend' = Staged(text), mode' = "paste_staged", at' = Within(at.next, at.of),
             UNCHANGED <<queue, pythonVars, ran>>
      PROVE  IInv'
  <2>1. PythonShapes' /\ PythonInStep' /\ ~inPython'
    BY <1>1, <1>3, <1>6, PythonIdle DEF ShellInv
  <2>2. PlaceShapes'
    BY <1>1, <1>3, <1>6, WithinIsPlace DEF ShellInv, PlaceShapes, Staged
  <2>3. ReaderAtRest'
    BY <1>6, <2>1, WithinIsPlace DEF ReaderAtRest, Staged, NoPaste
  <2>4. QED
    BY <1>2, <2>1, <2>2, <2>3 DEF IInv, ShellInv
<1>7. CASE AcceptEditedLine
  <2>1. CanEnter("paste_staged")
    BY <1>3 DEF CanEnter
  <2>2. QED
    BY <1>5, <1>6, <1>7, <2>1 DEF AcceptEditedLine
<1>8. QED
  BY <1>4, <1>7

\* The invariant holds at the start.
LEMMA InitHolds == Init => IInv
<1> SUFFICES ASSUME Init
             PROVE  IInv
  OBVIOUS
<1>1. /\ tty = <<>> /\ events = <<>> /\ ~Reading /\ mode = "normal"
  BY DEF Init, EditorInit, Reading
<1>2. EditorInv
  BY <1>1, PromptIsPlace DEF Init, EditorInv, EditorShapes, ReadAlone, ReadForPlace, WorkAlone
<1>3. inPython = FALSE /\ atPrimary = TRUE /\ pending = <<>> /\ unit = <<>> /\ pendingEdit = NoEdit
  BY DEF Init, PythonInit
<1>4. PythonShapes
  <2>1. unit \in Seq(PythonLines)
    BY <1>3
  <2>2. inPython \in BOOLEAN /\ atPrimary \in BOOLEAN
    BY <1>3
  <2>3. QED
    BY <1>3, <2>1, <2>2 DEF PythonShapes
<1>5. PythonInStep
  BY <1>3 DEF PythonInStep
<1>6. PlaceShapes
  BY PromptIsPlace DEF Init, PlaceShapes
<1>7. ReaderAtRest
  BY <1>1, <1>3, PromptIsPlace DEF Init, ReaderAtRest
<1>8. QED
  BY <1>2, <1>4, <1>5, <1>6, <1>7 DEF IInv, ShellInv

\* Every step keeps the invariant.
LEMMA StepHolds == IInv /\ [Next]_vars => IInv'
<1> SUFFICES ASSUME IInv, [Next]_vars
             PROVE  IInv'
  OBVIOUS
<1>1. CASE AskCommand \/ AskCollector \/ AskEditedLine
  BY <1>1, AskKeeps
<1>2. CASE EditorWorks
  BY <1>2, EditorKeeps, LongPasteKeeps DEF EditorWorks, shellVars
<1>3. CASE CommandEof \/ CommandInterrupt \/ DecideOnPaste \/ TakeCommand
  BY <1>3, AnswersKeep
<1>10. CASE RunCommand
  BY <1>10, CommandKeeps
<1>4. CASE GiveUp \/ CollectBlockLine \/ CollectHeredocLine
  BY <1>4, CollectorsKeep
<1>5. CASE AcceptEditedLine \/ StopEditing
  BY <1>5, EditKeeps
<1>6. CASE TypeKeys
  BY <1>6, TypingKeeps
<1>7. CASE PythonReads
  BY <1>7, PythonKeeps
<1>8. CASE Quiet \/ UNCHANGED vars
  BY <1>8, StutterKeeps DEF Quiet
<1>9. QED
  BY <1>1, <1>2, <1>3, <1>4, <1>5, <1>6, <1>7, <1>8, <1>10 DEF Next
-----------------------------------------------------------------------------
\* Whatever is typed, in whatever order the terminal gives it: the shape of the state and
\* what the editor, the shell and Python mode know of each other.
THEOREM Invariance == Spec => []IInv
<1>1. IInv /\ UNCHANGED vars => IInv'
  BY StutterKeeps
<1>2. QED
  BY InitHolds, StepHolds, PTL DEF Spec

\* The lines of an unfinished statement are the same in the mode and in its runtime, and
\* an edit that waits is about a line of the buffer.
THEOREM PythonStaysInStep == Spec => []PythonInStep
<1>1. IInv => PythonInStep
  BY DEF IInv, ShellInv
<1>2. QED
  BY <1>1, Invariance, PTL

\* The editor's mode says what the shell is doing, and no change of it is refused.
THEOREM ReaderIsAtRest == Spec => []ReaderAtRest
<1>1. IInv => ReaderAtRest
  BY DEF IInv, ShellInv
<1>2. QED
  BY <1>1, Invariance, PTL
-----------------------------------------------------------------------------
(***************************************************************************)
(* What an Enter brings.                                                   *)
(***************************************************************************)

\* An older match has more newer ones.
LEMMA OlderHasMoreNewer ==
    ASSUME NEW S, NEW n \in Nat, S \subseteq 1..n, NEW i \in S, NEW j \in S, i < j
    PROVE  Newer(S, j) < Newer(S, i)
<1> DEFINE A(k) == {m \in S : m > k}
<1>1. IsFiniteSet(S)
  <2>1. n \in Int /\ 1 \in Int
    OBVIOUS
  <2>2. IsFiniteSet(1..n)
    BY <2>1, FS_Interval
  <2>3. QED
    BY <2>2, FS_Subset
<1>2. IsFiniteSet(A(i)) /\ IsFiniteSet(A(j))
  BY <1>1, FS_Subset
<1>3. A(j) \subseteq A(i) /\ A(j) # A(i)
  <2>1. i \in Int /\ j \in Int /\ \A m \in S : m \in Int
    OBVIOUS
  <2>2. j \in A(i) /\ j \notin A(j)
    BY <2>1
  <2>3. ASSUME NEW m \in S, m > j
        PROVE  m > i
    BY <2>1, <2>3
  <2>4. A(j) \subseteq A(i)
    BY <2>3
  <2>5. QED
    BY <2>2, <2>4
<1>4. Cardinality(A(j)) <= Cardinality(A(i)) /\ (Cardinality(A(i)) = Cardinality(A(j)) => A(i) = A(j))
  BY <1>2, <1>3, FS_Subset
<1>5. Cardinality(A(j)) \in Nat /\ Cardinality(A(i)) \in Nat
  BY <1>2, FS_CardinalityType
<1>6. Cardinality(A(j)) < Cardinality(A(i))
  BY <1>3, <1>4, <1>5
<1>7. QED
  BY <1>6 DEF Newer

\* There is a match behind so many newer ones, as long as there are as many.
LEMMA RankedMatch ==
    ASSUME NEW S, NEW n \in Nat, S \subseteq 1..n, NEW p \in Nat, p < Cardinality(S)
    PROVE  \E i \in S : Newer(S, i) = p
<1> DEFINE T == 0..Cardinality(S) - 1
           f == [i \in S |-> Newer(S, i)]
<1>1. IsFiniteSet(S) /\ Cardinality(S) \in Nat
  <2>1. n \in Int /\ 1 \in Int
    OBVIOUS
  <2>2. IsFiniteSet(1..n)
    BY <2>1, FS_Interval
  <2>3. IsFiniteSet(S)
    BY <2>2, FS_Subset
  <2>4. QED
    BY <2>3, FS_CardinalityType
<1>2. IsFiniteSet(T) /\ Cardinality(T) = Cardinality(S)
  <2>1. 0 \in Int /\ Cardinality(S) - 1 \in Int
    BY <1>1
  <2>2. IsFiniteSet(T) /\ Cardinality(T) = IF 0 > Cardinality(S) - 1 THEN 0 ELSE Cardinality(S) - 1 - 0 + 1
    BY <2>1, FS_Interval
  <2>3. QED
    BY <1>1, <2>2
<1>3. ASSUME NEW i \in S
      PROVE  Newer(S, i) \in T
  <2> DEFINE A == {m \in S : m > i}
  <2>1. A \subseteq S /\ A # S
    <3>1. i \in S /\ i \notin A
      OBVIOUS
    <3>2. QED
      BY <3>1
  <2>2. /\ IsFiniteSet(A) /\ Cardinality(A) <= Cardinality(S)
        /\ Cardinality(S) = Cardinality(A) => S = A
    BY <1>1, <2>1, FS_Subset
  <2>3. Cardinality(A) \in Nat
    BY <2>2, FS_CardinalityType
  <2>4. Cardinality(A) \in T
    BY <1>1, <2>1, <2>2, <2>3
  <2>5. QED
    BY <2>4 DEF Newer
<1>4. f \in [S -> T]
  BY <1>3
<1>5. ASSUME NEW i \in S, NEW j \in S, f[i] = f[j]
      PROVE  i = j
  <2>1. Newer(S, i) = Newer(S, j) /\ Newer(S, i) \in Nat
    BY <1>1, <1>3, <1>5
  <2>2. i \in Int /\ j \in Int
    OBVIOUS
  <2>3. ASSUME NEW a \in S, NEW b \in S, a < b, Newer(S, a) = Newer(S, b), Newer(S, a) \in Nat
        PROVE  FALSE
    <3>1. Newer(S, b) < Newer(S, a)
      BY <2>3, OlderHasMoreNewer
    <3>2. QED
      BY <2>3, <3>1
  <2>4. ~(i < j) /\ ~(j < i)
    BY <2>1, <2>3
  <2>5. QED
    BY <2>2, <2>4
<1>6. f \in Injection(S, T)
  BY <1>4, <1>5 DEF Injection, IsInjective
<1>7. f \in Surjection(S, T)
  BY <1>2, <1>6, FS_Injection
<1>8. p \in T
  BY <1>1
<1>9. PICK i \in S : f[i] = p
  BY <1>7, <1>8 DEF Surjection
<1>10. QED
  BY <1>9

\* What Enter takes from a search is an entry of the history that is searched.
LEMMA FoundInHistory ==
    ASSUME NEW l, l.history \in Seq(Seq(STRING)), l.offset \in Nat, SearchMatches(l) # {}
    PROVE  \E i \in 1..Len(l.history) : Found(l) = l.history[i]
<1> DEFINE matches == SearchMatches(l)
           last    == Cardinality(matches) - 1
           passed  == IF l.offset < last THEN l.offset ELSE last
<1>1. matches \subseteq 1..Len(l.history) /\ Cardinality(matches) \in Nat /\ Cardinality(matches) > 0
  BY MatchesCounted
<1>2. passed \in Nat /\ passed < Cardinality(matches)
  BY <1>1
<1>3. Len(l.history) \in Nat
  OBVIOUS
<1> HIDE DEF matches, passed
<1>4. \E i \in matches : Newer(matches, i) = passed
  BY <1>1, <1>2, <1>3, RankedMatch
<1>5. (CHOOSE i \in matches : Newer(matches, i) = passed) \in matches
  BY <1>4
<1>6. Found(l) = l.history[CHOOSE i \in matches : Newer(matches, i) = passed]
  BY DEF Found, matches, passed
<1>7. QED
  BY <1>1, <1>5, <1>6

\* Keys within a paste go on being within it.
LEMMA EnclosedAnyway ==
    ASSUME NEW keys, NEW open \in BOOLEAN, Enclosed(keys, FALSE)
    PROVE  Enclosed(keys, open)
BY DEF Enclosed

\* The first key alone decides whether the others stand within a paste.
LEMMA EnclosedTail ==
    ASSUME NEW keys \in Seq(STRING), keys # <<>>, NEW open \in BOOLEAN, NEW new \in BOOLEAN,
           Enclosed(keys, open), (Head(keys) = PasteStart \/ open) /\ Head(keys) # PasteEnd => new
    PROVE  Enclosed(Tail(keys), new)
<1>1. Len(Tail(keys)) = Len(keys) - 1 /\ Len(keys) \in Nat /\ Head(keys) = keys[1]
  OBVIOUS
<1>2. \A i \in 1..Len(Tail(keys)) : Tail(keys)[i] = keys[i + 1]
  OBVIOUS
<1>3. SUFFICES ASSUME NEW i \in 1..Len(Tail(keys)), Tail(keys)[i] = Enter
               PROVE  \/ new /\ \A k \in 1..i : Tail(keys)[k] # PasteEnd
                      \/ \E s \in 1..i - 1 : Opened(Tail(keys), s, i)
  BY DEF Enclosed
<1>4. i + 1 \in 1..Len(keys) /\ keys[i + 1] = Enter
  BY <1>1, <1>2, <1>3
<1>5. CASE open /\ \A k \in 1..i + 1 : keys[k] # PasteEnd
  <2>1. new
    BY <1>1, <1>5
  <2>2. \A k \in 1..i : Tail(keys)[k] # PasteEnd
    BY <1>1, <1>2, <1>5
  <2>3. QED
    BY <2>1, <2>2
<1>6. CASE \E s \in 1..i : Opened(keys, s, i + 1)
  <2>1. PICK s \in 1..i : keys[s] = PasteStart /\ \A k \in s..i + 1 : keys[k] # PasteEnd
    BY <1>6 DEF Opened
  <2>2. CASE s = 1
    <3>1. new
      BY <1>1, <2>1, <2>2 DEF PasteStart, PasteEnd
    <3>2. \A k \in 1..i : Tail(keys)[k] # PasteEnd
      BY <1>1, <1>2, <2>1, <2>2
    <3>3. QED
      BY <3>1, <3>2
  <2>3. CASE s > 1
    <3>1. s - 1 \in 1..i - 1
      BY <2>3
    <3>2. Tail(keys)[s - 1] = PasteStart
      BY <1>1, <1>2, <2>1, <3>1
    <3>3. \A k \in s - 1..i : Tail(keys)[k] # PasteEnd
      BY <1>1, <1>2, <2>1, <2>3
    <3>4. QED
      BY <3>1, <3>2, <3>3 DEF Opened
  <2>4. QED
    BY <2>2, <2>3
<1>7. QED
  BY <1>4, <1>5, <1>6 DEF Enclosed

\* The first key outside a paste is no Enter.
LEMMA EnclosedHead ==
    ASSUME NEW keys \in Seq(STRING), keys # <<>>, Enclosed(keys, FALSE)
    PROVE  Head(keys) # Enter
<1>1. 1 \in 1..Len(keys) /\ Head(keys) = keys[1]
  OBVIOUS
<1>2. ~ \E s \in 1..1 - 1 : Opened(keys, s, 1)
  OBVIOUS
<1>3. QED
  BY <1>1, <1>2 DEF Enclosed

\* A stroke is added: it has no Enter, or it is a paste between its markers.
LEMMA EnclosedAppend ==
    ASSUME NEW keys \in Seq(STRING), NEW stroke \in Seq(STRING), Enclosed(keys, FALSE),
           \/ \A i \in 1..Len(stroke) : stroke[i] # Enter
           \/ stroke # <<>> /\ stroke[1] = PasteStart
              /\ \A i \in 1..Len(stroke) : stroke[i] = PasteEnd <=> i = Len(stroke)
    PROVE  Enclosed(keys \o stroke, FALSE)
<1> DEFINE n == Len(keys)
           all == keys \o stroke
<1>1. n \in Nat /\ Len(stroke) \in Nat /\ Len(all) = n + Len(stroke)
  OBVIOUS
<1>2. /\ \A i \in 1..n : all[i] = keys[i]
      /\ \A i \in n + 1..n + Len(stroke) : all[i] = stroke[i - n]
  OBVIOUS
<1> HIDE DEF n, all
<1>3. SUFFICES ASSUME NEW i \in 1..Len(all), all[i] = Enter
               PROVE  \E s \in 1..i - 1 : Opened(all, s, i)
  BY DEF Enclosed, all
<1>4. CASE i \in 1..n
  <2>1. keys[i] = Enter
    BY <1>2, <1>3, <1>4
  <2>2. PICK s \in 1..i - 1 : keys[s] = PasteStart /\ \A k \in s..i : keys[k] # PasteEnd
    BY <1>4, <2>1 DEF Enclosed, Opened, n
  <2>3. all[s] = PasteStart /\ \A k \in s..i : all[k] # PasteEnd
    BY <1>1, <1>2, <1>4, <2>2
  <2>4. QED
    BY <2>3 DEF Opened
<1>5. CASE i \in n + 1..n + Len(stroke)
  <2>1. i - n \in 1..Len(stroke) /\ stroke[i - n] = Enter
    BY <1>1, <1>2, <1>3, <1>5
  <2>2. stroke[1] = PasteStart /\ \A k \in 1..Len(stroke) : stroke[k] = PasteEnd <=> k = Len(stroke)
    BY <2>1
  <2>3. i - n # 1 /\ i - n # Len(stroke)
    BY <2>1, <2>2 DEF Enter, PasteStart, PasteEnd
  <2>4. n + 1 \in 1..i - 1 /\ all[n + 1] = PasteStart
    BY <1>1, <1>2, <2>1, <2>2, <2>3
  <2>5. \A k \in n + 1..i : all[k] # PasteEnd
    <3>1. TAKE k \in n + 1..i
    <3>2. k - n \in 1..Len(stroke) /\ k - n # Len(stroke) /\ all[k] = stroke[k - n]
      BY <1>1, <1>2, <2>1, <2>3
    <3>3. QED
      BY <2>2, <3>2
  <2>6. QED
    BY <2>4, <2>5 DEF Opened
<1>6. QED
  BY <1>1, <1>3, <1>4, <1>5

\* Keys without an Enter are enclosed, and keys that are a plain paste are not.
LEMMA EnclosedKinds ==
    ASSUME NEW keys \in Seq(STRING)
    PROVE  /\ (\A i \in 1..Len(keys) : keys[i] # Enter) => Enclosed(keys, FALSE)
           /\ IsPlainPaste(keys) => ~Enclosed(keys, FALSE)
<1>1. (\A i \in 1..Len(keys) : keys[i] # Enter) => Enclosed(keys, FALSE)
  BY DEF Enclosed
<1>2. ASSUME IsPlainPaste(keys), Enclosed(keys, FALSE)
      PROVE  FALSE
  <2>1. PICK i \in 1..Len(keys) : keys[i] = Enter
    BY <1>2 DEF IsPlainPaste
  <2>2. PICK s \in 1..i - 1 : keys[s] = PasteStart
    BY <1>2, <2>1 DEF Enclosed, Opened
  <2>3. s \in 1..Len(keys)
    OBVIOUS
  <2>4. QED
    BY <1>2, <2>2, <2>3 DEF IsPlainPaste, IsPrintable, SpecialKeys, Enter, PasteStart
<1>3. QED
  BY <1>1, <1>2

\* The editor brings no line but an entry of the history, and hides no Enter from the user's
\* keys.
LEMMA EditorUnasked ==
    ASSUME WholePastes, IInv, Unasked, ~asked, EditorStep, UNCHANGED <<at, pend, asked>>
    PROVE  Unasked'
<1>reading. Reading
  BY EditorCarries DEF IInv, EditorInv
<1>none. at'.next = <<>>
  BY <1>reading DEF Unasked, IInv, EditorInv, WorkAlone
<1>types. /\ tty \in Seq(STRING) /\ events \in Seq(STRING) /\ IsLine(line)
          /\ line.inPaste \in BOOLEAN /\ line.searching \in BOOLEAN /\ line.offset \in Nat
  BY <1>reading DEF IInv, EditorInv, EditorShapes
<1>pre. /\ queue = <<>> /\ result = None /\ Enclosed(tty, FALSE)
        /\ ~line.searching => Enclosed(events, line.inPaste)
  BY <1>reading DEF IInv, EditorInv, ReadAlone, Unasked
<1>end. ASSUME NEW r, Ends(r), UNCHANGED queue,
               r.end = "line" => at.in = "prompt" /\ pend = NoPaste
                                 /\ \E i \in 1..Len(History) : r.text = History[i]
        PROVE  Unasked'
  BY <1>end, <1>pre, <1>none DEF Ends, Unasked, Reading
<1>drop. ASSUME events' = <<>>, UNCHANGED <<tty, result, queue>>
         PROVE  Unasked'
  <2>1. \A open : Enclosed(<<>>, open)
    BY DEF Enclosed
  <2>2. QED
    BY <1>drop, <1>pre, <1>none, <2>1 DEF Unasked
<1>search. ASSUME line'.searching = TRUE, UNCHANGED <<tty, result, queue>>
           PROVE  Unasked'
  BY <1>search, <1>pre, <1>none DEF Unasked
<1>key. ASSUME NEW l, Becomes(l), events # <<>>, ~line.searching, l.inPaste \in BOOLEAN,
               (Head(events) = PasteStart \/ line.inPaste) /\ Head(events) # PasteEnd => l.inPaste
        PROVE  Unasked'
  <2>1. line' = l /\ events' = Tail(events) /\ UNCHANGED <<tty, result, queue>>
    BY <1>key DEF Becomes
  <2>2. Enclosed(Tail(events), l.inPaste)
    BY <1>key, <1>types, <1>pre, EnclosedTail
  <2>3. QED
    BY <1>pre, <1>none, <2>1, <2>2 DEF Unasked
<1>kept. ASSUME NEW l, Becomes(l), events # <<>>, ~line.searching, ~line.inPaste, Kept(line, l),
                Head(events) # PasteStart
         PROVE  Unasked'
  BY <1>kept, <1>key, <1>types DEF Kept, Moved
<1>on. ASSUME NEW l, Becomes(l), line.searching, l.searching = line.searching
       PROVE  Unasked'
  BY <1>on, <1>search, <1>types DEF Becomes
<1>1. CASE Read
  <2>1. PICK n \in Taken :
           /\ tty' = SubSeq(tty, n + 1, Len(tty))
           /\ IF IsPlainPaste(SubSeq(tty, 1, n)) THEN TRUE
              ELSE events' = SubSeq(tty, 1, n) /\ UNCHANGED <<line, result, queue, mode>>
    BY <1>1 DEF Read
  <2>2. n = Len(tty) /\ SubSeq(tty, 1, n) = tty /\ SubSeq(tty, n + 1, Len(tty)) = <<>>
    BY <1>types, <2>1 DEF Taken
  <2>3. ~IsPlainPaste(tty)
    BY <1>types, <1>pre, EnclosedKinds
  <2>4. events' = tty /\ tty' = <<>> /\ UNCHANGED <<line, result, queue>>
    BY <2>1, <2>2, <2>3
  <2>5. Enclosed(tty, line.inPaste) /\ Enclosed(<<>>, FALSE)
    BY <1>types, <1>pre, EnclosedAnyway DEF Enclosed
  <2>6. QED
    BY <1>pre, <1>none, <2>4, <2>5 DEF Unasked
<1>2. CASE ReadInSearch
  <2>1. PICK n \in Taken : tty' = SubSeq(tty, n + 1, Len(tty))
    BY <1>2 DEF ReadInSearch
  <2>2. tty' = <<>>
    BY <1>types, <2>1 DEF Taken
  <2>3. Enclosed(<<>>, FALSE)
    BY DEF Enclosed
  <2>4. line.searching /\ UNCHANGED <<line, result, queue>>
    BY <1>2 DEF ReadInSearch
  <2>5. QED
    BY <1>pre, <1>none, <2>2, <2>3, <2>4 DEF Unasked
<1>3. CASE Hangup
  BY <1>3, <1>end DEF Hangup, EndOfFile
<1>4. CASE StartPaste
  <2>1. Becomes([line EXCEPT !.inPaste = TRUE]) /\ events # <<>> /\ ~line.searching
    BY <1>4 DEF StartPaste, Normal, Handling
  <2>2. [line EXCEPT !.inPaste = TRUE].inPaste = TRUE
    BY <1>types, PasteStartMoves DEF Moved
  <2>3. QED
    BY <1>key, <2>1, <2>2
<1>5. CASE CollectPaste
  <2>1. PICK t : Becomes([line EXCEPT !.paste = t])
    BY <1>5 DEF CollectPaste
  <2>2. events # <<>> /\ ~line.searching /\ line.inPaste
    BY <1>5 DEF CollectPaste
  <2>3. [line EXCEPT !.paste = t].inPaste = line.inPaste
    BY <1>types, PasteGrows DEF Kept, Moved
  <2>4. QED
    BY <1>key, <1>types, <2>1, <2>2, <2>3
<1>6. CASE EndShortPaste
  <2>1. PICK b : Becomes([Set(line, b) EXCEPT !.inPaste = FALSE, !.paste = <<>>])
    BY <1>6 DEF EndShortPaste
  <2>2. events # <<>> /\ ~line.searching /\ Head(events) = PasteEnd
    BY <1>6 DEF EndShortPaste, Handling
  <2>3. [Set(line, b) EXCEPT !.inPaste = FALSE, !.paste = <<>>].inPaste = FALSE
    BY <1>types, PasteEndMoves DEF Moved
  <2>4. QED
    BY <1>key, <2>1, <2>2, <2>3
<1>7. CASE StrayPasteEnd
  BY <1>7, <1>kept, <1>types, HistoryKeeps DEF StrayPasteEnd, Normal, Handling, PasteEnd, PasteStart
<1>8. CASE Submit
  <2>1. events # <<>> /\ ~line.searching /\ line.inPaste = FALSE /\ Head(events) = Enter
    BY <1>8, <1>types DEF Submit, Normal, Handling
  <2>2. QED
    BY <1>types, <1>pre, <2>1, EnclosedHead
<1>9. CASE PressCtrlC
  BY <1>9, <1>end DEF PressCtrlC, Interrupted
<1>10. CASE PressCtrlD
  <2>1. events # <<>> /\ ~line.searching /\ ~line.inPaste /\ Head(events) # PasteStart
    BY <1>10 DEF PressCtrlD, Normal, Handling, PasteStart
  <2>2. (Ends(EndOfFile) /\ UNCHANGED queue) \/ Becomes(line)
    BY <1>10 DEF PressCtrlD
  <2>3. QED
    BY <2>1, <2>2, <1>end, <1>kept, <1>types, HistoryKeeps DEF EndOfFile
<1>11. CASE PressEsc
  BY <1>11, <1>kept, <1>types, HistoryKeeps DEF PressEsc, Normal, Handling, PasteStart
<1>12. CASE EditLine
  BY <1>12, <1>kept, <1>types, SetKeeps DEF EditLine, EditingKeys, PasteStart
<1>13. CASE InsertCharacter
  <2>1. events # <<>> /\ ~line.searching /\ ~line.inPaste /\ Head(events) # PasteStart
    BY <1>13 DEF InsertCharacter, IsPrintable, SpecialKeys
  <2>2. PICK b : Becomes([Set(line, b) EXCEPT !.nav = 0])
    BY <1>13 DEF InsertCharacter
  <2>3. Kept(line, [Set(line, b) EXCEPT !.nav = 0])
    <3>1. Kept(line, Set(line, b))
      BY <1>types, SetKeeps
    <3>2. Kept(Set(line, b), [Set(line, b) EXCEPT !.nav = 0])
      BY <3>1, NavKeeps DEF Kept, Moved
    <3>3. QED
      BY <3>1, <3>2 DEF Kept, Moved
  <2>4. QED
    BY <2>1, <2>2, <2>3, <1>kept
<1>14. CASE PressUp \/ PressDown
  BY <1>14, <1>kept, <1>types, HistoryKeeps DEF PressUp, PressDown, Normal, Handling, PasteStart
<1>15. CASE StartSearch
  <2>1. CASE line.pending
    BY <1>15, <2>1, <1>drop DEF StartSearch
  <2>2. CASE ~line.pending
    <3>1. line' = SearchBegun(line) /\ UNCHANGED <<tty, result, queue>>
      BY <1>15, <2>2 DEF StartSearch, Becomes
    <3>2. line'.searching = TRUE
      BY <3>1, <1>types, SearchMoves DEF Moved
    <3>3. QED
      BY <3>1, <3>2, <1>search
  <2>3. QED
    BY <2>1, <2>2
<1>16. CASE SearchType \/ SearchErase
  <2>1. PICK q : Becomes(Query(line, q))
    BY <1>16 DEF SearchType, SearchErase
  <2>2. line.searching
    BY <1>16 DEF SearchType, SearchErase, Searching
  <2>3. Query(line, q).searching = line.searching
    BY <1>types, QueryMoves DEF Moved
  <2>4. QED
    BY <2>1, <2>2, <2>3, <1>on
<1>17. CASE SearchAgain
  <2>1. line.searching
    BY <1>17 DEF SearchAgain, Searching
  <2>2. Becomes(line) \/ \E n : Becomes([line EXCEPT !.offset = n])
    BY <1>17 DEF SearchAgain
  <2>3. \A n : [line EXCEPT !.offset = n].searching = line.searching
    BY <1>types, OffsetMoves DEF Moved
  <2>4. QED
    BY <2>1, <2>2, <2>3, <1>on
<1>18. CASE SearchSubmit
  <2>1. CASE SearchMatches(line) = {}
    BY <1>18, <2>1, <1>drop DEF SearchSubmit, SearchGivenUp
  <2>2. CASE SearchMatches(line) # {}
    <3>1. line.searching /\ Ends(LineResult(Found(line))) /\ UNCHANGED queue
      BY <1>18, <2>2 DEF SearchSubmit, Searching
    <3>2. line.history \in Seq(Seq(STRING))
      BY <1>reading, HistoryRead DEF IInv, EditorInv
    <3>3. PICK i \in 1..Len(line.history) : Found(line) = line.history[i]
      BY <1>types, <2>2, <3>2, FoundInHistory
    <3>4. ~line.pending
      BY <1>reading, <3>1 DEF IInv, EditorInv, ReadForPlace
    <3>5. at.in = "prompt" /\ line.history = History
      <4>1. line.history # <<>>
        BY <3>2, <3>3
      <4>2. QED
        BY <1>reading, <4>1 DEF IInv, EditorInv, ReadForPlace
    <3>6. pend = NoPaste
      BY <1>reading, <3>4, <3>5 DEF IInv, EditorInv, ReadForPlace
    <3>7. LineResult(Found(line)).text = Found(line)
      BY DEF LineResult
    <3>8. QED
      BY <1>end, <3>1, <3>3, <3>5, <3>6, <3>7
  <2>3. QED
    BY <2>1, <2>2
<1>19. CASE SearchCtrlC
  BY <1>19, <1>end DEF SearchCtrlC, Interrupted
<1>20. CASE SearchEsc
  BY <1>20, <1>drop DEF SearchEsc, SearchGivenUp
<1>21. CASE SearchIgnore
  BY <1>21, <1>on DEF SearchIgnore
<1>22. QED
  BY <1>1, <1>2, <1>3, <1>4, <1>5, <1>6, <1>7, <1>8, <1>9, <1>10, <1>11, <1>12, <1>13, <1>14,
     <1>15, <1>16, <1>17, <1>18, <1>19, <1>20, <1>21 DEF EditorStep

\* A paste of several lines asks for nothing.
LEMMA LongPasteUnasked ==
    ASSUME IInv, Unasked, ~asked, EndLongPaste, at' \in {at, Crashed}
    PROVE  Unasked'
<1>1. /\ events # <<>> /\ Head(events) = PasteEnd /\ ~line.searching /\ Reading
      /\ events' = Tail(events) /\ UNCHANGED <<tty, result, queue>>
  BY DEF EndLongPaste, Handling
<1>2. /\ result = None /\ queue = <<>> /\ Enclosed(tty, FALSE) /\ Enclosed(events, line.inPaste)
      /\ events \in Seq(STRING) /\ line.inPaste \in BOOLEAN
  BY <1>1 DEF IInv, EditorInv, EditorShapes, ReadAlone, Unasked
<1>3. line'.inPaste = FALSE
  <2>1. PICK b : line' = [Set(line, b) EXCEPT !.inPaste = FALSE, !.paste = <<>>, !.pending = TRUE]
    BY DEF EndLongPaste
  <2>2. IsLine(line)
    BY <1>1 DEF IInv, EditorInv, EditorShapes
  <2>3. QED
    BY <2>1, <2>2, LongPasteMoves
<1>4. Enclosed(Tail(events), FALSE)
  BY <1>1, <1>2, EnclosedTail
<1>5. at'.next = <<>>
  BY <1>1, PlaceIsPlace DEF Crashed, Unasked, IInv, EditorInv, WorkAlone
<1>6. QED
  BY <1>1, <1>2, <1>3, <1>4, <1>5 DEF Unasked

\* A line is asked for: nothing waits to be answered at once.
LEMMA AskUnasked ==
    ASSUME Unasked, ~asked, NEW r, BeginRead(r), UNCHANGED <<at, pend>>
    PROVE  Unasked'
<1>1. result = None /\ queue = <<>>
  BY DEF BeginRead, Unasked
<1>2. tty' = <<>> /\ events' = <<>> /\ result' = None /\ queue' = <<>>
  BY <1>1 DEF BeginRead
<1>3. \A open : Enclosed(<<>>, open)
  BY DEF Enclosed
<1>4. QED
  BY <1>2, <1>3 DEF Unasked

\* An answer is taken: it brings no other, and reads nothing.
LEMMA AnswerUnasked ==
    ASSUME IInv, Unasked, ~asked, NEW end, Answered(end), queue' \in {queue, <<>>},
           \/ at'.next = <<>>
           \/ at' = at /\ pend' \in {pend, NoPaste}
           \/ end = "line" /\ at'.in = "prompt" /\ at'.of = result.text /\ UNCHANGED pend
    PROVE  Unasked'
<1>1. result' = None /\ UNCHANGED <<tty, events, line>> /\ ~Reading
  BY AnswerTaken DEF Answered, IInv
<1>2. queue' = <<>>
  BY DEF Unasked
<1>3. at'.next # <<>> => /\ at'.in = "prompt" /\ pend' = NoPaste
                         /\ \E i \in 1..Len(History) : at'.of = History[i]
  BY DEF Unasked, Answered
<1>4. QED
  BY <1>1, <1>2, <1>3 DEF Unasked, Reading

\* What is typed without an Enter, or as a paste, behind what waits to be read.  A paste into
\* a line of paste_edit does not take back the Enter of the line that edits.
LEMMA TypingUnasked ==
    ASSUME IInv, Unasked, TypeKeys
    PROVE  Unasked'
<1> SUFFICES ASSUME ~asked'
             PROVE  Unasked'
  BY DEF Unasked
<1>1. PICK keys \in user.strokes :
         /\ Type(keys)
         /\ asked' = IF keys[1] = PasteStart THEN asked /\ (Enter \in {tty[i] : i \in 1..Len(tty)} \/ at.next # <<>>)
                      ELSE asked \/ Enter \in {keys[i] : i \in 1..Len(keys)}
  BY DEF TypeKeys
<1>2. /\ Reading /\ events = <<>> /\ tty' = tty \o keys
      /\ UNCHANGED <<events, line, result, queue>>
  BY <1>1 DEF Type, Waiting
<1>3. result = None /\ queue = <<>> /\ tty \in Seq(STRING)
  BY <1>2 DEF IInv, EditorInv, EditorShapes, ReadAlone
<1>4. /\ keys \in Seq(STRING) /\ keys # <<>>
      /\ keys[1] = PasteStart => \A i \in 1..Len(keys) : keys[i] = PasteEnd <=> i = Len(keys)
  BY StrokesTyped DEF IInv, ShellInv
<1>5. Enclosed(tty, FALSE)
  <2>1. ~asked \/ \A i \in 1..Len(tty) : tty[i] # Enter
    BY <1>1
  <2>2. QED
    BY <1>3, <2>1, EnclosedKinds DEF Unasked
<1>6. keys[1] = PasteStart \/ \A i \in 1..Len(keys) : keys[i] # Enter
  BY <1>1
<1>7. Enclosed(tty', FALSE)
  BY <1>2, <1>3, <1>4, <1>5, <1>6, EnclosedAppend
<1>8. \A open : Enclosed(<<>>, open)
  BY DEF Enclosed
<1>9. at'.next = <<>>
  <2>1. asked => at.next = <<>>
    BY <1>1
  <2>2. ~asked => at.next = <<>>
    BY <1>2 DEF Unasked, IInv, EditorInv, WorkAlone
  <2>3. at' = at
    BY DEF TypeKeys, shellVars
  <2>4. QED
    BY <2>1, <2>2, <2>3
<1>10. QED
  BY <1>2, <1>3, <1>7, <1>8, <1>9 DEF Unasked

\* A line that is taken is all that is to come.
LEMMA TakenUnasked ==
    ASSUME NEW text, Execute(text)
    PROVE  /\ UNCHANGED <<queue, pend, ran>>
           /\ at'.in = "prompt" /\ (at'.next # <<>> => at'.of = text)
BY WithinIsPlace, PromptIsPlace DEF Execute, Entered

\* A command of a line nobody has asked for: it cannot be about a paste, as there is none.
LEMMA CommandUnasked ==
    ASSUME IInv, Unasked, ~asked, RunCommand
    PROVE  /\ Unasked' /\ ran' \in {ran, <<at.of>>}
<1>1. /\ at.next # <<>> /\ UNCHANGED <<tty, events, line, result, asked>>
  BY DEF RunCommand, typist
<1>2. pend = NoPaste /\ queue = <<>> /\ \E i \in 1..Len(History) : at.of = History[i]
  BY <1>1 DEF Unasked
<1>3. /\ UNCHANGED <<queue, pend>> /\ at' \in {Within(Tail(at.next), at.of), Left}
      /\ ran' \in {ran, <<at.of>>}
  BY <1>2 DEF RunCommand, PasteRun, PasteCancel, PasteEdit
<1>4. at'.next # <<>> => at'.in = "prompt" /\ at'.of = at.of
  BY <1>3, WithinIsPlace, PlaceIsPlace DEF Left
<1>5. ~Reading /\ result = None
  BY <1>1 DEF RunCommand, IInv, EditorInv, WorkAlone
<1>6. QED
  BY <1>1, <1>2, <1>3, <1>4, <1>5 DEF Unasked, Reading

\* No step brings a line or queues a command before an Enter outside a paste.
LEMMA UnaskedStays ==
    ASSUME WholePastes, IInv, Unasked, [Next]_vars
    PROVE  Unasked'
<1>1. CASE TypeKeys
  BY <1>1, TypingUnasked
<1>2. CASE UNCHANGED <<tty, events, line, result, queue, at, pend, asked>>
  BY <1>2 DEF Unasked, Reading
<1>3. CASE PythonReads \/ Quiet \/ UNCHANGED vars
  BY <1>2, <1>3 DEF PythonReads, Quiet, vars, editorVars, shellVars, typist
<1>4. SUFFICES ASSUME ~(TypeKeys \/ PythonReads \/ Quiet \/ UNCHANGED vars), asked' = asked, ~asked
               PROVE  Unasked'
  <2>1. CASE asked' # asked
    BY <2>1, <1>1, <1>3 DEF Next, typist, AskCommand, AskCollector, AskEditedLine, EditorWorks, CommandEof,
       CommandInterrupt, DecideOnPaste, TakeCommand, RunCommand, GiveUp, CollectBlockLine, CollectHeredocLine,
       AcceptEditedLine, StopEditing
  <2>2. CASE asked' = asked /\ asked
    BY <2>2 DEF Unasked
  <2>3. QED
    BY <1>1, <1>3, <1>4, <2>1, <2>2
<1>5. CASE AskCommand \/ AskCollector \/ AskEditedLine
  BY <1>4, <1>5, AskUnasked DEF AskCommand, AskCollector, AskEditedLine, shellVars
<1>6. CASE EditorWorks
  BY <1>4, <1>6, EditorUnasked, LongPasteUnasked DEF EditorWorks
<1>10. CASE RunCommand
  BY <1>4, <1>10, CommandUnasked
<1>7. CASE CommandEof \/ CommandInterrupt \/ DecideOnPaste \/ TakeCommand
  <2>1. CASE CommandEof
    <3>1. at'.next = <<>>
      BY <2>1, PlaceIsPlace DEF CommandEof, Left
    <3>2. QED
      BY <1>4, <2>1, <3>1, AnswerUnasked DEF CommandEof
  <2>2. CASE CommandInterrupt
    <3>1. at' = at /\ pend' \in {pend, NoPaste} /\ queue' \in {queue, <<>>}
      BY <2>2 DEF CommandInterrupt, DropPaste, ClearQueue
    <3>2. QED
      BY <1>4, <2>2, <3>1, AnswerUnasked DEF CommandInterrupt
  <2>3. ~DecideOnPaste
    BY <1>4 DEF DecideOnPaste, Answered, Unasked
  <2>4. CASE TakeCommand
    <3>1. Answered("line")
      BY <2>4 DEF TakeCommand
    <3>2. ASSUME NEW p, NEW t, NEW a, NEW b, NEW c, Collect(t, Place(a, b, c))
          PROVE  Unasked'
      <4>1. at'.next = <<>> /\ queue' = queue
        BY <3>2, PlaceIsPlace DEF Collect, Crashed
      <4>2. QED
        BY <1>4, <3>1, <4>1, AnswerUnasked
    <3>3. CASE Execute(result.text)
      BY <1>4, <3>1, <3>3, TakenUnasked, AnswerUnasked
    <3>4. CASE at' \in {at, Left} /\ UNCHANGED <<queue, mode, pythonVars, pend, ran>>
      <4>1. at' = at \/ at'.next = <<>>
        BY <3>4, PlaceIsPlace DEF Left
      <4>2. QED
        BY <1>4, <3>1, <3>4, <4>1, AnswerUnasked
    <3>5. QED
      BY <2>4, <3>2, <3>3, <3>4 DEF TakeCommand, shellVars
  <2>5. QED
    BY <1>7, <2>1, <2>2, <2>3, <2>4
<1>8. CASE GiveUp \/ CollectBlockLine \/ CollectHeredocLine \/ AcceptEditedLine \/ StopEditing
  <2>1. ~(CollectBlockLine \/ CollectHeredocLine \/ AcceptEditedLine)
    BY <1>4 DEF CollectBlockLine, CollectHeredocLine, AcceptEditedLine, Answered, Unasked
  <2>2. PICK end : Answered(end)
    BY <1>8, <2>1 DEF GiveUp, StopEditing
  <2>3. queue' = queue /\ at'.next = <<>>
    <3>1. CASE GiveUp
      BY <3>1, PromptIsPlace DEF GiveUp
    <3>2. CASE StopEditing
      <4>1. at.next = <<>>
        BY <1>4, <3>2 DEF StopEditing, Unasked
      <4>2. QED
        BY <3>2, <4>1, WithinIsPlace DEF StopEditing
    <3>3. QED
      BY <1>8, <2>1, <3>1, <3>2
  <2>4. QED
    BY <1>4, <2>2, <2>3, AnswerUnasked
<1>9. QED
  BY <1>1, <1>3, <1>5, <1>6, <1>7, <1>8, <1>10 DEF Next

\* What runs before an Enter was typed has no pasted character.
LEMMA OldTextsRun ==
    ASSUME IInv, Unasked, ~asked, [Next]_vars, ran' # ran
    PROVE  \A i \in 1..Len(ran') : Pasted \notin {ran'[i][j] : j \in 1..Len(ran'[i])}
<1>1. RunCommand
  <2>1. ~(DecideOnPaste \/ CollectBlockLine \/ CollectHeredocLine \/ AcceptEditedLine)
    BY DEF DecideOnPaste, CollectBlockLine, CollectHeredocLine, AcceptEditedLine, Answered, Unasked
  <2>2. ~(AskCommand \/ AskCollector \/ AskEditedLine \/ EditorWorks \/ CommandEof \/ CommandInterrupt)
    BY DEF AskCommand, AskCollector, AskEditedLine, EditorWorks, CommandEof, CommandInterrupt, shellVars
  <2>3. ~(GiveUp \/ StopEditing \/ TakeCommand)
    BY TakenUnasked DEF GiveUp, StopEditing, TakeCommand, Collect, shellVars
  <2>4. ~(TypeKeys \/ PythonReads \/ Quiet \/ UNCHANGED vars)
    BY DEF TypeKeys, PythonReads, Quiet, vars, shellVars
  <2>5. QED
    BY <2>1, <2>2, <2>3, <2>4 DEF Next
<1>2. PICK k \in 1..Len(History) : at.of = History[k]
  BY <1>1 DEF RunCommand, Unasked
<1>3. ran' = <<at.of>>
  BY <1>1, CommandUnasked
<1>4. \A j \in 1..Len(History[k]) : History[k][j] # Pasted
  BY HistoryAssumption
<1>5. QED
  BY <1>2, <1>3, <1>4
-----------------------------------------------------------------------------
\* If every read takes all that waits, so that none cuts a paste, a pasted text is executed
\* only when the user has pressed Enter outside its markers.
THEOREM PastesWait ==
    ASSUME WholePastes
    PROVE  Spec => PasteWaits
<1>1. Init => Unasked
  BY PromptIsPlace DEF Init, EditorInit, Unasked, Enclosed, Reading
<1>2. IInv /\ Unasked /\ [Next]_vars => Unasked'
  BY UnaskedStays
<1>3. IInv /\ Unasked /\ [Next]_vars
        => [(ran' # ran /\ \E i \in 1..Len(ran') : Pasted \in {ran'[i][j] : j \in 1..Len(ran'[i])})
              => asked]_vars
  BY OldTextsRun
<1>4. QED
  BY <1>1, <1>2, <1>3, Invariance, PTL DEF Spec, PasteWaits
=============================================================================
