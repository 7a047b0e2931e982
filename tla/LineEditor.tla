----------------------------- MODULE LineEditor -----------------------------
(***************************************************************************)
(* The raw-mode line editor: RawLineReader, its LineBuffer, its key        *)
(* decoder's output and its EditorState.                                   *)
(*                                                                         *)
(* The terminal queues what is typed; a read takes the queue, or a part of *)
(* it when it is longer than one read; the keys of a read are handled one  *)
(* after the other.  A read of a line ends with a result: a line, an       *)
(* interrupt (Ctrl+C) or an end of file (Ctrl+D).                          *)
(***************************************************************************)
EXTENDS Completion

CONSTANTS
    None,         \* no line, no result
    WholePastes   \* whether a read takes all that waits, so that no pasted text is cut

VARIABLES
    tty,     \* typed and not yet read
    events,  \* read and not yet handled
    line,    \* the locals of read_line; None when no line is being read
    result,  \* how the last read ended, until the shell has taken it
    queue,   \* _command_queue: results to come without reading
    mode     \* EditorState.mode

editorVars == <<tty, events, line, result, queue, mode>>

Enter == "ENTER"
PasteStart == "PASTE_START"
PasteEnd == "PASTE_END"

SpecialKeys == {Enter, PasteStart, PasteEnd, "CTRL_C", "CTRL_D", "CTRL_R", "ESC", "TAB",
                "BACKSPACE", "DELETE", "LEFT", "RIGHT", "HOME", "END", "CTRL_K", "CTRL_U",
                "CTRL_W", "UP", "DOWN"}

IsPrintable(key) == key \notin SpecialKeys

\* can_transition: from normal to any mode, from any mode to itself.
CanEnter(target) == mode \in {"normal", target}

\* exit_to_normal.
ClearEditorState == mode' = "normal"

ClearQueue == queue' = <<>>

LineResult(text) == [end |-> "line", text |-> text]
Interrupted == [end |-> "interrupt", text |-> <<>>]
EndOfFile   == [end |-> "eof", text |-> <<>>]
-----------------------------------------------------------------------------
(***************************************************************************)
(* The line buffer: a text and a cursor, the characters before it.         *)
(***************************************************************************)
Buffer(text, cursor) == [buf |-> text, cur |-> cursor]

Filled(text) == Buffer(text, Len(text))

Before(l) == SubSeq(l.buf, 1, l.cur)
Behind(l) == SubSeq(l.buf, l.cur + 1, Len(l.buf))

Inserted(l, text) == Buffer(Before(l) \o text \o Behind(l), l.cur + Len(text))

Backspaced(l) == IF l.cur = 0 THEN Buffer(l.buf, 0)
                 ELSE Buffer(SubSeq(l.buf, 1, l.cur - 1) \o Behind(l), l.cur - 1)

Deleted(l) == IF l.cur >= Len(l.buf) THEN Buffer(l.buf, l.cur)
              ELSE Buffer(Before(l) \o Tail(Behind(l)), l.cur)

\* Blanks before the cursor go, then the word before them.
WordKilled(l) ==
    LET solid == {i \in 1..l.cur : ~Blank(l.buf[i])}
        last  == IF solid = {} THEN 0 ELSE CHOOSE i \in solid : \A j \in solid : i >= j
        gaps  == {i \in 0..last : i = 0 \/ Blank(l.buf[i])}
        kept  == CHOOSE i \in gaps : \A j \in gaps : i >= j
    IN  Buffer(SubSeq(l.buf, 1, kept) \o Behind(l), kept)

\* Only behind the end of the line.
Suggests(l) == l.suggests /\ l.cur = Len(l.buf)

\* The newest entry of the history that goes on from the line; else the completion's tail.
Suggestion(l) ==
    LET longer == {i \in 1..Len(l.history) :
                      Len(l.history[i]) > Len(l.buf) /\ IsPrefix(l.buf, l.history[i])}
        newest == l.history[CHOOSE i \in longer : \A j \in longer : i >= j]
    IN  IF ~Suggests(l) \/ l.buf = <<>> THEN <<>>
        ELSE IF longer # {} THEN SubSeq(newest, Len(l.buf) + 1, Len(newest))
        ELSE CompletionTail(l.buf)

MovedRight(l) ==
    IF l.cur = Len(l.buf) /\ Suggestion(l) # <<>> THEN Inserted(l, Suggestion(l))
    ELSE Buffer(l.buf, IF l.cur < Len(l.buf) THEN l.cur + 1 ELSE l.cur)

\* What the editing keys make of a line.
Edited(l, key) ==
    CASE key = "BACKSPACE" -> Backspaced(l)
      [] key = "DELETE"    -> Deleted(l)
      [] key = "LEFT"      -> Buffer(l.buf, IF l.cur = 0 THEN 0 ELSE l.cur - 1)
      [] key = "RIGHT"     -> MovedRight(l)
      [] key = "HOME"      -> Buffer(l.buf, 0)
      [] key = "END"       -> Filled(l.buf)
      [] key = "CTRL_K"    -> Buffer(Before(l), l.cur)
      [] key = "CTRL_U"    -> Buffer(Behind(l), 0)
      [] key = "CTRL_W"    -> WordKilled(l)
      [] OTHER             -> IF l.completes THEN Completed(l.buf, l.cur) ELSE Buffer(l.buf, l.cur)

EditingKeys == {"BACKSPACE", "DELETE", "LEFT", "RIGHT", "HOME", "END", "CTRL_K", "CTRL_U",
                "CTRL_W", "TAB"}

Set(l, buffer) == [l EXCEPT !.buf = buffer.buf, !.cur = buffer.cur]

\* UP and DOWN: nav is the entry shown, 0 for none.
HistoryUp(l) ==
    LET n == IF l.nav = 0 THEN Len(l.history) ELSE IF l.nav = 1 THEN 1 ELSE l.nav - 1
    IN  IF l.history = <<>> THEN [l EXCEPT !.nav = 0]
        ELSE [Set(l, Filled(l.history[n])) EXCEPT !.nav = n]

HistoryDown(l) ==
    IF l.nav = 0 THEN l
    ELSE IF l.nav >= Len(l.history) THEN [Set(l, Filled(<<>>)) EXCEPT !.nav = 0]
    ELSE [Set(l, Filled(l.history[l.nav + 1])) EXCEPT !.nav = l.nav + 1]
-----------------------------------------------------------------------------
(***************************************************************************)
(* Texts that arrive whole.                                                *)
(***************************************************************************)

\* The text of a batch of keys, without those that have none.
TextOf(keys) ==
    FoldLeft(LAMBDA text, key : IF key = Enter THEN Append(text, Newline)
                                ELSE IF IsPrintable(key) THEN Append(text, key) ELSE text,
             <<>>, keys)

\* _plain_paste_text: a batch of printable keys and newlines, at least one of each.
IsPlainPaste(keys) ==
    /\ \A i \in 1..Len(keys) : keys[i] = Enter \/ IsPrintable(keys[i])
    /\ \E i \in 1..Len(keys) : keys[i] = Enter
    /\ \E i \in 1..Len(keys) : IsPrintable(keys[i])

Results(commands) == [i \in 1..Len(commands) |-> LineResult(commands[i])]

\* _enqueue_from_events: what followed an Enter in the same read becomes commands, an
\* interrupt or an end of file; markers of a paste and editing keys are dropped.
Enqueued(keys) ==
    LET Flush(acc) == [queue |-> acc.queue \o Results(PasteCommands(acc.text)), text |-> <<>>]
        Step(acc, key) ==
            CASE key = "CTRL_C" -> [Flush(acc) EXCEPT !.queue = Append(@, Interrupted)]
              [] key = "CTRL_D" -> [Flush(acc) EXCEPT !.queue = Append(@, EndOfFile)]
              [] OTHER -> [acc EXCEPT !.text = @ \o TextOf(<<key>>)]
    IN  Flush(FoldLeft(Step, [queue |-> <<>>, text |-> <<>>], keys)).queue

\* _classify_bracketed_paste: one final newline is dropped; with more it stays a text to review.
Classified(text) ==
    LET newlines == {i \in 1..Len(text) : text[i] = Newline}
    IN  IF newlines = {} THEN [text |-> text, many |-> FALSE]
        ELSE IF newlines = {Len(text)} THEN [text |-> SubSeq(text, 1, Len(text) - 1), many |-> FALSE]
        ELSE [text |-> text, many |-> TRUE]
-----------------------------------------------------------------------------
EditorInit ==
    /\ tty = <<>> /\ events = <<>> /\ line = None /\ result = None
    /\ queue = <<>> /\ mode = "normal"

\* What a caller of read_line passes: its history, whether it completes and suggests,
\* whether it takes pastes of several lines, and the text to start from.  A paste is being
\* collected (in_paste, paste_buf), or a search is on (_in_reverse_search, with its locals).
Request(history, full, pending, initial) ==
    [history |-> history, completes |-> full, suggests |-> full, catches |-> full,
     pending |-> pending, nav |-> 0, inPaste |-> FALSE, paste |-> <<>>,
     searching |-> FALSE, query |-> <<>>, offset |-> 0, original |-> <<>>,
     buf |-> initial, cur |-> Len(initial)]

\* read_line begins: a queued command is returned at once; otherwise the terminal goes raw,
\* and what was typed before is flushed.
BeginRead(request) ==
    /\ line = None /\ result = None
    /\ events' = <<>>
    /\ IF queue # <<>>
       THEN /\ result' = Head(queue) /\ queue' = Tail(queue)
            /\ UNCHANGED <<tty, line, mode>>
       ELSE /\ line' = request /\ tty' = <<>>
            /\ UNCHANGED <<result, queue, mode>>

Reading == line # None

\* The editor waits for the keyboard.
Waiting == Reading /\ events = <<>>

\* The read of the line ends; keys not handled are gone, except those a caller has queued.
Ends(r) == /\ result' = r /\ line' = None /\ events' = <<>>
           /\ UNCHANGED <<tty, mode>>

\* One read takes all that waits, or a part of a text too long for one read.
Taken == IF WholePastes THEN {Len(tty)} ELSE 1..Len(tty)

\* A read while no search is on: a plain paste is cut into commands at once, the first
\* returned and the others queued; anything else is handled key by key.
Read ==
    /\ Waiting /\ tty # <<>> /\ ~line.searching
    /\ \E n \in Taken :
         LET keys     == SubSeq(tty, 1, n)
             commands == PasteCommands(line.buf \o TextOf(keys))
         IN  /\ tty' = SubSeq(tty, n + 1, Len(tty))
             /\ IF IsPlainPaste(keys)
                THEN IF commands = <<>> THEN UNCHANGED <<events, line, result, queue, mode>>
                     ELSE /\ result' = LineResult(Head(commands)) /\ line' = None
                          /\ queue' = queue \o Results(Tail(commands))
                          /\ UNCHANGED <<events, mode>>
                ELSE events' = keys /\ UNCHANGED <<line, result, queue, mode>>

ReadInSearch ==
    /\ Waiting /\ tty # <<>> /\ line.searching
    /\ \E n \in Taken : events' = SubSeq(tty, 1, n) /\ tty' = SubSeq(tty, n + 1, Len(tty))
    /\ UNCHANGED <<line, result, queue, mode>>

\* The terminal is gone: a read without data is an end of file.
Hangup == Waiting /\ Ends(EndOfFile) /\ UNCHANGED queue

Handling(key) == Reading /\ events # <<>> /\ Head(events) = key

\* The key is handled: the line becomes l.
Becomes(l) == /\ line' = l /\ events' = Tail(events)
              /\ UNCHANGED <<tty, result, queue, mode>>

Normal(key) == Handling(key) /\ ~line.searching /\ ~line.inPaste
-----------------------------------------------------------------------------
(***************************************************************************)
(* Bracketed pastes.                                                       *)
(***************************************************************************)
StartPaste == /\ Normal(PasteStart) /\ Becomes([line EXCEPT !.inPaste = TRUE])

\* Within the markers only text counts.
CollectPaste ==
    /\ Reading /\ events # <<>> /\ ~line.searching /\ line.inPaste
    /\ Head(events) # PasteEnd
    /\ Becomes([line EXCEPT !.paste = @ \o TextOf(<<Head(events)>>)])

SubmitShortPaste ==          \* variant: the final newline of the paste counts as an Enter
    /\ Handling(PasteEnd) /\ ~line.searching /\ line.inPaste
    /\ ~Classified(line.paste).many
    /\ Ends(LineResult(Inserted(line, Classified(line.paste).text).buf)) /\ UNCHANGED queue

EndShortPaste ==
    /\ Handling(PasteEnd) /\ ~line.searching /\ line.inPaste
    /\ ~Classified(line.paste).many
    /\ Becomes([Set(line, Inserted(line, Classified(line.paste).text)) EXCEPT !.inPaste = FALSE, !.paste = <<>>])

\* A paste of several lines is handed to the shell, if it takes it; the line is emptied
\* either way.
EndLongPaste ==
    /\ Handling(PasteEnd) /\ ~line.searching /\ line.inPaste
    /\ Classified(line.paste).many
    /\ line' = [Set(line, Filled(<<>>)) EXCEPT !.inPaste = FALSE, !.paste = <<>>, !.pending = TRUE]
    /\ events' = Tail(events)
    /\ mode' = IF line.catches THEN "paste_staged" ELSE mode
    /\ UNCHANGED <<tty, result, queue>>

\* A marker without its beginning has no meaning to the editor.
StrayPasteEnd == Normal(PasteEnd) /\ Becomes(line)
-----------------------------------------------------------------------------
(***************************************************************************)
(* Keys at the line.                                                       *)
(***************************************************************************)
Submit ==
    /\ Normal(Enter)
    /\ queue' = queue \o Enqueued(Tail(events))
    /\ Ends(LineResult(line.buf))

PressCtrlC == Normal("CTRL_C") /\ Ends(Interrupted) /\ UNCHANGED queue

PressCtrlD ==
    /\ Normal("CTRL_D")
    /\ IF line.buf = <<>> THEN Ends(EndOfFile) /\ UNCHANGED queue ELSE Becomes(line)

EditLine ==
    /\ Reading /\ events # <<>> /\ ~line.searching /\ ~line.inPaste
    /\ Head(events) \in EditingKeys
    /\ Becomes(Set(line, Edited(line, Head(events))))

\* A character also leaves the history: UP begins at its end again.
InsertCharacter ==
    /\ Reading /\ events # <<>> /\ ~line.searching /\ ~line.inPaste
    /\ IsPrintable(Head(events))
    /\ Becomes([Set(line, Inserted(line, <<Head(events)>>)) EXCEPT !.nav = 0])

PressUp   == Normal("UP")   /\ Becomes(HistoryUp(line))
PressDown == Normal("DOWN") /\ Becomes(HistoryDown(line))

PressEsc == Normal("ESC") /\ Becomes(line)
-----------------------------------------------------------------------------
(***************************************************************************)
(* Reverse search.                                                         *)
(***************************************************************************)

\* The entries of the history that contain the query.
SearchMatches(l) ==
    LET Holds(text) == \E i \in 1..Len(text) + 1 - Len(l.query) :
                          SubSeq(text, i, i + Len(l.query) - 1) = l.query
    IN  {i \in 1..Len(l.history) : l.history[i] # <<>> /\ (l.query = <<>> \/ Holds(l.history[i]))}

Newer(matches, i) == Cardinality({j \in matches : j > i})

\* The match shown: so many are newer as Ctrl+R has gone past.
Found(l) ==
    LET matches == SearchMatches(l)
        last    == Cardinality(matches) - 1
        passed  == IF l.offset < last THEN l.offset ELSE last
    IN  l.history[CHOOSE i \in matches : Newer(matches, i) = passed]

\* The search begins with no query, at the newest entry.
SearchBegun(l) == [l EXCEPT !.searching = TRUE, !.original = l.buf]

\* Ctrl+R is refused while a paste waits for a decision, and the keys read with it are dropped.
StartSearch ==
    /\ Normal("CTRL_R")
    /\ IF line.pending THEN events' = <<>> /\ UNCHANGED <<tty, line, result, queue, mode>>
       ELSE Becomes(SearchBegun(line))

Query(l, query) == [l EXCEPT !.query = query, !.offset = 0]

\* The search ends: the line is what it was, and keys read with the last one are dropped.
SearchGivenUp == /\ line' = [Set(line, Filled(line.original))
                                EXCEPT !.searching = FALSE, !.query = <<>>, !.offset = 0, !.original = <<>>]
                 /\ events' = <<>>
                 /\ UNCHANGED <<tty, result, queue, mode>>

Searching(key) == Handling(key) /\ line.searching

SearchType ==
    /\ Reading /\ events # <<>> /\ line.searching /\ IsPrintable(Head(events))
    /\ Becomes(Query(line, Append(line.query, Head(events))))

SearchErase ==
    /\ Searching("BACKSPACE")
    /\ Becomes(Query(line, IF line.query = <<>> THEN <<>> ELSE Front(line.query)))

SearchAgain ==
    /\ Searching("CTRL_R")
    /\ LET matches == SearchMatches(line)
       IN  Becomes(IF matches = {} THEN line
                   ELSE [line EXCEPT !.offset = (@ + 1) % Cardinality(matches)])

\* Enter submits the match; a batch's later keys are queued only by those of the first read.
SearchSubmit ==
    /\ Searching(Enter)
    /\ IF SearchMatches(line) = {} THEN SearchGivenUp
       ELSE Ends(LineResult(Found(line))) /\ UNCHANGED queue

SearchCtrlC == Searching("CTRL_C") /\ Ends(Interrupted) /\ UNCHANGED queue

SearchEsc == Searching("ESC") /\ SearchGivenUp

SearchIgnore ==
    /\ Reading /\ events # <<>> /\ line.searching
    /\ Head(events) \in SpecialKeys \ {"BACKSPACE", "CTRL_R", Enter, "CTRL_C", "ESC"}
    /\ Becomes(line)
-----------------------------------------------------------------------------
\* Everything the editor does on its own.
EditorStep ==
    \/ Read \/ ReadInSearch \/ Hangup
    \/ StartPaste \/ CollectPaste \/ EndShortPaste \/ StrayPasteEnd
    \/ Submit \/ PressCtrlC \/ PressCtrlD \/ PressEsc
    \/ EditLine \/ InsertCharacter \/ PressUp \/ PressDown
    \/ StartSearch \/ SearchType \/ SearchErase \/ SearchAgain \/ SearchSubmit
    \/ SearchCtrlC \/ SearchEsc \/ SearchIgnore

\* Someone types: only what is typed while a line is read is ever read.
Type(keys) == /\ Waiting
              /\ tty' = tty \o keys
              /\ UNCHANGED <<events, line, result, queue, mode>>
=============================================================================
