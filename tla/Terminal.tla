------------------------------ MODULE Terminal ------------------------------
(***************************************************************************)
(* The line editor of xssh/terminal/terminal.go, on a VT100 screen.  Bytes *)
(* arrive in pieces, ReadLine decodes keys from them and edits the line;   *)
(* it keeps where it believes the cursor is and writes only what has to    *)
(* change.  While it waits for bytes its lock is free, and another         *)
(* goroutine may Write to the terminal.                                    *)
(*                                                                         *)
(* A character is a string of length one, and takes one cell.  The screen  *)
(* (external) has as many rows as are needed.                              *)
(***************************************************************************)
EXTENDS Integers, Sequences, FiniteSets, SequencesExt

CONSTANTS
  TermScripts,    \* the bytes that arrive and the calls that are made
  Width,          \* termWidth
  Rows,           \* bound: rows of the screen
  MaxLineLength,  \* maxLineLength (4096)
  HistoryMax,     \* entries of the history (100)
  MaxRead         \* bound: bytes that one Read returns

ASSUME TermAssumption == Width \in Nat \ {0} /\ HistoryMax \in Nat \ {0} /\ MaxRead \in Nat \ {0}

VARIABLES
  todo,     \* bytes still to come, reads still to be called, Writes still to be made
  term,     \* the Terminal
  screen,   \* cells, the cursor and whether the next character wraps
  reading,  \* the call under way: "no", "line" or "password"; whether it is pasted so far
  lines,    \* history: the lines ReadLine returned, and whether with ErrPasteIndicator
  keys,     \* history: the keys that were decoded
  fed,      \* history: the bytes that arrived
  aside     \* history: the last Write; see NoAside

termVars == <<todo, term, screen, reading, lines, keys, fed, aside>>

-----------------------------------------------------------------------------
(* The screen (external) *)

Blank == [r \in 0..Rows |-> [c \in 0..(Width - 1) |-> " "]]
EmptyScreen == [cell |-> Blank, x |-> 0, y |-> 0, wrap |-> FALSE]

Show(s, op) ==
  CASE op = "CRLF" -> [s EXCEPT !.x = 0, !.y = @ + 1, !.wrap = FALSE]
    [] op = "up" -> [s EXCEPT !.y = IF @ = 0 THEN 0 ELSE @ - 1, !.wrap = FALSE]
    [] op = "down" -> [s EXCEPT !.y = @ + 1, !.wrap = FALSE]
    [] op = "left" -> [s EXCEPT !.x = IF @ = 0 THEN 0 ELSE @ - 1, !.wrap = FALSE]
    [] op = "right" -> [s EXCEPT !.x = IF @ = Width - 1 THEN @ ELSE @ + 1, !.wrap = FALSE]
    [] op = "clearRight" -> [s EXCEPT !.cell[s.y] = [c \in 0..(Width - 1) |-> IF c < s.x THEN @[c] ELSE " "]]
    [] op = "clear" -> EmptyScreen
    [] OTHER ->
         LET x == IF s.wrap THEN 0 ELSE s.x
             y == IF s.wrap THEN s.y + 1 ELSE s.y IN
         [s EXCEPT !.cell[y][x] = op, !.x = IF x = Width - 1 THEN x ELSE x + 1, !.y = y,
                   !.wrap = (x = Width - 1)]

-----------------------------------------------------------------------------
(* Moving and writing.  Each operator returns the terminal, with what it    *)
(* wrote in outBuf.                                                         *)

queue(t, data) == [t EXCEPT !.outBuf = @ \o data]
Repeat(op, n) == [i \in 1..(IF n > 0 THEN n ELSE 0) |-> op]

move(t, up, down, left, right) ==
  queue(t, Repeat("up", up) \o Repeat("down", down) \o Repeat("left", left) \o Repeat("right", right))

\* In the direction of a negative distance nothing is written.
moveCursorToPos(t, pos) ==
  IF ~t.echo THEN t
  ELSE LET at == Len(t.prompt) + pos
           y == at \div Width
           x == at % Width IN
       move([t EXCEPT !.cursorX = x, !.cursorY = y],
            t.cursorY - y, y - t.cursorY, t.cursorX - x, x - t.cursorX)

\* The cursor of a terminal stays on the last column; the code moves it on itself.
advanceCursor(t, places) ==
  LET x == t.cursorX + places
      y == t.cursorY + (x \div Width) IN
  [t EXCEPT !.cursorX = x % Width, !.cursorY = y, !.maxLine = IF y > @ THEN y ELSE @,
            !.outBuf = IF places > 0 /\ x % Width = 0 THEN Append(@, "CRLF") ELSE @]

\* Up to the end of each row at a time, which is one character after the other.
writeLine(t, line) == FoldLeft(LAMBDA u, c : advanceCursor(queue(u, <<c>>), 1), t, line)

setLine(t, newLine, newPos) ==
  LET gap == Repeat(" ", Len(t.line) - Len(newLine))
      shown == moveCursorToPos(writeLine(writeLine(moveCursorToPos(t, 0), newLine), gap), newPos) IN
  [(IF t.echo THEN shown ELSE t) EXCEPT !.line = newLine, !.pos = newPos]

MutEraseNPreviousChars(t, m) ==
  LET pos == IF t.pos < m THEN 0 ELSE t.pos - m
      rest == SubSeq(t.line, t.pos + 1, Len(t.line))
      u == [moveCursorToPos(t, pos) EXCEPT !.pos = pos, !.line = SubSeq(t.line, 1, pos) \o rest] IN
  IF m = 0 THEN t ELSE IF t.echo THEN moveCursorToPos(writeLine(u, rest), pos) ELSE u
\* eraseNPreviousChars; the spaces are written at once.
eraseNPreviousChars(t, m) ==
  LET n == IF t.pos < m THEN t.pos ELSE m
      pos == t.pos - n
      rest == SubSeq(t.line, t.pos + 1, Len(t.line))
      u == [moveCursorToPos(t, pos) EXCEPT !.pos = pos, !.line = SubSeq(t.line, 1, pos) \o rest]
      wiped == advanceCursor(queue(writeLine(u, rest), Repeat(" ", n)), n) IN
  IF m = 0 THEN t ELSE IF t.echo THEN moveCursorToPos(wiped, pos) ELSE u

\* The positions (of Go, from 0) where the previous word begins and the next one begins.
countToLeftWord(t) ==
  LET at(i) == t.line[i + 1]
      solid == {i \in 0..(t.pos - 1) : at(i) # " " \/ i = 0}
      last == CHOOSE i \in solid : \A j \in solid : j <= i
      gaps == {i \in 1..last : at(i) = " "}
      begin == IF gaps = {} THEN 0 ELSE 1 + (CHOOSE i \in gaps : \A j \in gaps : j <= i) IN
  IF t.pos = 0 THEN 0 ELSE t.pos - begin

countToRightWord(t) ==
  LET n == Len(t.line)
      at(i) == t.line[i + 1]
      gap == {i \in t.pos..(n - 1) : at(i) = " "} \cup {n}
      g == CHOOSE i \in gap : \A j \in gap : i <= j
      solid == {i \in g..(n - 1) : at(i) # " "} \cup {n} IN
  (CHOOSE i \in solid : \A j \in solid : i <= j) - t.pos

\* Beyond the limit nothing is typed; handleKey does not ask for what is pasted.
addKeyToLine(t, c) ==
  LET line == SubSeq(t.line, 1, t.pos) \o <<c>> \o SubSeq(t.line, t.pos + 1, Len(t.line))
      u == [t EXCEPT !.line = line]
      shown == IF t.echo THEN writeLine(u, SubSeq(line, t.pos + 1, Len(line))) ELSE u IN
  moveCursorToPos([shown EXCEPT !.pos = @ + 1], t.pos + 1)

-----------------------------------------------------------------------------
(* stRingBuffer *)

Add(h, a) == LET head == (h.head + 1) % HistoryMax IN
             [entries |-> [h.entries EXCEPT ![head] = a], head |-> head,
              size |-> IF h.size < HistoryMax THEN h.size + 1 ELSE h.size]
NthPreviousEntry(h, n) == h.entries[IF h.head - n < 0 THEN h.head - n + HistoryMax ELSE h.head - n]

-----------------------------------------------------------------------------
(* Keys *)

Letters == {"A", "B", "C", "D", "F", "H", "a", "s", "p", "~"}
Controls == ("^A" :> "Home") @@ ("^E" :> "End") @@ ("^H" :> "Backspace") @@ ("^K" :> "DeleteLine")
            @@ ("^L" :> "ClearScreen") @@ ("^W" :> "DeleteWord")
Arrows == ("A" :> "Up") @@ ("B" :> "Down") @@ ("C" :> "Right") @@ ("D" :> "Left")
          @@ ("H" :> "Home") @@ ("F" :> "End")
PasteStart == <<"ESC", "[", "2", "0", "0", "~">>
PasteEnd == <<"ESC", "[", "2", "0", "1", "~">>
AltRight == <<"ESC", "[", "1", ";", "3", "C">>
AltLeft == <<"ESC", "[", "1", ";", "3", "D">>
Begins(b, s) == Len(b) >= Len(s) /\ SubSeq(b, 1, Len(s)) = s

\* bytesToKey: a key and how many bytes it took; 0 when the sequence is not complete.
bytesToKey(b, pasteActive) ==
  LET key(k, n) == [key |-> k, took |-> n]
      end == SelectInSeq(b, LAMBDA c : c \in Letters) IN
  CASE b = <<>> -> key("none", 0)
    [] b # <<>> /\ ~pasteActive /\ Head(b) \in DOMAIN Controls -> key(Controls[Head(b)], 1)
    [] b # <<>> /\ (pasteActive \/ Head(b) \notin DOMAIN Controls) /\ Head(b) # "ESC" -> key(Head(b), 1)
    [] ~pasteActive /\ Begins(b, <<"ESC", "[">>) /\ Len(b) >= 3 /\ b[3] \in DOMAIN Arrows -> key(Arrows[b[3]], 3)
    [] ~pasteActive /\ Begins(b, AltRight) -> key("AltRight", 6)
    [] ~pasteActive /\ Begins(b, AltLeft) -> key("AltLeft", 6)
    [] ~pasteActive /\ Begins(b, PasteStart) -> key("PasteStart", 6)
    [] pasteActive /\ Begins(b, PasteEnd) -> key("PasteEnd", 6)
    [] OTHER -> IF end = 0 THEN key("none", 0) ELSE key("Unknown", end)

\* The cases of handleKey but for Enter: the terminal after the key.
Edit(t, key) ==
  LET n == Len(t.line)
      jump(pos) == moveCursorToPos([t EXCEPT !.pos = pos], pos)
      recall(line, index) == [setLine(t, line, Len(line)) EXCEPT !.historyIndex = index] IN
  CASE key = "Backspace" -> IF t.pos = 0 THEN t ELSE eraseNPreviousChars(t, 1)
    [] key = "AltLeft" -> jump(t.pos - countToLeftWord(t))
    [] key = "AltRight" -> jump(t.pos + countToRightWord(t))
    [] key = "Left" -> IF t.pos = 0 THEN t ELSE jump(t.pos - 1)
    [] key = "Right" -> IF t.pos = n THEN t ELSE jump(t.pos + 1)
    [] key = "Home" -> IF t.pos = 0 THEN t ELSE jump(0)
    [] key = "End" -> IF t.pos = n THEN t ELSE jump(n)
    [] key = "Up" ->
         IF t.historyIndex + 1 >= t.history.size THEN t
         ELSE [recall(NthPreviousEntry(t.history, t.historyIndex + 1), t.historyIndex + 1)
                 EXCEPT !.pending = IF t.historyIndex = -1 THEN t.line ELSE @]
    [] key = "Down" ->
         CASE t.historyIndex = -1 -> t
           [] t.historyIndex = 0 -> recall(t.pending, -1)
           [] OTHER -> recall(NthPreviousEntry(t.history, t.historyIndex - 1), t.historyIndex - 1)
    [] key = "DeleteWord" -> eraseNPreviousChars(t, countToLeftWord(t))
    [] key = "DeleteLine" ->
         moveCursorToPos([writeLine(t, Repeat(" ", n - t.pos)) EXCEPT !.line = SubSeq(t.line, 1, t.pos)], t.pos)
    [] key = "^D" -> IF t.pos < n THEN eraseNPreviousChars([t EXCEPT !.pos = @ + 1], 1) ELSE t
    [] key = "^U" -> eraseNPreviousChars(t, t.pos)
    [] key = "ClearScreen" ->
         LET u == queue([t EXCEPT !.cursorX = 0, !.cursorY = 0], <<"clear">> \o t.prompt) IN
         setLine(advanceCursor(u, Len(t.prompt)), t.line, t.pos)
    [] OTHER -> IF key \notin {"a", "s", "p", " "} \/ n = MaxLineLength THEN t ELSE addKeyToLine(t, key)

\* handleKey for Enter.
EnterKey(t) ==
  [queue(moveCursorToPos(t, Len(t.line)), <<"CRLF">>)
     EXCEPT !.line = <<>>, !.pos = 0, !.cursorX = 0, !.cursorY = 0, !.maxLine = 0]

handleKey(t, key) ==
  IF key = "CR" THEN EnterKey(t)
  ELSE IF t.pasteActive THEN addKeyToLine(t, key) ELSE Edit(t, key)

-----------------------------------------------------------------------------
(* The calls *)

\* What the code believes is on the screen.  (History.)  Of the last Write: its text, the row
\* where it began, the rows of the line that were below the cursor and so were not cleared,
\* and whether a text did not end its row, and nothing else did since.
Painted(t) == t.prompt \o (IF t.echo THEN t.line ELSE <<>>)
NoAside == [text |-> <<>>, row |-> 0, below |-> 0, shifted |-> FALSE]

\* What is in outBuf goes to the screen.
Flush(t) == /\ screen' = FoldLeft(Show, screen, t.outBuf)
            /\ term' = [t EXCEPT !.outBuf = <<>>]

\* ReadLine or ReadPassword begins; the prompt is written unless it is there.
BeginRead ==
  /\ reading.call = "no" /\ todo.calls # <<>>
  /\ LET password == Head(todo.calls) = "password"
         t == [term EXCEPT !.echo = ~password, !.batch = term.remainder] IN
     /\ Flush(IF t.cursorX = 0 /\ t.cursorY = 0 THEN writeLine(t, t.prompt) ELSE t)
     /\ reading' = [call |-> Head(todo.calls), pasted |-> term.pasteActive]
  /\ todo' = [todo EXCEPT !.calls = Tail(@)]
  /\ UNCHANGED <<lines, keys, fed, aside>>

\* Read returns some bytes, while the lock is free.
Receive(n) ==
  /\ reading.call # "no" /\ n \in 1..Len(todo.bytes)
  /\ bytesToKey(term.remainder, term.pasteActive).took = 0
  /\ LET rest == term.remainder \o SubSeq(todo.bytes, 1, n) IN
     term' = [term EXCEPT !.remainder = rest, !.batch = rest]
  /\ todo' = [todo EXCEPT !.bytes = SubSeq(@, n + 1, Len(@))]
  /\ fed' = fed \o SubSeq(todo.bytes, 1, n)
  /\ UNCHANGED <<screen, reading, lines, keys, aside>>

\* One round of the inner loop of readLine: a key.  The bytes written so far reach the
\* screen when the loop stops; that is not told apart from one write for each key.  At
\* the end of input the function returns before it stores what is left: the keys decoded
\* since the last Read come again in the next call.
PastedAfter(key, t) ==
  IF key = "PasteStart" /\ ~t.pasteActive THEN reading.pasted \/ t.line = <<>>
  ELSE IF ~t.pasteActive THEN FALSE ELSE reading.pasted

NextKey ==
  /\ reading.call # "no"
  /\ LET k == bytesToKey(term.remainder, term.pasteActive)
         t == [term EXCEPT !.remainder = SubSeq(@, k.took + 1, Len(@))]
         pasted == PastedAfter(k.key, term) IN
     /\ k.took > 0
     /\ keys' = Append(keys, k.key)
     /\ CASE k.key = "^D" /\ ~t.pasteActive /\ t.line = <<>> ->
               /\ reading' = [call |-> "no", pasted |-> FALSE]
               /\ Flush([t EXCEPT !.echo = TRUE, !.remainder = t.batch]) /\ UNCHANGED lines
          [] k.key = "PasteStart" /\ ~t.pasteActive ->
               /\ reading' = [reading EXCEPT !.pasted = pasted]
               /\ Flush([t EXCEPT !.pasteActive = TRUE]) /\ UNCHANGED lines
          [] k.key = "PasteEnd" /\ t.pasteActive ->
               Flush([t EXCEPT !.pasteActive = FALSE]) /\ UNCHANGED <<lines, reading>>
          [] k.key = "CR" ->
               LET u == EnterKey(t) IN
               /\ Flush(IF t.echo THEN [u EXCEPT !.historyIndex = -1, !.history = Add(@, t.line)]
                        ELSE [u EXCEPT !.echo = TRUE])
               /\ reading' = [call |-> "no", pasted |-> FALSE]
               /\ lines' = Append(lines, [line |-> t.line, call |-> reading.call, pasted |-> pasted])
          [] OTHER ->
               /\ Flush(handleKey(t, k.key))
               /\ reading' = [reading EXCEPT !.pasted = pasted] /\ UNCHANGED lines
     /\ aside' = IF k.key = "CR" THEN [aside EXCEPT !.shifted = FALSE]
                 ELSE IF k.key = "ClearScreen" /\ ~t.pasteActive THEN NoAside ELSE aside
  /\ UNCHANGED <<todo, fed>>

\* Write, by another goroutine: what is being edited is cleared down to the row of the cursor,
\* the text written, and prompt and line painted again.
TermWrite ==
  /\ todo.writes # <<>> /\ todo' = [todo EXCEPT !.writes = Tail(@)]
  /\ reading.call # "no" => bytesToKey(term.remainder, term.pasteActive).took = 0
  /\ LET text == Head(todo.writes)
         ups == [i \in 1..(2 * term.cursorY) |-> IF i % 2 = 1 THEN "up" ELSE "clearRight"]
         t == queue([term EXCEPT !.cursorX = 0, !.cursorY = 0],
                    Repeat("left", term.cursorX) \o <<"clearRight">> \o ups \o text)
         u == writeLine(t, t.prompt)
         v == IF t.echo THEN writeLine(u, t.line) ELSE u IN
     /\ IF term.cursorX = 0 /\ term.cursorY = 0 THEN Flush(queue(term, text))
        ELSE Flush(moveCursorToPos(v, t.pos))
     /\ aside' = [text |-> IF aside.shifted THEN <<>> ELSE text, row |-> screen.y - term.cursorY,
                  below |-> Len(Painted(term)) \div Width - term.cursorY,
                  shifted |-> aside.shifted \/ (text # <<>> /\ Last(text) # "CRLF")]
  /\ UNCHANGED <<reading, lines, keys, fed>>

-----------------------------------------------------------------------------
TermInit ==
  /\ todo \in TermScripts
  /\ term = [prompt |-> <<">">>, line |-> <<>>, pos |-> 0, echo |-> TRUE, pasteActive |-> FALSE,
             cursorX |-> 0, cursorY |-> 0, maxLine |-> 0, outBuf |-> <<>>, remainder |-> <<>>, batch |-> <<>>,
             history |-> [entries |-> [i \in 0..(HistoryMax - 1) |-> <<>>], head |-> 0, size |-> 0],
             historyIndex |-> -1, pending |-> <<>>]
  /\ screen = EmptyScreen
  /\ reading = [call |-> "no", pasted |-> FALSE]
  /\ lines = <<>> /\ keys = <<>> /\ fed = <<>> /\ aside = NoAside

TermNext == BeginRead \/ (\E n \in 1..MaxRead : Receive(n)) \/ NextKey \/ TermWrite

-----------------------------------------------------------------------------
(* Properties *)

\* The state stays within its domains; the cursor is in the line and on the screen.
TermTypeOK ==
  /\ term.pos \in 0..Len(term.line) /\ term.outBuf = <<>>
  /\ term.cursorX \in 0..(Width - 1) /\ term.cursorY \in 0..Rows /\ term.maxLine \in 0..Rows
  /\ screen.x \in 0..(Width - 1) /\ screen.y \in 0..Rows
  /\ term.historyIndex \in -1..(HistoryMax - 1) /\ term.historyIndex < term.history.size
  /\ reading.call \in {"no", "line", "password"}

Cell(i) == LET base == screen.y - term.cursorY IN screen.cell[base + (i \div Width)][i % Width]

\* While a line is edited the screen shows it: the prompt and the line from the row where
\* the code believes the prompt is, nothing after them on their last row and the next, and
\* the cursor at its position; a password is not shown.  Editing in the middle, wrapping
\* at the edge, recalling lines and a concurrent Write keep it so.  Not so after a Write
\* whose text does not end in a newline, until the line is entered or the screen cleared: the
\* prompt is painted after the text, in a column that Write takes for the first one.
ScreenShowsLine ==
  reading.call # "no" /\ ~aside.shifted =>
    LET text == Painted(term)
        last == ((Len(text) \div Width) + 1) * Width - 1 IN
    /\ \A i \in 0..last : Cell(i) = IF i < Len(text) THEN text[i + 1] ELSE " "
    /\ term.echo => /\ screen.x = term.cursorX /\ ~screen.wrap
                    /\ term.cursorY * Width + term.cursorX = Len(term.prompt) + term.pos

\* What Write wrote stands above the line, alone on its rows.  Of a text of more than one row
\* that came when the cursor was on an upper row of a wrapped line this is so only for the
\* first row and for those beyond the line: what was below the cursor is not cleared.
TextStandsAlone ==
  LET rows == Cardinality({i \in 1..Len(aside.text) : aside.text[i] = "CRLF"}) IN
  ~aside.shifted =>
    \A j \in 0..(rows - 1) : j = 0 \/ j > aside.below =>
      screen.cell[aside.row + j] = [c \in 0..(Width - 1) |-> IF c = 0 THEN "o" ELSE " "]

\* The keys do not depend on how the bytes were cut into reads: while nothing is pasted
\* they are what the bytes decode to from the start.
Decoded(b) ==
  LET step(acc, i) ==
        IF i <= acc.next THEN acc
        ELSE LET k == bytesToKey(SubSeq(b, i, Len(b)), acc.paste) IN
             [keys |-> IF k.took = 0 THEN acc.keys ELSE Append(acc.keys, k.key),
              next |-> IF k.took = 0 THEN Len(b) ELSE i + k.took - 1,
              paste |-> IF k.key = "PasteStart" THEN TRUE ELSE IF k.key = "PasteEnd" THEN FALSE ELSE acc.paste] IN
  FoldLeft(step, [keys |-> <<>>, next |-> 0, paste |-> FALSE], [i \in 1..Len(b) |-> i]).keys
KeysAsTyped == "^D" \notin ToSet(keys) => IsPrefix(keys, Decoded(fed))

\* The history gives back the lines that were entered, the latest first, as many as it
\* has room for (stRingBuffer, whose index wraps).
HistoryRecalls ==
  LET entered == SelectSeq(lines, LAMBDA l : l.call = "line") IN
  /\ term.history.size = IF Len(entered) < HistoryMax THEN Len(entered) ELSE HistoryMax
  /\ \A n \in 0..(term.history.size - 1) :
       NthPreviousEntry(term.history, n) = entered[Len(entered) - n].line

\* "It indicates that bracketed paste mode is enabled and that the returned line consists
\* only of pasted data" (ErrPasteIndicator): such a line has no typed character.
PasteIndicatorHonest == \A i \in 1..Len(lines) : lines[i].pasted => ToSet(lines[i].line) \cap {"a", "s"} = {}

\* "ReadPassword temporarily changes the prompt and reads a password, without echo": what
\* is typed in it is never on the screen.
PasswordNotShown == \A r \in 0..Rows, c \in 0..(Width - 1) : screen.cell[r][c] # "s"

\* The line editor does what the user sees: the screen shows the line and never a password,
\* keys do not depend on how bytes are read, the history and the paste indicator are right.
TermSound == /\ TermTypeOK /\ ScreenShowsLine /\ TextStandsAlone /\ PasswordNotShown
             /\ KeysAsTyped /\ HistoryRecalls /\ PasteIndicatorHonest
=============================================================================
