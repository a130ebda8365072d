------------------------------ MODULE Terminal ------------------------------
(***************************************************************************)
(* The ANSI terminal of web/terminal.js as operators on its state t: a       *)
(* screen of Rows by Cols cells, the rows that scrolled off it, the offset    *)
(* the user has scrolled back, the cursor, and the escape parser.            *)
(*                                                                          *)
(* What is abstracted: a printable character is any value the parser has no   *)
(* case for; a colour is the number of the SGR code that chose it; the        *)
(* parameters of an escape sequence are the numbers they spell (Absent for    *)
(* an empty one), so "03" and "3" are not told apart.  Painting is kept to    *)
(* which row is painted where, and where the cursor is.                       *)
(***************************************************************************)
EXTENDS Sequences, Loops

CONSTANTS Cols, Rows, MaxScrollback,
          Chars     \* the characters that are printed

ASSUME TerminalAssumption ==
  Cols \in Nat \ {0} /\ Rows \in Nat \ {0} /\ MaxScrollback \in Nat
ASSUME CharsAssumption == " " \in Chars

Absent == -1
Number == Nat \cup {Absent}
DefaultColour == 0
Smaller(a, b) == IF a < b THEN a ELSE b
Larger(a, b) == IF a > b THEN a ELSE b

Space == [char |-> " ", fg |-> DefaultColour, bg |-> DefaultColour]
BlankRow == [x \in 1 .. Cols |-> Space]
BlankScreen == [y \in 1 .. Rows |-> BlankRow]

Fresh == [buffer |-> BlankScreen, scrollback |-> <<>>, off |-> 0, x |-> 0, y |-> 0,
          esc |-> 0, params |-> <<>>, fg |-> DefaultColour, bg |-> DefaultColour]

\* clear() leaves the parser and the colours as they are.
Clear(t, history) ==
  [t EXCEPT !.buffer = BlankScreen, !.off = 0, !.x = 0, !.y = 0,
            !.scrollback = IF history THEN <<>> ELSE @]

-----------------------------------------------------------------------------
(* Scrolling and the view.                                                  *)

ScrollTo(t, offset) ==
  [t EXCEPT !.off = Larger(0, Smaller(Len(t.scrollback), offset))]

\* The row painted at line y: which list it is in, and its index there.
ViewRow(t, y) ==
  LET i == Len(t.scrollback) - t.off + y
  IN  IF i < Len(t.scrollback) THEN [of |-> "scrollback", at |-> i]
      ELSE [of |-> "buffer", at |-> i - Len(t.scrollback)]

\* Its cells.
Shown(t, y) == LET r == ViewRow(t, y) IN t[r.of][r.at + 1]

\* Mutant: the offset moves the cursor up.
CursorLinesUp(t) ==
  IF t.x < Cols THEN {t.y - t.off} \cap 0 .. Rows - 1 ELSE {}

\* The lines on which render() paints the cursor.
CursorLines(t) ==
  IF t.x < Cols THEN {t.y + t.off} \cap 0 .. Rows - 1 ELSE {}

-----------------------------------------------------------------------------
(* Output.                                                                  *)

\* Mutant: the view does not follow what scrolls off.
ScrollOffUnanchored(t) ==
  LET kept == IF MaxScrollback > 0 THEN Append(t.scrollback, Head(t.buffer)) ELSE <<>>
      rows == IF Len(kept) > MaxScrollback THEN Tail(kept) ELSE kept
  IN  [t EXCEPT !.buffer = Append(Tail(@), BlankRow), !.scrollback = rows]

\* The top row goes to the history, the oldest row of a full history is dropped,
\* and a view that is scrolled back follows.
ScrollOff(t) ==
  LET kept == IF MaxScrollback > 0 THEN Append(t.scrollback, Head(t.buffer)) ELSE <<>>
      rows == IF Len(kept) > MaxScrollback THEN Tail(kept) ELSE kept
  IN  [t EXCEPT !.buffer = Append(Tail(@), BlankRow),
                !.scrollback = rows,
                !.off = IF @ > 0 THEN Smaller(Len(rows), @ + 1) ELSE @]

NewLine(t) ==
  IF t.y + 1 < Rows THEN [t EXCEPT !.x = 0, !.y = @ + 1]
  ELSE [ScrollOff(t) EXCEPT !.x = 0]

Tab(t) ==
  LET x == ((t.x + 4) \div 4) * 4
  IN  IF x < Cols THEN [t EXCEPT !.x = x] ELSE NewLine(t)

\* Mutant: the last column wraps one character late.
PutWrapsLate(t, ch) ==
  LET u == IF t.x > Cols THEN NewLine(t) ELSE t
  IN  [u EXCEPT !.buffer[u.y + 1][u.x + 1] = [char |-> ch, fg |-> u.fg, bg |-> u.bg],
                !.x = @ + 1]

\* A printable character wraps when the next one comes, not when the row fills.
Put(t, ch) ==
  LET u == IF t.x >= Cols THEN NewLine(t) ELSE t
  IN  [u EXCEPT !.buffer[u.y + 1][u.x + 1] = [char |-> ch, fg |-> u.fg, bg |-> u.bg],
                !.x = @ + 1]

Plain(t, ch) ==
  CASE ch = "esc" -> [t EXCEPT !.esc = 1]
    [] ch = "cr"  -> [t EXCEPT !.x = 0]
    [] ch = "lf"  -> NewLine(t)
    [] ch = "bs"  -> [t EXCEPT !.x = Larger(0, @ - 1)]
    [] ch = "tab" -> Tab(t)
    [] OTHER      -> Put(t, ch)

\* The SGR codes: 0, and one range each for the colours and the bright colours.
Coloured(t, code) ==
  CASE code \in {0, Absent} -> [t EXCEPT !.fg = DefaultColour, !.bg = DefaultColour]
    [] code \in 30 .. 37 \cup 90 .. 97   -> [t EXCEPT !.fg = code]
    [] code \in 40 .. 47 \cup 100 .. 107 -> [t EXCEPT !.bg = code]
    [] code = 39 -> [t EXCEPT !.fg = DefaultColour]
    [] code = 49 -> [t EXCEPT !.bg = DefaultColour]
    [] OTHER -> t

\* SGR: the codes one after the other.
Shaded(t) ==
  LET shade(u, i) == Coloured(u, t.params[i + 1]) IN Loop(shade, t, Len(t.params))

\* The position the i-th parameter of H names, from 0.
Position(params, i) == IF i <= Len(params) THEN Larger(0, params[i] - 1) ELSE 0

HandleCsi(t, cmd) ==
  CASE cmd = "J" /\ t.params = <<3>> -> Clear(t, TRUE)
    [] cmd = "J" /\ t.params \in {<<2>>, <<Absent>>} -> Clear(t, FALSE)
    [] cmd \in {"H", "f"} -> [t EXCEPT !.y = Smaller(Rows - 1, Position(t.params, 1)),
                                     !.x = Smaller(Cols - 1, Position(t.params, 2))]
    [] cmd = "m" -> Shaded(t)
    [] OTHER -> t

Digits == <<"0", "1", "2", "3", "4", "5", "6", "7", "8", "9">>
IsDigit(ch) == \E i \in 1 .. 10 : Digits[i] = ch
IsParam(ch) == IsDigit(ch) \/ ch = ";"
Digit(ch) == (CHOOSE i \in 1 .. 10 : Digits[i] = ch) - 1

\* A digit extends the last parameter, a semicolon opens the next.
Param(params, ch) ==
  IF ch = ";" THEN Append(params, Absent)
  ELSE [params EXCEPT ![Len(params)] = Digit(ch) + (IF @ = Absent THEN 0 ELSE 10 * @)]

Csi(t, ch) ==
  IF IsParam(ch) THEN [t EXCEPT !.params = Param(@, ch)]
  ELSE [HandleCsi(t, ch) EXCEPT !.esc = 0]

WriteChar(t, ch) ==
  CASE t.esc = 0 -> Plain(t, ch)
    [] t.esc = 1 -> IF ch = "[" THEN [t EXCEPT !.esc = 2, !.params = <<Absent>>]
                    ELSE [t EXCEPT !.esc = 0]
    [] t.esc = 2 -> Csi(t, ch)

-----------------------------------------------------------------------------
(* Input: a key scrolls the view, or brings it down and sends a byte.        *)

Wheel(t, up) == ScrollTo(t, t.off + (IF up THEN 3 ELSE -3))

\* The keys that only scroll, with and without Shift, and where they scroll to.
ScrollKey(t, key) ==
  CASE key = "PageUp"      -> {t.off + Rows - 2}
    [] key = "PageDown"    -> {t.off - (Rows - 2)}
    [] key = "S-ArrowUp"   -> {t.off + 1}
    [] key = "S-ArrowDown" -> {t.off - 1}
    [] key = "S-Home"      -> {Len(t.scrollback)}
    [] key = "S-End"       -> {0}
    [] OTHER               -> {}

\* What a key sends; "e'" is a character outside ASCII, which sends nothing.
KeyByte(key) ==
  CASE key = "C-c" -> <<3>> [] key = "C-d" -> <<4>> [] key = "C-l" -> <<12>>
    [] key = "Enter" -> <<10>> [] key = "Backspace" -> <<8>> [] key = "Tab" -> <<9>>
    [] key = "a" -> <<97>> [] OTHER -> <<>>

\* Ignored: a key with Alt or Meta, another control key, a key of an input field.
Ignored == {"A-a", "C-x", "input"}

Keyed(t, key) ==
  IF key \in Ignored THEN t
  ELSE IF ScrollKey(t, key) = {} THEN ScrollTo(t, 0)
       ELSE ScrollTo(t, CHOOSE o \in ScrollKey(t, key) : TRUE)

-----------------------------------------------------------------------------
Cell == [char : Chars, fg : Nat, bg : Nat]
Row == [1 .. Cols -> Cell]
Terminals ==
  [buffer : [1 .. Rows -> Row], scrollback : Seq(Row), off : Nat,
   x : 0 .. Cols, y : 0 .. Rows - 1, esc : 0 .. 2, params : Seq(Number),
   fg : Nat, bg : Nat]

\* The cursor is where a character can be put or just behind the last column, the
\* offset lies in the history, the history within its limit, and a sequence that
\* is being read has a parameter to extend.
TerminalType(t) ==
  /\ t \in Terminals
  /\ Len(t.scrollback) <= MaxScrollback /\ t.off <= Len(t.scrollback)
  /\ t.esc = 2 => t.params # <<>>
=============================================================================
