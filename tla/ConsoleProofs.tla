---------------------------- MODULE ConsoleProofs ---------------------------
(* Theorems about Console, for every size of screen, history, memory, disk     *)
(* and framebuffer, and every scenario that ScenariosAssumption admits.        *)
EXTENDS Console, DeviceProofs

-----------------------------------------------------------------------------
(* The terminal.                                                            *)

LEMMA Blank == BlankRow \in Row /\ BlankScreen \in [1 .. Rows -> Row] /\ Space \in Cell
<1>1. Space \in Cell
  BY CharsAssumption DEF Space, Cell, DefaultColour
<1>2. BlankRow \in Row
  BY <1>1 DEF BlankRow, Row
<1> QED
  BY <1>1, <1>2 DEF BlankScreen

LEMMA FreshType == TerminalType(Fresh)
<1>1. 0 \in 0 .. Cols /\ 0 \in 0 .. Rows - 1
  BY TerminalAssumption
<1>2. Fresh \in Terminals
  BY <1>1, Blank DEF Fresh, Terminals, DefaultColour
<1> QED
  BY <1>2, TerminalAssumption DEF Fresh, TerminalType

LEMMA ClearType ==
  ASSUME NEW t, TerminalType(t), NEW history \in BOOLEAN
  PROVE  TerminalType(Clear(t, history))
<1>1. 0 \in 0 .. Cols /\ 0 \in 0 .. Rows - 1
  BY TerminalAssumption
<1> DEFINE rows == IF history THEN <<>> ELSE t.scrollback
<1>2. rows \in Seq(Row) /\ Len(rows) <= MaxScrollback /\ Len(rows) \in Nat
  BY TerminalAssumption DEF TerminalType, Terminals
<1>3. Clear(t, history) = [t EXCEPT !.buffer = BlankScreen, !.off = 0, !.x = 0, !.y = 0,
                                    !.scrollback = rows]
  BY DEF Clear
<1> HIDE DEF rows
<1>4. [t EXCEPT !.buffer = BlankScreen, !.off = 0, !.x = 0, !.y = 0, !.scrollback = rows]
        \in Terminals
  BY <1>1, <1>2, Blank DEF TerminalType, Terminals
<1> QED
  BY <1>2, <1>3, <1>4 DEF TerminalType, Terminals

LEMMA ScrollToType ==
  ASSUME NEW t, TerminalType(t), NEW offset \in Int
  PROVE  TerminalType(ScrollTo(t, offset))
<1> DEFINE off == Larger(0, Smaller(Len(t.scrollback), offset))
<1>1. Len(t.scrollback) \in Nat
  BY DEF TerminalType, Terminals
<1>2. off \in Nat /\ off <= Len(t.scrollback)
  BY <1>1 DEF Larger, Smaller
<1>3. ScrollTo(t, offset) = [t EXCEPT !.off = off]
  BY DEF ScrollTo
<1> HIDE DEF off
<1> QED
  BY <1>2, <1>3 DEF TerminalType, Terminals

\* The history after the top row has left the screen: the old one with that row
\* behind it, without its oldest row when it was full.
Kept(t) == IF MaxScrollback > 0 THEN Append(t.scrollback, Head(t.buffer)) ELSE <<>>
Rest(t) == IF Len(Kept(t)) > MaxScrollback THEN Tail(Kept(t)) ELSE Kept(t)

LEMMA SeqIsFunction ==
  ASSUME NEW W, NEW s \in Seq(W), NEW n \in Nat, Len(s) = n
  PROVE  s \in [1 .. n -> W]
OBVIOUS

LEMMA Screen ==
  ASSUME NEW t \in Terminals
  PROVE  /\ t.buffer \in Seq(Row) /\ Len(t.buffer) = Rows /\ t.buffer # <<>>
         /\ Head(t.buffer) = t.buffer[1] /\ t.buffer[1] \in Row
         /\ Append(Tail(t.buffer), BlankRow) \in [1 .. Rows -> Row]
         /\ \A y \in 1 .. Rows - 1 : Append(Tail(t.buffer), BlankRow)[y] = t.buffer[y + 1]
         /\ Append(Tail(t.buffer), BlankRow)[Rows] = BlankRow
<1>1. t.buffer \in [1 .. Rows -> Row] /\ Rows \in Nat \ {0}
  BY TerminalAssumption DEF Terminals
<1>2. t.buffer \in Seq(Row) /\ Len(t.buffer) = Rows
  BY <1>1
<1>3. Tail(t.buffer) \in Seq(Row) /\ Len(Tail(t.buffer)) = Rows - 1
  BY <1>1, <1>2
<1>4. \A y \in 1 .. Rows - 1 : Tail(t.buffer)[y] = t.buffer[y + 1]
  BY <1>1, <1>2
<1>5. Append(Tail(t.buffer), BlankRow) \in Seq(Row)
      /\ Len(Append(Tail(t.buffer), BlankRow)) = Rows
  BY <1>1, <1>3, Blank
<1>6. \A y \in 1 .. Rows - 1 : Append(Tail(t.buffer), BlankRow)[y] = t.buffer[y + 1]
  BY <1>1, <1>3, <1>4, Blank
<1>7. Append(Tail(t.buffer), BlankRow)[Rows] = BlankRow
  BY <1>1, <1>3, Blank
<1>8. Append(Tail(t.buffer), BlankRow) \in [1 .. Rows -> Row]
  BY <1>1, <1>5, SeqIsFunction
<1>9. t.buffer # <<>> /\ Head(t.buffer) = t.buffer[1] /\ t.buffer[1] \in Row
  BY <1>1, <1>2
<1> QED
  BY <1>2, <1>6, <1>7, <1>8, <1>9

LEMMA History ==
  ASSUME NEW t, TerminalType(t)
  PROVE  /\ Rest(t) \in Seq(Row) /\ Len(Rest(t)) <= MaxScrollback
         /\ MaxScrollback > 0 /\ Len(t.scrollback) < MaxScrollback
              => Rest(t) = Append(t.scrollback, t.buffer[1])
         /\ MaxScrollback > 0 /\ Len(t.scrollback) = MaxScrollback
              => Rest(t) = Tail(Append(t.scrollback, t.buffer[1]))
         /\ MaxScrollback = 0 => Rest(t) = <<>>
<1>1. t.scrollback \in Seq(Row) /\ t.buffer[1] \in Row /\ Head(t.buffer) = t.buffer[1]
      /\ Len(t.scrollback) <= MaxScrollback /\ MaxScrollback \in Nat
  BY Screen, TerminalAssumption DEF TerminalType, Terminals
<1>2. CASE MaxScrollback = 0
  BY <1>1, <1>2 DEF Rest, Kept
<1>3. CASE MaxScrollback > 0
  <2>1. Kept(t) = Append(t.scrollback, t.buffer[1])
        /\ Kept(t) \in Seq(Row) /\ Len(Kept(t)) = Len(t.scrollback) + 1
    BY <1>1, <1>3 DEF Kept
  <2> QED
    BY <1>1, <1>3, <2>1 DEF Rest
<1> QED
  BY <1>1, <1>2, <1>3

LEMMA ScrollOffIs ==
  ASSUME NEW t
  PROVE  ScrollOff(t) = [t EXCEPT !.buffer = Append(Tail(@), BlankRow),
                                  !.scrollback = Rest(t),
                                  !.off = IF @ > 0 THEN Smaller(Len(Rest(t)), @ + 1) ELSE @]
BY Zenon DEF ScrollOff, Rest, Kept

LEMMA ScrollOffType ==
  ASSUME NEW t, TerminalType(t)
  PROVE  TerminalType(ScrollOff(t)) /\ ScrollOff(t).y = t.y /\ ScrollOff(t).x = t.x
<1> DEFINE rows == Rest(t)
           off == IF t.off > 0 THEN Smaller(Len(rows), t.off + 1) ELSE t.off
           buffer == Append(Tail(t.buffer), BlankRow)
<1>1. rows \in Seq(Row) /\ Len(rows) <= MaxScrollback /\ Len(rows) \in Nat
  BY History
<1>2. buffer \in [1 .. Rows -> Row]
  BY Screen DEF TerminalType
<1>3. t.off \in Nat
  BY DEF TerminalType, Terminals
<1>4. off \in Nat /\ off <= Len(rows)
  BY <1>1, <1>3 DEF Smaller
<1>5. ScrollOff(t) = [t EXCEPT !.buffer = buffer, !.scrollback = rows, !.off = off]
  BY Zenon, ScrollOffIs
<1> HIDE DEF rows, off, buffer
<1> QED
  BY <1>1, <1>2, <1>4, <1>5 DEF TerminalType, Terminals

LEMMA NewLineType ==
  ASSUME NEW t, TerminalType(t)
  PROVE  TerminalType(NewLine(t)) /\ NewLine(t).x = 0 /\ NewLine(t).fg = t.fg
         /\ NewLine(t).bg = t.bg
<1>1. 0 \in 0 .. Cols
  BY TerminalAssumption
<1>2. CASE t.y + 1 < Rows
  <2>1. t.y + 1 \in 0 .. Rows - 1
    BY <1>2, TerminalAssumption DEF TerminalType, Terminals
  <2>2. NewLine(t) = [t EXCEPT !.x = 0, !.y = t.y + 1]
    BY <1>2 DEF NewLine
  <2> QED
    BY <1>1, <2>1, <2>2 DEF TerminalType, Terminals
<1>3. CASE ~(t.y + 1 < Rows)
  <2>1. TerminalType(ScrollOff(t))
    BY ScrollOffType
  <2>2. ScrollOff(t).fg = t.fg /\ ScrollOff(t).bg = t.bg
    BY ScrollOffIs DEF TerminalType, Terminals
  <2>3. NewLine(t) = [ScrollOff(t) EXCEPT !.x = 0]
    BY <1>3 DEF NewLine
  <2> DEFINE s == ScrollOff(t)
  <2> HIDE DEF s
  <2>4. t.y \in 0 .. Rows - 1 /\ TerminalType(s)
    BY <2>1 DEF s, TerminalType, Terminals
  <2>5. TerminalType([s EXCEPT !.x = 0]) /\ [s EXCEPT !.x = 0].x = 0
        /\ [s EXCEPT !.x = 0].fg = s.fg /\ [s EXCEPT !.x = 0].bg = s.bg
    BY <1>1, <2>4 DEF TerminalType, Terminals
  <2> QED
    BY <2>2, <2>3, <2>5 DEF s
<1> QED
  BY <1>2, <1>3

LEMMA PutType ==
  ASSUME NEW t, TerminalType(t), NEW ch \in Chars
  PROVE  TerminalType(Put(t, ch))
<1> DEFINE u == IF t.x >= Cols THEN NewLine(t) ELSE t
           cell == [char |-> ch, fg |-> u.fg, bg |-> u.bg]
<1>1. TerminalType(u) /\ u.x \in 0 .. Cols - 1
  <2>1. t.x \in 0 .. Cols
    BY DEF TerminalType, Terminals
  <2>2. CASE t.x >= Cols
    BY <2>2, NewLineType, TerminalAssumption
  <2>3. CASE ~(t.x >= Cols)
    BY <2>1, <2>3, TerminalAssumption
  <2> QED
    BY <2>2, <2>3
<1>2. cell \in Cell
  BY <1>1 DEF TerminalType, Terminals, Cell
<1>3. u.y + 1 \in 1 .. Rows /\ u.x + 1 \in 1 .. Cols /\ u.x + 1 \in 0 .. Cols
  <2> HIDE DEF u
  <2>1. u.y \in 0 .. Rows - 1
    BY <1>1 DEF TerminalType, Terminals
  <2> QED
    BY <1>1, <2>1, TerminalAssumption
<1>4. Put(t, ch) = [u EXCEPT !.buffer[u.y + 1][u.x + 1] = cell, !.x = @ + 1]
  BY DEF Put
<1> HIDE DEF u, cell
<1>5. u.buffer \in [1 .. Rows -> [1 .. Cols -> Cell]]
  BY <1>1 DEF TerminalType, Terminals, Row
<1>6. [u.buffer EXCEPT ![u.y + 1][u.x + 1] = cell] \in [1 .. Rows -> [1 .. Cols -> Cell]]
  BY <1>2, <1>3, <1>5
<1>7. Put(t, ch) = [u EXCEPT !.buffer = [u.buffer EXCEPT ![u.y + 1][u.x + 1] = cell],
                             !.x = u.x + 1]
  BY <1>1, <1>4 DEF TerminalType, Terminals
<1> QED
  BY <1>1, <1>3, <1>6, <1>7 DEF TerminalType, Terminals, Row

LEMMA TabType ==
  ASSUME NEW t, TerminalType(t)
  PROVE  TerminalType(Tab(t))
<1>1. t.x \in Nat
  BY DEF TerminalType, Terminals
<1>2. ((t.x + 4) \div 4) * 4 \in Nat
  BY <1>1
<1>3. ASSUME ((t.x + 4) \div 4) * 4 < Cols
      PROVE  ((t.x + 4) \div 4) * 4 \in 0 .. Cols
  BY <1>2, <1>3, TerminalAssumption
<1> QED
  BY <1>3, NewLineType DEF Tab, TerminalType, Terminals

LEMMA PlainType ==
  ASSUME NEW t, TerminalType(t), NEW ch \in Chars
  PROVE  TerminalType(Plain(t, ch))
<1>1. 0 \in 0 .. Cols /\ Larger(0, t.x - 1) \in 0 .. Cols /\ 1 \in 0 .. 2
  BY TerminalAssumption DEF Larger, TerminalType, Terminals
<1>2. CASE ch = "esc"
  BY <1>1, <1>2 DEF Plain, TerminalType, Terminals
<1>3. CASE ch = "cr"
  BY <1>1, <1>3 DEF Plain, TerminalType, Terminals
<1>4. CASE ch = "lf"
  BY <1>4, NewLineType DEF Plain
<1>5. CASE ch = "bs"
  BY <1>1, <1>5 DEF Plain, TerminalType, Terminals
<1>6. CASE ch = "tab"
  BY <1>6, TabType DEF Plain
<1>7. CASE ch \notin {"esc", "cr", "lf", "bs", "tab"}
  BY <1>7, PutType DEF Plain
<1> QED
  BY <1>2, <1>3, <1>4, <1>5, <1>6, <1>7

\* A colour code changes the colours only.
Shades(t) ==
  {u \in Terminals : /\ u.buffer = t.buffer /\ u.scrollback = t.scrollback /\ u.off = t.off
                     /\ u.x = t.x /\ u.y = t.y /\ u.esc = t.esc /\ u.params = t.params}

LEMMA ColouredShades ==
  ASSUME NEW t \in Terminals, NEW u \in Shades(t), NEW code \in Number
  PROVE  Coloured(u, code) \in Shades(t)
<1>1. DefaultColour \in Nat
  BY DEF DefaultColour
<1>2. CASE code \in {0, Absent}
  <2>1. Coloured(u, code) = [u EXCEPT !.fg = DefaultColour, !.bg = DefaultColour]
    BY <1>2 DEF Coloured, Absent, Number
  <2> QED
    BY <1>1, <2>1 DEF Shades, Terminals
<1>3. CASE code \in 30 .. 37 \cup 90 .. 97
  <2>1. Coloured(u, code) = [u EXCEPT !.fg = code] /\ code \in Nat
    BY <1>1, <1>3 DEF Coloured, Absent, Number
  <2> QED
    BY <2>1 DEF Shades, Terminals
<1>4. CASE code \in 40 .. 47 \cup 100 .. 107
  <2>1. Coloured(u, code) = [u EXCEPT !.bg = code] /\ code \in Nat
    BY <1>1, <1>4 DEF Coloured, Absent, Number
  <2> QED
    BY <2>1 DEF Shades, Terminals
<1>5. CASE code = 39
  <2>1. Coloured(u, code) = [u EXCEPT !.fg = DefaultColour] /\ DefaultColour \in Nat
    BY <1>1, <1>5 DEF Coloured, Absent, Number
  <2> QED
    BY <2>1 DEF Shades, Terminals
<1>6. CASE code = 49
  <2>1. Coloured(u, code) = [u EXCEPT !.bg = DefaultColour]
    BY <1>6 DEF Coloured, Absent, Number
  <2> QED
    BY <1>1, <2>1 DEF Shades, Terminals
<1>7. CASE code \notin {0, Absent, 39, 49} \cup 30 .. 37 \cup 90 .. 97 \cup 40 .. 47
                         \cup 100 .. 107
  BY <1>7 DEF Coloured, Shades
<1> QED
  BY <1>2, <1>3, <1>4, <1>5, <1>6, <1>7

\* So does the loop over the codes of an SGR sequence.
LEMMA ShadedType ==
  ASSUME NEW t, TerminalType(t)
  PROVE  Shaded(t) \in Shades(t)
<1> DEFINE n == Len(t.params)
           step(u, i) == Coloured(u, t.params[i + 1])
           F == [i \in Nat |-> [u \in Shades(t) |->
                   IF i < n THEN step(u, i) ELSE u]]
           Is(f) == f = [k \in 0 .. n |-> IF k = 0 THEN t ELSE step(f[k - 1], k - 1)]
           after == CHOOSE f : Is(f)
<1>1. t \in Terminals /\ t \in Shades(t) /\ n \in Nat
  BY DEF Shades, TerminalType, Terminals
<1>2. \A i \in 0 .. n - 1 : t.params[i + 1] \in Number
  BY DEF TerminalType, Terminals
<1>3. \A u \in Shades(t), i \in 0 .. n - 1 : step(u, i) \in Shades(t)
  BY <1>1, <1>2, ColouredShades
<1>4. F \in [Nat -> [Shades(t) -> Shades(t)]]
  <2> HIDE DEF step
  <2> QED
    BY <1>1, <1>3
<1>5. PICK g : g \in Runs(Shades(t), F, t, n)
  <2> HIDE DEF F, n
  <2> QED
    BY <1>1, <1>4, RunsExist
<1>6. Is(g)
  <2> HIDE DEF step, n
  <2>1. ASSUME NEW k \in 1 .. n PROVE g[k] = step(g[k - 1], k - 1)
    <3>1. k - 1 \in 0 .. n - 1 /\ (k - 1) + 1 = k /\ k - 1 < n
      BY <1>1
    <3>2. g[k] = F[k - 1][g[k - 1]] /\ g[k - 1] \in Shades(t)
      <4> HIDE DEF F
      <4> QED
        BY <1>1, <1>5, <3>1 DEF Runs
    <3> QED
      BY <3>1, <3>2
  <2>2. g \in [0 .. n -> Shades(t)] /\ g[0] = t
    BY <1>5 DEF Runs
  <2> QED
    BY <1>1, <2>1, <2>2
<1>7. Is(after)
  <2> HIDE DEF Is
  <2> QED
    BY <1>6
<1>8. Shaded(t) = after[n]
  BY Zenon DEF Shaded, Loop
<1>9. \A k \in 0 .. n : after[k] \in Shades(t)
  <2> DEFINE T == {k \in 0 .. n : after[k] \in Shades(t)}
  <2> HIDE DEF after
  <2>1. after[0] = t /\ \A k \in 1 .. n : after[k] = step(after[k - 1], k - 1)
    <3> HIDE DEF step, n
    <3> QED
      BY <1>1, <1>7
  <2>2. 0 \in T
    BY <1>1, <2>1
  <2>3. ASSUME NEW k \in 0 .. n - 1, k \in T PROVE k + 1 \in T
    <3> HIDE DEF step, n
    <3>1. k + 1 \in 1 .. n /\ (k + 1) - 1 = k
      BY <1>1
    <3> QED
      BY <1>1, <1>3, <2>1, <2>3, <3>1
  <2>4. \A k \in 0 .. n : k \in T
    <3> HIDE DEF T, n
    <3> QED
      BY <1>1, <2>2, <2>3, Induct
  <2> QED
    BY <2>4
<1>10. n \in 0 .. n
  BY <1>1
<1> QED
  <2> HIDE DEF after, n
  <2> QED
    BY <1>8, <1>9, <1>10

LEMMA ShadesType ==
  ASSUME NEW t, TerminalType(t), NEW u \in Shades(t)
  PROVE  TerminalType(u)
BY DEF Shades, TerminalType, Terminals

LEMMA PositionType ==
  ASSUME NEW params \in Seq(Number), NEW i \in {1, 2}
  PROVE  Position(params, i) \in Nat
<1>1. CASE i <= Len(params)
  <2>1. params[i] \in Number
    BY <1>1
  <2> QED
    BY <1>1, <2>1 DEF Position, Larger, Absent, Number
<1>2. CASE ~(i <= Len(params))
  BY <1>2 DEF Position
<1> QED
  BY <1>1, <1>2

LEMMA HandleCsiType ==
  ASSUME NEW t, TerminalType(t), NEW cmd \in Chars
  PROVE  TerminalType(HandleCsi(t, cmd))
<1>1. CASE cmd = "J"
  BY <1>1, ClearType DEF HandleCsi
<1>2. CASE cmd \in {"H", "f"}
  <2> DEFINE y == Smaller(Rows - 1, Position(t.params, 1))
             x == Smaller(Cols - 1, Position(t.params, 2))
  <2>1. Position(t.params, 1) \in Nat /\ Position(t.params, 2) \in Nat
    BY PositionType DEF TerminalType, Terminals
  <2>2. y \in 0 .. Rows - 1 /\ x \in 0 .. Cols
    BY <2>1, TerminalAssumption DEF Smaller
  <2>3. HandleCsi(t, cmd) = [t EXCEPT !.y = y, !.x = x]
    BY <1>2 DEF HandleCsi
  <2> HIDE DEF y, x
  <2> QED
    BY <2>2, <2>3 DEF TerminalType, Terminals
<1>3. CASE cmd = "m"
  BY <1>3, ShadedType, ShadesType DEF HandleCsi
<1>4. CASE cmd \notin {"J", "H", "f", "m"}
  BY <1>4 DEF HandleCsi
<1> QED
  BY <1>1, <1>2, <1>3, <1>4

LEMMA NonEmpty ==
  ASSUME NEW W, NEW s \in Seq(W), s # <<>>
  PROVE  Len(s) \in Nat \ {0} /\ Len(s) \in 1 .. Len(s)
<1>1. Len(s) \in Nat \ {0}
  BY EmptySeq
<1> QED
  BY <1>1

LEMMA DigitType == ASSUME NEW ch, IsDigit(ch) PROVE Digit(ch) \in 0 .. 9
<1>1. (CHOOSE i \in 1 .. 10 : Digits[i] = ch) \in 1 .. 10
  BY DEF IsDigit
<1> QED
  BY <1>1 DEF Digit

LEMMA ParamType ==
  ASSUME NEW params \in Seq(Number), params # <<>>,
         NEW ch, IsParam(ch)
  PROVE  Param(params, ch) \in Seq(Number) /\ Param(params, ch) # <<>>
<1>1. Len(params) \in 1 .. Len(params) /\ Len(params) \in Nat \ {0}
  BY NonEmpty
<1>2. CASE ch = ";"
  <2>1. Param(params, ch) = Append(params, Absent)
    BY <1>2 DEF Param
  <2>2. Append(params, Absent) \in Seq(Number)
        /\ Len(Append(params, Absent)) = Len(params) + 1
    <3>1. Absent \in Number
      BY DEF Number
    <3> QED
      BY <3>1, AppendProperties
  <2> QED
    BY <1>1, <2>1, <2>2, EmptySeq
<1>3. CASE ch # ";"
  <2> DEFINE last == params[Len(params)]
             v == Digit(ch) + (IF last = Absent THEN 0 ELSE 10 * last)
  <2>1. Digit(ch) \in Nat
    <3>1. IsDigit(ch)
      BY Zenon, <1>3 DEF IsParam
    <3> QED
      BY <3>1, DigitType
  <2>2. last \in Number
    BY <1>1, ElementOfSeq
  <2>3. v \in Nat /\ v \in Number
    <3> HIDE DEF last
    <3>1. CASE last = Absent
      BY <2>1, <3>1 DEF Number
    <3>2. CASE last \in Nat
      BY <2>1, <3>2 DEF Number, Absent
    <3> QED
      BY <2>2, <3>1, <3>2 DEF Number
  <2>4. Param(params, ch) = [params EXCEPT ![Len(params)] = v]
    BY <1>1, <1>3 DEF Param
  <2> HIDE DEF v
  <2>5. [params EXCEPT ![Len(params)] = v] \in Seq(Number)
        /\ Len([params EXCEPT ![Len(params)] = v]) = Len(params)
    BY <1>1, <2>3, ExceptSeq
  <2> QED
    BY <1>1, <2>4, <2>5, EmptySeq
<1> QED
  BY <1>2, <1>3

LEMMA ParserType ==
  ASSUME NEW t, TerminalType(t), NEW e \in {0, 1}
  PROVE  TerminalType([t EXCEPT !.esc = e])
<1>1. [t EXCEPT !.esc = e] \in Terminals
  BY DEF TerminalType, Terminals
<1>2. [t EXCEPT !.esc = e].esc = e /\ [t EXCEPT !.esc = e].scrollback = t.scrollback
      /\ [t EXCEPT !.esc = e].off = t.off /\ e # 2
  BY DEF TerminalType, Terminals
<1> DEFINE u == [t EXCEPT !.esc = e]
<1> HIDE DEF u
<1>3. TerminalType(u)
  BY <1>1, <1>2 DEF TerminalType, u
<1> QED
  BY <1>3 DEF u

LEMMA CsiType ==
  ASSUME NEW t, TerminalType(t), t.esc = 2, NEW ch \in Chars
  PROVE  TerminalType(Csi(t, ch))
<1>1. CASE IsParam(ch)
  <2>1. Param(t.params, ch) \in Seq(Number) /\ Param(t.params, ch) # <<>>
    BY <1>1, ParamType DEF TerminalType, Terminals
  <2>2. Csi(t, ch) = [t EXCEPT !.params = Param(t.params, ch)]
    BY <1>1 DEF Csi
  <2> DEFINE ps == Param(t.params, ch)
  <2> HIDE DEF ps
  <2>3. TerminalType([t EXCEPT !.params = ps])
    BY <2>1 DEF TerminalType, Terminals, ps
  <2> QED
    BY Zenon, <2>2, <2>3 DEF ps
<1>2. CASE ~IsParam(ch)
  <2> DEFINE u == HandleCsi(t, ch)
  <2>1. TerminalType(u)
    BY HandleCsiType
  <2>2. Csi(t, ch) = [u EXCEPT !.esc = 0]
    BY <1>2 DEF Csi
  <2> HIDE DEF u
  <2>3. TerminalType([u EXCEPT !.esc = 0])
    BY <2>1, ParserType
  <2> QED
    BY Zenon, <2>2, <2>3
<1> QED
  BY <1>1, <1>2

\* A character keeps the terminal's type, whatever state the parser is in.
LEMMA WriteCharType ==
  ASSUME NEW t, TerminalType(t), NEW ch \in Chars
  PROVE  TerminalType(WriteChar(t, ch))
<1>1. t.esc \in 0 .. 2
  BY DEF TerminalType, Terminals
<1>2. CASE t.esc = 0
  BY <1>2, PlainType DEF WriteChar
<1>3. CASE t.esc = 1
  <2>0. Absent \in Number
    BY DEF Number
  <2>1. <<Absent>> \in Seq(Number) /\ <<Absent>> # <<>> /\ 2 \in 0 .. 2 /\ 0 \in 0 .. 2
    BY <2>0
  <2>2. CASE ch = "["
    <3>1. WriteChar(t, ch) = [t EXCEPT !.esc = 2, !.params = <<Absent>>]
      BY <1>3, <2>2 DEF WriteChar
    <3> QED
      BY <2>1, <3>1 DEF TerminalType, Terminals
  <2>3. CASE ch # "["
    <3>1. WriteChar(t, ch) = [t EXCEPT !.esc = 0]
      BY <1>3, <2>3 DEF WriteChar
    <3> QED
      BY <2>1, <3>1 DEF TerminalType, Terminals
  <2> QED
    BY <2>2, <2>3
<1>4. CASE t.esc = 2
  BY <1>4, CsiType DEF WriteChar
<1> QED
  BY <1>1, <1>2, <1>3, <1>4

LEMMA KeyedType ==
  ASSUME NEW t, TerminalType(t), NEW key
  PROVE  TerminalType(Keyed(t, key))
<1>1. t.off \in Nat /\ Len(t.scrollback) \in Nat /\ Rows \in Nat
  BY TerminalAssumption DEF TerminalType, Terminals
<1>2. ScrollKey(t, key) \subseteq Int
  BY <1>1 DEF ScrollKey
<1>3. ASSUME ScrollKey(t, key) # {}
      PROVE  (CHOOSE o \in ScrollKey(t, key) : TRUE) \in Int
  BY <1>2, <1>3
<1> QED
  BY <1>3, ScrollToType DEF Keyed

LEMMA WheelType ==
  ASSUME NEW t, TerminalType(t), NEW up \in BOOLEAN
  PROVE  TerminalType(Wheel(t, up))
<1>1. t.off + (IF up THEN 3 ELSE -3) \in Int
  BY DEF TerminalType, Terminals
<1> QED
  BY <1>1, ScrollToType DEF Wheel

-----------------------------------------------------------------------------
(* The view.                                                                *)

\* The three things a character does to what the user sees of the history.
Still(t, u) == u.scrollback = t.scrollback /\ u.off = t.off
Scrolled(t, u) ==
  /\ u.scrollback = Rest(t)
  /\ u.off = IF t.off > 0 THEN Smaller(Len(Rest(t)), t.off + 1) ELSE t.off
Cleared(u) == u.off = 0 /\ u.buffer = BlankScreen
Moves(t, u) == Still(t, u) \/ Scrolled(t, u) \/ Cleared(u)

LEMMA NewLineMoves ==
  ASSUME NEW t, TerminalType(t)
  PROVE  Still(t, NewLine(t)) \/ Scrolled(t, NewLine(t))
<1>1. CASE t.y + 1 < Rows
  BY <1>1 DEF NewLine, Still, TerminalType, Terminals
<1>2. CASE ~(t.y + 1 < Rows)
  <2> DEFINE u == ScrollOff(t)
  <2>1. Scrolled(t, u)
    BY ScrollOffIs DEF Scrolled, TerminalType, Terminals
  <2>2. TerminalType(u)
    BY ScrollOffType
  <2>3. NewLine(t) = [u EXCEPT !.x = 0]
    BY <1>2 DEF NewLine
  <2> HIDE DEF u
  <2>4. [u EXCEPT !.x = 0].scrollback = u.scrollback /\ [u EXCEPT !.x = 0].off = u.off
    BY <2>2 DEF TerminalType, Terminals
  <2> QED
    BY <2>1, <2>3, <2>4 DEF Scrolled
<1> QED
  BY <1>1, <1>2

LEMMA PutMoves ==
  ASSUME NEW t, TerminalType(t), NEW ch
  PROVE  Still(t, Put(t, ch)) \/ Scrolled(t, Put(t, ch))
<1> DEFINE u == IF t.x >= Cols THEN NewLine(t) ELSE t
           v == [u EXCEPT !.buffer[u.y + 1][u.x + 1] = [char |-> ch, fg |-> u.fg, bg |-> u.bg],
                          !.x = @ + 1]
<1>1. Put(t, ch) = v
  BY DEF Put
<1>2. TerminalType(u)
  BY NewLineType
<1>3. Still(t, u) \/ Scrolled(t, u)
  BY NewLineMoves DEF Still
<1> HIDE DEF u
<1>4. v.scrollback = u.scrollback /\ v.off = u.off
  BY <1>2 DEF TerminalType, Terminals
<1> HIDE DEF v
<1> QED
  BY <1>1, <1>3, <1>4 DEF Still, Scrolled

LEMMA PlainMoves ==
  ASSUME NEW t, TerminalType(t), NEW ch \in Chars
  PROVE  Still(t, Plain(t, ch)) \/ Scrolled(t, Plain(t, ch))
<1>1. CASE ch \in {"esc", "cr", "bs"}
  BY <1>1 DEF Plain, Still, TerminalType, Terminals
<1>2. CASE ch = "lf"
  BY <1>2, NewLineMoves DEF Plain
<1>3. CASE ch = "tab"
  <2>1. Plain(t, ch) = Tab(t)
    BY <1>3 DEF Plain
  <2>2. Still(t, Tab(t)) \/ Tab(t) = NewLine(t)
    BY DEF Tab, Still, TerminalType, Terminals
  <2> QED
    BY <2>1, <2>2, NewLineMoves
<1>4. CASE ch \notin {"esc", "cr", "lf", "bs", "tab"}
  BY <1>4, PutMoves DEF Plain
<1> QED
  BY <1>1, <1>2, <1>3, <1>4

LEMMA HandleCsiMoves ==
  ASSUME NEW t, TerminalType(t), NEW cmd \in Chars
  PROVE  Still(t, HandleCsi(t, cmd)) \/ Cleared(HandleCsi(t, cmd))
<1>1. \A h \in BOOLEAN : Cleared(Clear(t, h))
  BY DEF Clear, Cleared, TerminalType, Terminals
<1>2. CASE cmd = "J"
  <2>1. \/ HandleCsi(t, cmd) = t
        \/ HandleCsi(t, cmd) = Clear(t, TRUE)
        \/ HandleCsi(t, cmd) = Clear(t, FALSE)
    <3>1. CASE t.params = <<3>>
      <4>1. t.params \notin {<<2>>, <<Absent>>}
        BY <3>1 DEF Absent
      <4> QED
        BY <1>2, <3>1, <4>1 DEF HandleCsi
    <3>2. CASE t.params # <<3>> /\ t.params \in {<<2>>, <<Absent>>}
      BY <1>2, <3>2 DEF HandleCsi
    <3>3. CASE t.params # <<3>> /\ t.params \notin {<<2>>, <<Absent>>}
      BY <1>2, <3>3 DEF HandleCsi
    <3> QED
      BY <3>1, <3>2, <3>3
  <2> QED
    BY <1>1, <2>1 DEF Still
<1>3. CASE cmd \in {"H", "f"}
  BY <1>3 DEF HandleCsi, Still, TerminalType, Terminals
<1>4. CASE cmd = "m"
  BY <1>4, ShadedType DEF HandleCsi, Shades, Still
<1>5. CASE cmd \notin {"J", "H", "f", "m"}
  BY <1>5 DEF HandleCsi, Still
<1> QED
  BY <1>2, <1>3, <1>4, <1>5

LEMMA WriteCharMoves ==
  ASSUME NEW t, TerminalType(t), NEW ch \in Chars
  PROVE  Moves(t, WriteChar(t, ch))
<1>1. t.esc \in 0 .. 2
  BY DEF TerminalType, Terminals
<1>2. CASE t.esc = 0
  BY <1>2, PlainMoves DEF WriteChar, Moves
<1>3. CASE t.esc = 1
  BY <1>3 DEF WriteChar, Moves, Still, TerminalType, Terminals
<1>4. CASE t.esc = 2
  <2>1. WriteChar(t, ch) = Csi(t, ch)
    BY <1>4 DEF WriteChar
  <2>2. CASE IsParam(ch)
    BY <2>1, <2>2 DEF Csi, Moves, Still, TerminalType, Terminals
  <2>3. CASE ~IsParam(ch)
    <3> DEFINE u == HandleCsi(t, ch)
    <3>1. WriteChar(t, ch) = [u EXCEPT !.esc = 0]
      BY <2>1, <2>3 DEF Csi
    <3>2. TerminalType(u) /\ (Still(t, u) \/ Cleared(u))
      BY HandleCsiType, HandleCsiMoves
    <3> HIDE DEF u
    <3>3. [u EXCEPT !.esc = 0].scrollback = u.scrollback
          /\ [u EXCEPT !.esc = 0].off = u.off /\ [u EXCEPT !.esc = 0].buffer = u.buffer
      BY <3>2 DEF TerminalType, Terminals
    <3> QED
      BY <3>1, <3>2, <3>3 DEF Moves, Still, Cleared
  <2> QED
    BY <2>2, <2>3
<1> QED
  BY <1>1, <1>2, <1>3, <1>4

\* The line of history at y, while the view is scrolled back beyond it.
LEMMA ShownHistory ==
  ASSUME NEW t, TerminalType(t), NEW y \in Nat, y < t.off
  PROVE  /\ Shown(t, y) = t.scrollback[Len(t.scrollback) - t.off + y + 1]
         /\ Len(t.scrollback) - t.off + y + 1 \in 1 .. Len(t.scrollback)
<1>1. t.off \in Nat /\ Len(t.scrollback) \in Nat /\ t.off <= Len(t.scrollback)
  BY DEF TerminalType, Terminals
<1>2. Len(t.scrollback) - t.off + y < Len(t.scrollback)
  BY <1>1
<1>3. ViewRow(t, y) = [of |-> "scrollback", at |-> Len(t.scrollback) - t.off + y]
  BY <1>2 DEF ViewRow
<1> QED
  BY <1>1, <1>3 DEF Shown

\* What ViewStays says of one character.
Top(t, u) == t.off = MaxScrollback /\ u.scrollback # t.scrollback
Drop(t, u) == IF Top(t, u) THEN 1 ELSE 0

LEMMA HistoryStays ==
  ASSUME NEW t, TerminalType(t), t.off > 0, NEW u, TerminalType(u),
         Still(t, u) \/ Scrolled(t, u),
         NEW y \in Drop(t, u) .. Smaller(Rows, t.off) - 1
  PROVE  Shown(u, y - Drop(t, u)) = Shown(t, y)
<1> DEFINE n == Len(t.scrollback)
           p == Len(u.scrollback)
           f == t.off
           o == u.off
           d == Drop(t, u)
           i == n - f + y + 1
           j == p - o + (y - d) + 1
<1> SUFFICES Shown(u, y - d) = Shown(t, y)
  OBVIOUS
<1>1. f \in Nat /\ n \in Nat /\ f <= n /\ n <= MaxScrollback /\ MaxScrollback \in Nat
  BY TerminalAssumption DEF TerminalType, Terminals
<1>2. o \in Nat /\ p \in Nat /\ o <= p
  BY DEF TerminalType, Terminals
<1>3. t.scrollback \in Seq(Row) /\ t.buffer[1] \in Row
  <2>1. t.buffer[1] \in Row
    BY Screen DEF TerminalType
  <2> QED
    BY <2>1 DEF TerminalType, Terminals
<1>4. d \in {0, 1} /\ y \in Nat /\ y - d \in Nat /\ y < f
  <2>1. d \in {0, 1}
    BY DEF Drop
  <2>2. y \in d .. Smaller(Rows, f) - 1 /\ Smaller(Rows, f) <= f /\ Smaller(Rows, f) \in Int
    BY <1>1, TerminalAssumption DEF Smaller
  <2> HIDE DEF d, f
  <2> QED
    BY <1>1, <2>1, <2>2
<1>5. Shown(t, y) = t.scrollback[i] /\ i \in 1 .. n
  BY <1>4, ShownHistory
<1>6. y - d < o => Shown(u, y - d) = u.scrollback[j]
  BY <1>4, ShownHistory
<1>7. i = n - f + y + 1 /\ j = p - o + (y - d) + 1
  OBVIOUS
<1>8. Still(t, u) => o = f /\ p = n /\ u.scrollback = t.scrollback /\ d = 0
  BY DEF Still, Drop, Top
<1>9. d = 0 => f # MaxScrollback \/ u.scrollback = t.scrollback
  BY DEF Drop, Top
<1>10. d = 1 => f = MaxScrollback
  BY DEF Drop, Top
<1>11. Scrolled(t, u) => u.scrollback = Rest(t) /\ o = Smaller(p, f + 1)
  BY DEF Scrolled
<1>12. Rest(t) = IF n < MaxScrollback THEN Append(t.scrollback, t.buffer[1])
                 ELSE Tail(Append(t.scrollback, t.buffer[1]))
  BY <1>1, History
<1>13. p = Len(u.scrollback)
  OBVIOUS
<1> DEFINE all == Append(t.scrollback, t.buffer[1])
<1>14. /\ all \in Seq(Row) /\ Len(all) = n + 1
       /\ \A k \in 1 .. n : all[k] = t.scrollback[k]
  BY <1>3, AppendProperties
<1>15. Rest(t) = IF n < MaxScrollback THEN all ELSE Tail(all)
  BY <1>12
<1> HIDE DEF i, j, n, p, f, o, d, all
<1>16. CASE Still(t, u)
  <2>1. y - d < o /\ j = i
    BY <1>1, <1>2, <1>4, <1>7, <1>8, <1>16
  <2> QED
    BY <1>5, <1>6, <1>8, <1>16, <2>1
<1>17. CASE Scrolled(t, u) /\ n < MaxScrollback
  <2>1. u.scrollback = all
    BY <1>11, <1>15, <1>17
  <2>2. p = n + 1
    BY <1>13, <1>14, <2>1
  <2>3. o = f + 1
    BY <1>1, <1>11, <1>17, <2>2 DEF Smaller
  <2>4. d = 0
    BY <1>1, <1>4, <1>10, <1>17
  <2>5. y - d < o /\ j = i
    BY <1>1, <1>4, <1>7, <2>2, <2>3, <2>4
  <2> QED
    BY <1>5, <1>6, <1>14, <2>1, <2>5
<1>18. CASE Scrolled(t, u) /\ n = MaxScrollback
  <2>1. u.scrollback = Tail(all)
    <3>1. ~(n < MaxScrollback)
      BY <1>1, <1>18
    <3> QED
      BY <1>11, <1>15, <1>18, <3>1, Zenon
  <2>2. all # <<>>
    BY <1>1, <1>14, EmptySeq
  <2>3. Len(Tail(all)) = n /\ \A k \in 1 .. n : Tail(all)[k] = all[k + 1]
    BY <1>1, <1>14, <2>2, HeadTailProperties
  <2>4. p = n
    BY <1>13, <2>1, <2>3
  <2>5. o = Smaller(n, f + 1)
    BY <1>11, <1>18, <2>4
  <2>6. o = IF f < n THEN f + 1 ELSE n
    BY <1>1, <2>5 DEF Smaller
  <2>7. y - d < o
    BY <1>1, <1>4, <2>6
  <2>8. Shown(u, y - d) = u.scrollback[j]
    BY <1>6, <2>7
  <2>9. ASSUME j = i - 1, j \in 1 .. n - 1 PROVE u.scrollback[j] = t.scrollback[i]
    <3>1. Tail(all)[j] = all[i]
      BY <1>1, <1>5, <2>3, <2>9
    <3>2. all[i] = t.scrollback[i]
      BY <1>5, <1>14
    <3> QED
      BY <2>1, <3>1, <3>2
  <2>10. CASE f < n \/ d = 1
    <3>1. f < n => d = 0
      BY <1>1, <1>4, <1>10, <1>18
    <3>2. j = i - 1
      BY <1>1, <1>4, <1>7, <2>4, <2>6, <2>10, <3>1
    <3>3. y - d >= 0 /\ i >= 2
      BY <1>1, <1>4, <1>7, <2>10, <3>1
    <3>4. j \in 1 .. n - 1
      BY <1>1, <1>4, <1>5, <1>7, <3>2, <3>3
    <3> QED
      BY <1>5, <2>8, <2>9, <3>2, <3>4
  <2>11. CASE f = n /\ d = 0
    <3>1. u.scrollback = t.scrollback
      BY <1>9, <1>18, <2>11
    <3>2. j = i
      BY <1>1, <1>4, <1>7, <2>4, <2>6, <2>11
    <3> QED
      BY <1>5, <2>8, <3>1, <3>2
  <2> QED
    BY <1>1, <1>4, <2>10, <2>11
<1> QED
  BY <1>1, <1>16, <1>17, <1>18
-----------------------------------------------------------------------------
(* The inductive invariant, in two parts: the loop's and the data's.  OneLoop  *)
(* needs that an exception has ended the batch it happened in.                *)

LoopInv ==
  /\ running \in BOOLEAN /\ inBatch \in BOOLEAN /\ crashed \in BOOLEAN
  /\ animFrameId \in FrameId \cup {NoFrame} /\ pending \subseteq FrameId
  /\ left \in 0 .. Batch
  /\ OneLoop
  /\ inBatch => ~crashed

DataInv ==
  /\ scenario \in Scenarios /\ sending \in Seq(Chars)
  /\ typed \in Seq(Nat) /\ got \in Seq(Nat)
  /\ TerminalType(term)
  /\ MachineType(m) /\ ~m.thrown
  /\ KeysInOrder

IInv == LoopInv /\ DataInv

\* What an access carries.
LEMMA AccessIs ==
  ASSUME NEW e, IsAccess(e)
  PROVE  /\ e.op = "tx" => e.str \in Seq(Chars) /\ e.str # <<>>
         /\ e.op = "reg" => e.reg \in Registers /\ e.val \in Nat
         /\ e.op = "store" => e.at \in Nat /\ e.val \in Int
BY DEF IsAccess

LEMMA ScenarioIs ==
  ASSUME NEW s \in Scenarios
  PROVE  /\ s.ram \in Ram /\ s.disk \in Disk /\ s.lines \subseteq Seq(Nat)
         /\ \A e \in s.guest : IsAccess(e)
BY ScenariosAssumption

LEMMA BytesType == ASSUME NEW key PROVE Bytes(key) \in Seq(Nat)
<1>1. Bytes(key) \in {<<>>, <<3>>, <<4>>, <<12>>, <<10>>, <<8>>, <<9>>, <<97>>}
  <2>1. KeyByte(key) \in {<<>>, <<3>>, <<4>>, <<12>>, <<10>>, <<8>>, <<9>>, <<97>>}
    BY DEF KeyByte
  <2> QED
    BY <2>1 DEF Bytes
<1>2. /\ <<>> \in Seq(Nat) /\ <<3>> \in Seq(Nat) /\ <<4>> \in Seq(Nat) /\ <<12>> \in Seq(Nat)
      /\ <<10>> \in Seq(Nat) /\ <<8>> \in Seq(Nat) /\ <<9>> \in Seq(Nat)
      /\ <<97>> \in Seq(Nat)
  OBVIOUS
<1> QED
  BY <1>1, <1>2, Zenon

LEMMA Assoc ==
  ASSUME NEW a \in Seq(Nat), NEW b \in Seq(Nat), NEW c \in Seq(Nat)
  PROVE  (a \o b) \o c = a \o (b \o c)
BY ConcatAssociative

\* Reading the first of what is left.
LEMMA Shift ==
  ASSUME NEW a \in Seq(Nat), NEW b \in Seq(Nat), b # <<>>
  PROVE  /\ Append(a, Head(b)) \in Seq(Nat) /\ Tail(b) \in Seq(Nat)
         /\ a \o b = Append(a, Head(b)) \o Tail(b)
<1>1. Head(b) \in Nat /\ Tail(b) \in Seq(Nat)
  BY HeadTailProperties
<1>2. b = <<Head(b)>> \o Tail(b) /\ <<Head(b)>> \in Seq(Nat)
  BY <1>1
<1>3. Append(a, Head(b)) = a \o <<Head(b)>>
  BY <1>1, AppendIsConcat
<1>4. Append(a, Head(b)) \in Seq(Nat)
  BY <1>1, AppendProperties
<1>5. (a \o <<Head(b)>>) \o Tail(b) = a \o (<<Head(b)>> \o Tail(b))
  BY <1>1, <1>2, Assoc
<1> QED
  BY <1>1, <1>2, <1>3, <1>4, <1>5, Zenon

-----------------------------------------------------------------------------
(* The loop.                                                                *)

\* A step of the guest.
LEMMA AfterLoop ==
  ASSUME LoopInv, Steps, NEW n, n.thrown \in BOOLEAN, After(n)
  PROVE  LoopInv'
<1>1. left \in 0 .. Batch /\ left > 0 /\ left' = left - 1 /\ Batch \in Nat
  BY ConsoleAssumption DEF LoopInv, Steps, After
<1>2. left' \in 0 .. Batch
  BY <1>1
<1>3. /\ running = TRUE /\ pending = {} /\ UNCHANGED <<running, animFrameId, pending>>
      /\ inBatch' = ~n.thrown /\ crashed' = n.thrown
  BY DEF LoopInv, OneLoop, Steps, After
<1> QED
  BY <1>2, <1>3 DEF LoopInv, OneLoop

LEMMA StartLoop ==
  ASSUME LoopInv, Start, pending' = {}, animFrameId' \in FrameId \cup {NoFrame}
  PROVE  LoopInv'
<1>1. Batch \in 0 .. Batch
  BY ConsoleAssumption
<1> QED
  BY <1>1 DEF LoopInv, OneLoop, Start

LEMMA ResetLoop ==
  ASSUME LoopInv, Reset
  PROVE  LoopInv'
<1>1. pending' = {} /\ animFrameId' = NoFrame /\ Start
  BY DEF LoopInv, OneLoop, Reset, Boot, Cancelled
<1> QED
  BY <1>1, StartLoop

LEMMA ResumeLoop ==
  ASSUME LoopInv, Resume
  PROVE  LoopInv'
<1>1. pending' = {} /\ animFrameId' \in FrameId \cup {NoFrame} /\ Start
  BY DEF LoopInv, OneLoop, Resume
<1> QED
  BY <1>1, StartLoop

LEMMA PauseLoop ==
  ASSUME LoopInv, Pause
  PROVE  LoopInv'
BY DEF LoopInv, OneLoop, Pause, Cancelled

LEMMA FrameLoop ==
  ASSUME LoopInv, Frame
  PROVE  LoopInv'
<1>1. running = TRUE /\ crashed = FALSE /\ pending = {animFrameId}
  BY DEF LoopInv, OneLoop, Frame
<1>2. pending' = {} /\ running' = TRUE /\ inBatch' = TRUE /\ crashed' = FALSE
      /\ left' = Batch /\ animFrameId' = animFrameId
  BY <1>1 DEF Frame
<1>3. Batch \in 0 .. Batch
  BY ConsoleAssumption
<1> QED
  BY <1>2, <1>3 DEF LoopInv, OneLoop

LEMMA EndBatchLoop ==
  ASSUME LoopInv, EndBatch
  PROVE  LoopInv'
<1>1. running = TRUE /\ crashed = FALSE /\ pending = {}
  BY DEF LoopInv, OneLoop, EndBatch
<1>2. PICK f \in FrameId : animFrameId' = f /\ pending' = pending \cup {f}
  BY DEF EndBatch
<1> QED
  BY <1>1, <1>2 DEF LoopInv, OneLoop, EndBatch

LEMMA RestLoop ==
  ASSUME LoopInv, UNCHANGED loop
  PROVE  LoopInv'
BY DEF LoopInv, OneLoop, loop

-----------------------------------------------------------------------------
(* The data.                                                                *)

\* The machine after a step: n, the exception having left it.
LEMMA AfterMachine ==
  ASSUME NEW n, MachineType(n)
  PROVE  /\ MachineType([n EXCEPT !.thrown = FALSE])
         /\ ~[n EXCEPT !.thrown = FALSE].thrown
         /\ [n EXCEPT !.thrown = FALSE].rx = n.rx
<1>1. n \in Machines
  BY DEF MachineType
<1>2. [n EXCEPT !.thrown = FALSE] \in Alike(n)
  BY <1>1, Thrown
<1>3. ~[n EXCEPT !.thrown = FALSE].thrown
  BY <1>1 DEF Machines
<1> QED
  BY <1>2, <1>3, AlikeType

LEMMA RxType ==
  ASSUME DataInv
  PROVE  m.rx \in Seq(Nat) /\ m \in Machines
BY Fields DEF DataInv, MachineType

LEMMA ResetData ==
  ASSUME DataInv, Reset
  PROVE  DataInv'
<1>1. /\ m' = Machine(scenario.ram, scenario.disk) /\ scenario' = scenario
      /\ term' = Clear(term, TRUE) /\ sending' = <<>> /\ typed' = <<>> /\ got' = <<>>
  BY DEF Reset, Boot, Booted
<1>2. MachineType(m') /\ ~m'.thrown /\ m'.rx = <<>>
  BY <1>1, ScenarioIs, MachineIs DEF DataInv
<1>3. TerminalType(term')
  BY <1>1, ClearType DEF DataInv
<1>4. <<>> \in Seq(Chars) /\ <<>> \in Seq(Nat) /\ <<>> = <<>> \o <<>>
  BY EmptySeq, ConcatEmptySeq
<1> QED
  BY <1>1, <1>2, <1>3, <1>4 DEF DataInv, KeysInOrder

\* Bytes sent.
LEMMA SendData ==
  ASSUME DataInv, NEW bytes \in Seq(Nat), Send(bytes), TerminalType(term'),
         UNCHANGED <<scenario, sending, got>>
  PROVE  DataInv'
<1>1. m' = [m EXCEPT !.rx = m.rx \o bytes] /\ typed' = typed \o bytes
  BY DEF Send, PushRx
<1>2. m.rx \in Seq(Nat) /\ got \in Seq(Nat) /\ typed \in Seq(Nat) /\ typed = got \o m.rx
  BY RxType DEF DataInv, KeysInOrder
<1>3. m.rx \o bytes \in Seq(Nat) /\ typed \o bytes \in Seq(Nat)
  BY <1>2, ConcatProperties
<1>4. MachineType(m') /\ m'.rx = m.rx \o bytes /\ m'.thrown = m.thrown
  BY <1>1, <1>3, RxSet DEF DataInv
<1>5. typed' = got \o (m.rx \o bytes)
  BY <1>1, <1>2, Assoc, Zenon
<1> QED
  BY <1>1, <1>3, <1>4, <1>5 DEF DataInv, KeysInOrder

LEMMA KeyData ==
  ASSUME DataInv, NEW key, KeyDown(key)
  PROVE  DataInv'
<1>1. TerminalType(term')
  BY KeyedType DEF KeyDown, DataInv
<1>2. Send(Bytes(key)) /\ UNCHANGED <<scenario, sending, got>>
  BY DEF KeyDown
<1> QED
  BY <1>1, <1>2, BytesType, SendData

LEMMA ButtonData ==
  ASSUME DataInv, NEW line \in scenario.lines, CommandButton(line)
  PROVE  DataInv'
<1>1. line \in Seq(Nat)
  BY ScenarioIs DEF DataInv
<1>2. TerminalType(term') /\ Send(line) /\ UNCHANGED <<scenario, sending, got>>
  BY DEF CommandButton, DataInv
<1> QED
  BY <1>1, <1>2, SendData

LEMMA WheelData ==
  ASSUME DataInv, NEW up \in BOOLEAN, WheelTurn(up)
  PROVE  DataInv'
<1>1. TerminalType(term')
  BY WheelType DEF WheelTurn, DataInv
<1> QED
  BY <1>1 DEF WheelTurn, DataInv, KeysInOrder

\* A step of the guest that leaves the bytes received.
LEMMA AfterData ==
  ASSUME DataInv, NEW n, MachineType(n), n.rx = m.rx, After(n), TerminalType(term'),
         sending' \in Seq(Chars), UNCHANGED <<typed, got>>
  PROVE  DataInv'
<1>1. m' = [n EXCEPT !.thrown = FALSE] /\ scenario' = scenario
  BY DEF After
<1>2. MachineType(m') /\ ~m'.thrown /\ m'.rx = m.rx
  BY <1>1, AfterMachine
<1> QED
  BY <1>1, <1>2 DEF DataInv, KeysInOrder

LEMMA SendCharData ==
  ASSUME DataInv, NEW text \in Seq(Chars), text # <<>>, SendChar(text)
  PROVE  DataInv'
<1>1. Head(text) \in Chars /\ Tail(text) \in Seq(Chars)
  BY HeadTailProperties
<1>2. TerminalType(term') /\ sending' \in Seq(Chars)
  BY <1>1, WriteCharType DEF SendChar, DataInv
<1>3. MachineType(m) /\ After(m) /\ UNCHANGED <<typed, got>>
  BY DEF SendChar, DataInv
<1> QED
  BY <1>2, <1>3, AfterData

LEMMA ReceiveData ==
  ASSUME DataInv, NEW e, Receive(e)
  PROVE  DataInv'
<1>1. /\ m.rx \in Seq(Nat) /\ got \in Seq(Nat) /\ typed = got \o m.rx /\ MachineType(m)
      /\ TerminalType(term) /\ sending \in Seq(Chars) /\ typed \in Seq(Nat)
  BY RxType DEF DataInv, KeysInOrder
<1>2. After(PopRx(m)) /\ UNCHANGED <<term, sending, typed>>
      /\ got' = IF m.rx = <<>> THEN got ELSE Append(got, Head(m.rx))
  BY DEF Receive
<1>3. CASE m.rx = <<>>
  <2>1. PopRx(m) = m /\ got' = got
    BY <1>2, <1>3 DEF PopRx
  <2> QED
    BY <1>1, <1>2, <2>1, AfterData
<1>4. CASE m.rx # <<>>
  <2>1. PopRx(m) = [m EXCEPT !.rx = Tail(m.rx)] /\ got' = Append(got, Head(m.rx))
    BY <1>2, <1>4 DEF PopRx
  <2>2. Tail(m.rx) \in Seq(Nat) /\ got' \in Seq(Nat) /\ typed = got' \o Tail(m.rx)
    BY <1>1, <1>4, <2>1, Shift, Zenon
  <2>3. MachineType(PopRx(m)) /\ PopRx(m).rx = Tail(m.rx)
    BY <1>1, <2>1, <2>2, RxSet
  <2>4. m' = [PopRx(m) EXCEPT !.thrown = FALSE] /\ scenario' = scenario
    BY <1>2 DEF After
  <2>5. MachineType(m') /\ ~m'.thrown /\ m'.rx = Tail(m.rx)
    BY <2>3, <2>4, AfterMachine
  <2> QED
    BY <1>1, <1>2, <2>2, <2>4, <2>5 DEF DataInv, KeysInOrder
<1> QED
  BY <1>3, <1>4

LEMMA RegisterData ==
  ASSUME DataInv, NEW e, IsAccess(e), Register(e)
  PROVE  DataInv'
<1>1. e.reg \in Registers /\ e.val \in Nat
  BY AccessIs DEF Register
<1> DEFINE n == StoreReg(m, e.reg, e.val)
<1>2. MachineType(n) /\ n.rx = IF Clears(e.reg, e.val) THEN <<>> ELSE m.rx
  BY <1>1, StoreRegType DEF DataInv
<1>3. /\ After(n) /\ UNCHANGED <<term, sending, got>>
      /\ typed' = IF Clears(e.reg, e.val) THEN got ELSE typed
  BY DEF Register
<1>4. TerminalType(term') /\ sending' \in Seq(Chars) /\ got \in Seq(Nat)
  BY <1>3 DEF DataInv
<1> HIDE DEF n
<1>5. CASE Clears(e.reg, e.val)
  <2>1. n.rx = <<>> /\ typed' = got /\ got' = got
    BY <1>2, <1>3, <1>5
  <2>2. m' = [n EXCEPT !.thrown = FALSE] /\ scenario' = scenario
    BY <1>3 DEF After
  <2>3. MachineType(m') /\ ~m'.thrown /\ m'.rx = <<>>
    BY <1>2, <2>1, <2>2, AfterMachine
  <2>4. got = got \o <<>>
    BY <1>4, ConcatEmptySeq
  <2> QED
    BY <1>3, <1>4, <2>1, <2>2, <2>3, <2>4 DEF DataInv, KeysInOrder
<1>6. CASE ~Clears(e.reg, e.val)
  <2>1. n.rx = m.rx /\ UNCHANGED <<typed, got>>
    BY <1>2, <1>3, <1>6
  <2> QED
    BY <1>2, <1>3, <1>4, <2>1, AfterData
<1> QED
  BY <1>5, <1>6
LEMMA StoreWordData ==
  ASSUME DataInv, NEW e, IsAccess(e), StoreWord(e)
  PROVE  DataInv'
<1>1. e.at \in Int /\ e.val \in Int
  BY AccessIs DEF StoreWord
<1> DEFINE n == BusWrite(m, e.at, e.val)
<1>2. MachineType(n) /\ n.rx = m.rx
  BY <1>1, BusWriteType DEF DataInv
<1>3. After(n) /\ UNCHANGED <<term, sending, typed, got>>
  BY DEF StoreWord
<1> HIDE DEF n
<1>4. TerminalType(term') /\ sending' \in Seq(Chars)
  BY <1>3 DEF DataInv
<1> QED
  BY <1>2, <1>3, <1>4, AfterData

LEMMA ComputeData ==
  ASSUME DataInv, NEW e, Compute(e)
  PROVE  DataInv'
<1> DEFINE halted == e.op = "halt"
           n == [m EXCEPT !.halted = halted]
<1>1. halted \in BOOLEAN
  OBVIOUS
<1>2. After(n) /\ UNCHANGED <<term, sending, typed, got>>
  BY DEF Compute
<1> HIDE DEF halted
<1>3. n \in Alike(m)
  BY <1>1, RxType, Halted
<1>4. MachineType(n) /\ n.rx = m.rx
  BY <1>3, AlikeType DEF DataInv
<1> HIDE DEF n
<1>5. TerminalType(term') /\ sending' \in Seq(Chars)
  BY <1>2 DEF DataInv
<1> QED
  BY <1>2, <1>4, <1>5, AfterData

LEMMA GuestData ==
  ASSUME DataInv, NEW e \in scenario.guest, Guest(e)
  PROVE  DataInv'
<1>1. IsAccess(e)
  BY ScenarioIs DEF DataInv
<1>2. CASE Transmit(e)
  <2>1. e.str \in Seq(Chars) /\ e.str # <<>>
    BY <1>1, <1>2, AccessIs DEF Transmit
  <2> QED
    BY <1>2, <2>1, SendCharData DEF Transmit
<1>3. CASE Receive(e)
  BY <1>3, ReceiveData
<1>4. CASE Register(e)
  BY <1>1, <1>4, RegisterData
<1>5. CASE StoreWord(e)
  BY <1>1, <1>5, StoreWordData
<1>6. CASE Compute(e)
  BY <1>6, ComputeData
<1> QED
  BY <1>2, <1>3, <1>4, <1>5, <1>6 DEF Guest

LEMMA PrintOnData ==
  ASSUME DataInv, PrintOn
  PROVE  DataInv'
<1>1. sending \in Seq(Chars) /\ sending # <<>> /\ SendChar(sending)
  BY DEF DataInv, PrintOn
<1> QED
  BY <1>1, SendCharData

LEMMA RestData ==
  ASSUME DataInv, UNCHANGED <<m, term, scenario, sending, typed, got>>
  PROVE  DataInv'
BY DEF DataInv, KeysInOrder

\* A step of the guest is After some machine.
LEMMA GuestAfter ==
  ASSUME DataInv, NEW e \in scenario.guest, Guest(e)
  PROVE  \E n : n.thrown \in BOOLEAN /\ After(n)
<1>1. IsAccess(e) /\ MachineType(m) /\ m \in Machines
  BY ScenarioIs, RxType DEF DataInv
<1>2. \A n : MachineType(n) => n.thrown \in BOOLEAN
  BY Fields DEF MachineType
<1>3. CASE Transmit(e)
  BY <1>1, <1>2, <1>3 DEF Transmit, SendChar
<1>4. CASE Receive(e)
  <2>1. PopRx(m).thrown = m.thrown
    BY <1>1 DEF PopRx, Machines
  <2> QED
    BY <1>1, <1>2, <1>4, <2>1 DEF Receive
<1>5. CASE Register(e)
  <2>1. MachineType(StoreReg(m, e.reg, e.val))
    BY <1>1, <1>5, AccessIs, StoreRegType DEF Register
  <2> QED
    BY <1>2, <1>5, <2>1 DEF Register
<1>6. CASE StoreWord(e)
  <2>1. MachineType(BusWrite(m, e.at, e.val))
    BY <1>1, <1>6, AccessIs, BusWriteType DEF StoreWord
  <2> QED
    BY <1>2, <1>6, <2>1 DEF StoreWord
<1>7. CASE Compute(e)
  <2> DEFINE halted == e.op = "halt"
           n == [m EXCEPT !.halted = halted]
  <2>1. After(n)
    BY <1>7 DEF Compute
  <2> HIDE DEF halted
  <2>2. n.thrown = m.thrown
    BY <1>1 DEF Machines
  <2>3. n.thrown \in BOOLEAN
    BY <1>1, <1>2, <2>2
  <2> HIDE DEF n
  <2> QED
    BY <2>1, <2>3
<1> QED
  BY <1>3, <1>4, <1>5, <1>6, <1>7 DEF Guest

LEMMA InitIInv == Init => IInv
<1> SUFFICES ASSUME Init PROVE IInv
  OBVIOUS
<1>1. LoopInv
  <2>1. Batch \in 0 .. Batch
    BY ConsoleAssumption
  <2> QED
    BY <2>1 DEF Init, LoopInv, OneLoop, FrameId, NoFrame
<1>2. DataInv
  <2>1. /\ m = Machine(scenario.ram, scenario.disk) /\ scenario \in Scenarios
        /\ term = Fresh /\ sending = <<>> /\ typed = <<>> /\ got = <<>>
    BY DEF Init, Booted
  <2>2. MachineType(m) /\ ~m.thrown /\ m.rx = <<>>
    BY <2>1, ScenarioIs, MachineIs
  <2>3. <<>> \in Seq(Chars) /\ <<>> \in Seq(Nat) /\ <<>> = <<>> \o <<>>
    BY EmptySeq, ConcatEmptySeq
  <2> QED
    BY <2>1, <2>2, <2>3, FreshType DEF DataInv, KeysInOrder
<1> QED
  BY <1>1, <1>2 DEF IInv

LEMMA StepIInv == IInv /\ [Next]_vars => IInv'
<1> SUFFICES ASSUME IInv, [Next]_vars PROVE IInv'
  OBVIOUS
<1> USE DEF IInv
<1>1. CASE Reset
  BY <1>1, ResetLoop, ResetData
<1>2. CASE Pause
  BY <1>2, PauseLoop, RestData DEF Pause
<1>3. CASE Resume
  BY <1>3, ResumeLoop, RestData DEF Resume
<1>4. CASE Frame
  BY <1>4, FrameLoop, RestData DEF Frame
<1>5. CASE EndBatch
  BY <1>5, EndBatchLoop, RestData DEF EndBatch
<1>6. CASE PrintOn
  <2>1. Steps /\ After(m)
    BY <1>6 DEF PrintOn, SendChar
  <2>2. m.thrown \in BOOLEAN
    BY RxType, Fields
  <2> QED
    BY <1>6, <2>1, <2>2, AfterLoop, PrintOnData
<1>7. ASSUME NEW key \in scenario.keyboard, KeyDown(key) PROVE IInv'
  BY <1>7, RestLoop, KeyData DEF KeyDown
<1>8. ASSUME NEW line \in scenario.lines, CommandButton(line) PROVE IInv'
  BY <1>8, RestLoop, ButtonData DEF CommandButton
<1>9. ASSUME NEW up \in BOOLEAN, WheelTurn(up) PROVE IInv'
  BY <1>9, RestLoop, WheelData DEF WheelTurn
<1>10. ASSUME NEW e \in scenario.guest, Guest(e) PROVE IInv'
  <2>1. PICK n : n.thrown \in BOOLEAN /\ After(n)
    BY <1>10, GuestAfter
  <2>2. LoopInv'
    BY <1>10, <2>1, AfterLoop DEF Guest
  <2> QED
    BY <1>10, <2>2, GuestData
<1>11. CASE UNCHANGED vars
  BY <1>11, RestLoop, RestData DEF vars
<1> QED
  BY <1>1, <1>2, <1>3, <1>4, <1>5, <1>6, <1>7, <1>8, <1>9, <1>10, <1>11 DEF Next

THEOREM Invariance == Spec => []IInv
  BY InitIInv, StepIInv, PTL DEF Spec

-----------------------------------------------------------------------------
(* The properties.                                                          *)

\* TypeOK: the terminal, the machine and the loop keep their types.
THEOREM TypeCorrect == Spec => []TypeOK
<1>1. IInv => TypeOK
  BY DEF IInv, LoopInv, DataInv, TypeOK
<1> QED
  BY <1>1, Invariance, PTL

\* OneLoop: never a second loop, whatever the buttons, the frames and exceptions.
THEOREM NeverTwoLoops == Spec => []OneLoop
<1>1. IInv => OneLoop
  BY DEF IInv, LoopInv
<1> QED
  BY <1>1, Invariance, PTL

\* KeysInOrder: the guest reads what was typed, in order.
THEOREM KeysReachGuest == Spec => []KeysInOrder
<1>1. IInv => KeysInOrder
  BY DEF IInv, DataInv
<1> QED
  BY <1>1, Invariance, PTL

\* CursorOnItsRow: the cursor is painted where the next character goes.
THEOREM CursorInPlace == Spec => []CursorOnItsRow
<1>1. ASSUME IInv PROVE CursorOnItsRow
  <2> SUFFICES ASSUME NEW y \in 0 .. Rows - 1
               PROVE  y \in CursorLines(term) <=>
                        term.x < Cols /\ ViewRow(term, y) = [of |-> "buffer", at |-> term.y]
    BY DEF CursorOnItsRow
  <2> DEFINE n == Len(term.scrollback)
             f == term.off
  <2>1. n \in Nat /\ f \in Nat /\ term.y \in 0 .. Rows - 1 /\ Rows \in Nat
    BY <1>1, TerminalAssumption DEF IInv, DataInv, TerminalType, Terminals
  <2>2. y \in CursorLines(term) <=> term.x < Cols /\ y = term.y + f
    BY DEF CursorLines
  <2>4. CASE y < f
    <3>0. n - f + y < n
      BY <2>1, <2>4
    <3>1. ViewRow(term, y) = [of |-> "scrollback", at |-> n - f + y]
      BY <3>0 DEF ViewRow
    <3>2. [of |-> "scrollback", at |-> n - f + y].of # [of |-> "buffer", at |-> term.y].of
      OBVIOUS
    <3>3. y # term.y + f
      BY <2>1, <2>4
    <3> QED
      BY <2>2, <3>1, <3>2, <3>3, Zenon
  <2>5. CASE ~(y < f)
    <3>1. ~(n - f + y < n)
      BY <2>1, <2>5
    <3>5. n - f + y - n = y - f
      BY <2>1
    <3>2. ViewRow(term, y) = [of |-> "buffer", at |-> n - f + y - n]
      BY <2>1, <3>1 DEF ViewRow
    <3>3. y - f = term.y <=> y = term.y + f
      BY <2>1
    <3>4. ViewRow(term, y) = [of |-> "buffer", at |-> term.y] <=> y - f = term.y
      <4>1. ViewRow(term, y) = [of |-> "buffer", at |-> y - f]
        BY <3>5, <3>2
      <4>2. [of |-> "buffer", at |-> y - f].at = y - f
            /\ [of |-> "buffer", at |-> term.y].at = term.y
        OBVIOUS
      <4> QED
        BY <4>1, <4>2
    <3> QED
      BY <2>2, <3>3, <3>4
  <2> QED
    BY <2>4, <2>5
<1> QED
  BY <1>1, Invariance, PTL

\* What is written to the terminal leaves the history under the reader's eyes.
LEMMA CharStays ==
  ASSUME TerminalType(term), term.off > 0, NEW ch \in Chars, term' = WriteChar(term, ch)
  PROVE  \/ Cleared(term)'
         \/ \A y \in Drop(term, term') .. Smaller(Rows, term.off) - 1 :
              Shown(term', y - Drop(term, term')) = Shown(term, y)
<1>1. Moves(term, term')
  BY WriteCharMoves
<1>2. TerminalType(term')
  BY WriteCharType
<1>3. CASE Cleared(term')
  BY <1>3
<1>4. CASE Still(term, term') \/ Scrolled(term, term')
  BY <1>2, <1>4, HistoryStays
<1> QED
  BY <1>1, <1>3, <1>4 DEF Moves

LEMMA StepView ==
  ASSUME IInv, [Next]_vars, <<outs, sending>>' # <<outs, sending>>, term.off > 0
  PROVE  \/ Cleared(term)'
         \/ \A y \in Drop(term, term') .. Smaller(Rows, term.off) - 1 :
              Shown(term', y - Drop(term, term')) = Shown(term, y)
<1>1. TerminalType(term) /\ \A e \in scenario.guest : IsAccess(e)
  BY ScenarioIs DEF IInv, DataInv
<1>2. ASSUME NEW text \in Seq(Chars), text # <<>>, SendChar(text)
      PROVE  \/ Cleared(term)'
             \/ \A y \in Drop(term, term') .. Smaller(Rows, term.off) - 1 :
                  Shown(term', y - Drop(term, term')) = Shown(term, y)
  <2>1. Head(text) \in Chars
    BY <1>2, HeadTailProperties
  <2>2. term' = WriteChar(term, Head(text))
    BY <1>2 DEF SendChar
  <2> QED
    BY <1>1, <2>1, <2>2, CharStays
<1>3. CASE Reset
  <2>1. Cleared(term')
    BY <1>1, <1>3 DEF Reset, Clear, Cleared, TerminalType, Terminals
  <2> QED
    BY <2>1
<1>4. CASE PrintOn
  <2>1. sending \in Seq(Chars) /\ sending # <<>> /\ SendChar(sending)
    BY <1>4 DEF PrintOn, IInv, DataInv
  <2> QED
    BY <1>2, <2>1
<1>5. ASSUME NEW e \in scenario.guest, Guest(e), Transmit(e)
      PROVE  \/ Cleared(term)'
             \/ \A y \in Drop(term, term') .. Smaller(Rows, term.off) - 1 :
                  Shown(term', y - Drop(term, term')) = Shown(term, y)
  <2>1. e.str \in Seq(Chars) /\ e.str # <<>> /\ SendChar(e.str)
    BY <1>1, <1>5, AccessIs DEF Transmit
  <2> QED
    BY <1>2, <2>1
<1>6. ASSUME NEW e \in scenario.guest, Guest(e), ~Transmit(e)
      PROVE  UNCHANGED <<outs, sending>>
  BY <1>6 DEF Guest, Receive, Register, StoreWord, Compute
<1>7. CASE Pause \/ Resume \/ Frame \/ EndBatch \/ UNCHANGED vars
  BY <1>7 DEF Pause, Resume, Frame, EndBatch, vars, uses
<1>8. ASSUME NEW key, KeyDown(key) PROVE UNCHANGED <<outs, sending>>
  BY <1>8 DEF KeyDown
<1>9. ASSUME NEW line, CommandButton(line) PROVE UNCHANGED <<outs, sending>>
  BY <1>9 DEF CommandButton
<1>10. ASSUME NEW up, WheelTurn(up) PROVE UNCHANGED <<outs, sending>>
  BY <1>10 DEF WheelTurn, uses
<1> QED
  BY <1>3, <1>4, <1>5, <1>6, <1>7, <1>8, <1>9, <1>10 DEF Next

\* ViewStays: output does not move the history that is being read.
THEOREM ViewAnchored == Spec => ViewStays
<1>1. IInv /\ [Next]_vars =>
        [<<outs, sending>>' # <<outs, sending>> /\ term.off > 0 =>
           LET top == term.off = MaxScrollback /\ term'.scrollback # term.scrollback
               drop == IF top THEN 1 ELSE 0
           IN  \/ term'.off = 0 /\ term'.buffer = BlankScreen
               \/ \A y \in drop .. Smaller(Rows, term.off) - 1 :
                    Shown(term', y - drop) = Shown(term, y)]_vars
  BY StepView DEF Cleared, Drop, Top
<1> QED
  BY <1>1, Invariance, PTL DEF Spec, ViewStays

\* A command of the block device, whatever the machine had done before.
LEMMA CommandMoves ==
  ASSUME NEW n \in Machines, NEW cmd, NEW u, u = [BlkExec(n, cmd) EXCEPT !.thrown = FALSE]
  PROVE  Whole(n, cmd, u)
<1> DEFINE window == {n.blk.dma + i : i \in 0 .. SectorWords - 1}
           words == {n.blk.sector * SectorWords + i : i \in 0 .. SectorWords - 1}
<1> SUFFICES /\ u.blk.status = 3 => u.ram = n.ram /\ u.disk = n.disk
             /\ u.blk.status = 2 /\ window \cap Windows = {} =>
                  /\ \A i \in 0 .. SectorWords - 1 :
                       u.ram[n.blk.dma + i] = u.disk[n.blk.sector * SectorWords + i]
                  /\ IF cmd = 1
                     THEN u.disk = n.disk /\ \A a \in DOMAIN n.ram \ window : u.ram[a] = n.ram[a]
                     ELSE u.ram = n.ram /\ \A a \in DOMAIN n.disk \ words : u.disk[a] = n.disk[a]
  BY Zenon DEF Whole
<1> DEFINE v == BlkExec(n, cmd)
<1>1. v \in Machines
  BY BlkExecAlike DEF Alike
<1>2. u.ram = v.ram /\ u.disk = v.disk /\ u.blk = v.blk
  <2> HIDE DEF v
  <2>1. u = [v EXCEPT !.thrown = FALSE]
    BY DEF v
  <2> QED
    BY <1>1, <2>1 DEF Machines
<1>3. CASE v = [n EXCEPT !.blk.status = 3]
  <2>1. v.ram = n.ram /\ v.disk = n.disk /\ v.blk.status = 3
    BY <1>3, Fields DEF Machines, Blk
  <2> HIDE DEF v
  <2> QED
    BY <1>2, <2>1
<1>4. CASE n.blk.sector < Sectors /\ cmd \in {1, 2} /\ v = Transfer(n, cmd)
  <2>1. v.blk.status \in {1, 2}
    BY <1>4, TransferStatus
  <2> HIDE DEF v
  <2>2. u.blk.status # 3
    BY <1>2, <2>1
  <2> SUFFICES ASSUME u.blk.status = 2, window \cap Windows = {}
               PROVE  /\ \A i \in 0 .. SectorWords - 1 :
                           u.ram[n.blk.dma + i] = u.disk[n.blk.sector * SectorWords + i]
                      /\ IF cmd = 1
                         THEN /\ u.disk = n.disk
                              /\ \A a \in DOMAIN n.ram \ window : u.ram[a] = n.ram[a]
                         ELSE /\ u.ram = n.ram
                              /\ \A a \in DOMAIN n.disk \ words : u.disk[a] = n.disk[a]
    BY <2>2
  <2>3. v.blk.status = 2 /\ \A i \in 0 .. SectorWords - 1 : n.blk.dma + i \notin Windows
    BY <1>2
  <2>4. DOMAIN n.ram = 0 .. RamWords - 1 /\ DOMAIN n.disk = 0 .. Sectors * SectorWords - 1
    BY Fields DEF Ram, Disk
  <2>5. CASE cmd = 1
    <3>1. v = Transfer(n, 1)
      BY <1>4, <2>5
    <3>2. /\ v.disk = n.disk
          /\ \A i \in 0 .. SectorWords - 1 :
               v.ram[n.blk.dma + i] = n.disk[n.blk.sector * SectorWords + i]
          /\ \A a \in 0 .. RamWords - 1 :
               (\A i \in 0 .. SectorWords - 1 : a # n.blk.dma + i) => v.ram[a] = n.ram[a]
      BY <1>4, <2>3, <3>1, ReadWhole
    <3> QED
      BY <1>2, <2>4, <2>5, <3>2
  <2>6. CASE cmd = 2
    <3>1. v = Transfer(n, 2)
      BY <1>4, <2>6
    <3>2. /\ v.ram = n.ram
          /\ \A i \in 0 .. SectorWords - 1 :
               v.disk[n.blk.sector * SectorWords + i] = n.ram[n.blk.dma + i]
          /\ \A a \in 0 .. Sectors * SectorWords - 1 :
               (\A i \in 0 .. SectorWords - 1 : a # n.blk.sector * SectorWords + i) =>
                 v.disk[a] = n.disk[a]
      BY <1>4, <2>3, <3>1, WriteWhole
    <3> QED
      BY <1>2, <2>4, <2>6, <3>2
  <2> QED
    BY <1>4, <2>5, <2>6
<1> QED
  BY <1>3, <1>4, BlkExecIs

\* TransferWhole: a command moves its whole sector and nothing else, or reports why.
THEOREM CommandsAreWhole == Spec => TransferWhole
<1>1. ASSUME IInv, NEW e \in scenario.guest, e.op = "reg", Guest(e), e.reg = "command"
      PROVE  m \in Machines /\ m' = [BlkExec(m, e.val) EXCEPT !.thrown = FALSE]
  <2>1. Register(e)
    BY <1>1 DEF Guest, Transmit, Receive, StoreWord, Compute
  <2>2. m' = [StoreReg(m, e.reg, e.val) EXCEPT !.thrown = FALSE]
    BY <2>1 DEF Register, After
  <2>3. StoreReg(m, e.reg, e.val) = BlkExec(m, e.val)
    BY <1>1 DEF StoreReg
  <2> QED
    BY <1>1, <2>2, <2>3, RxType DEF IInv
<1>2. IInv => \A e \in scenario.guest :
                e.op = "reg" /\ e.reg = "command" /\ Guest(e) => Whole(m, e.val, m')
  BY <1>1, CommandMoves
<1> QED
  BY <1>2, Invariance, PTL DEF Spec, TransferWhole

-----------------------------------------------------------------------------
(* Command buffers.                                                         *)

\* The words of a command are the words of memory from a on, and the picture a blit
\* reads is the one the list was made for.
Holds(n, a, cmd) ==
  /\ \A j \in 0 .. Len(cmd) - 1 : InRam(a + j) /\ n.ram[a + j] = cmd[j + 1]
  /\ cmd[1] = 3 => \A k \in 0 .. Above(0, cmd[5]) * Above(0, cmd[6]) - 1 :
                     InRam(cmd[2] + k) /\ n.ram[cmd[2] + k] = m.ram[cmd[2] + k]

\* u is n after the command.
Drawn(n, u, cmd) ==
  /\ u \in Paints(n)
  /\ \A i \in 1 .. Len(n.gpu.fb) :
       u.gpu.fb[i] = Meaning(cmd, Column(n, i), Line(n, i), n.gpu.fb[i])

WholeCommand(cmd) ==
  /\ cmd \in Seq(Int) /\ cmd # <<>> /\ cmd[1] \in 1 .. 4 /\ Len(cmd) = 1 + Operands[cmd[1]]

LEMMA CommandLength ==
  ASSUME NEW cmd, WholeCommand(cmd)
  PROVE  /\ cmd[1] \in {1, 2, 3, 4} /\ \A j \in 1 .. Len(cmd) : cmd[j] \in Int
         /\ cmd[1] = 1 => Len(cmd) = 2
         /\ cmd[1] = 2 => Len(cmd) = 6
         /\ cmd[1] = 3 => Len(cmd) = 6
         /\ cmd[1] = 4 => Len(cmd) = 5
<1>1. cmd \in Seq(Int) /\ cmd[1] \in 1 .. 4 /\ Len(cmd) = 1 + Operands[cmd[1]]
  BY DEF WholeCommand
<1>2. Operands[1] = 1 /\ Operands[2] = 5 /\ Operands[3] = 5 /\ Operands[4] = 4
  BY DEF Operands
<1>3. cmd[1] = 1 \/ cmd[1] = 2 \/ cmd[1] = 3 \/ cmd[1] = 4
  BY <1>1
<1>4. \A j \in 1 .. Len(cmd) : cmd[j] \in Int
  BY <1>1
<1>5. /\ cmd[1] = 1 => Len(cmd) = 2
      /\ cmd[1] = 2 => Len(cmd) = 6
      /\ cmd[1] = 3 => Len(cmd) = 6
      /\ cmd[1] = 4 => Len(cmd) = 5
  BY <1>1, <1>2
<1> QED
  BY <1>3, <1>4, <1>5

LEMMA FillDraws ==
  ASSUME NEW n \in Machines, NEW cmd, cmd[1] = 1, cmd[2] \in Int
  PROVE  Drawn(n, FillAll(n, cmd[2]), cmd)
<1> DEFINE u == FillAll(n, cmd[2])
<1>1. u \in Paints(n) /\ \A i \in 1 .. Len(n.gpu.fb) : u.gpu.fb[i] = cmd[2]
  BY FillPaints
<1>2. \A x, y, c : Meaning(cmd, x, y, c) = cmd[2]
  BY DEF Meaning
<1> HIDE DEF u
<1>3. Drawn(n, u, cmd)
  BY <1>1, <1>2 DEF Drawn
<1> QED
  BY <1>3 DEF u

LEMMA RectDraws ==
  ASSUME NEW n \in Machines, WholeScreen(n), NEW cmd, cmd[1] = 2,
         cmd[2] \in Int, cmd[3] \in Int, cmd[4] \in Int, cmd[5] \in Int, cmd[6] \in Int
  PROVE  Drawn(n, DrawRect(n, cmd[2], cmd[3], cmd[4], cmd[5], cmd[6]), cmd)
<1> DEFINE x == cmd[2]
           y == cmd[3]
           w == cmd[4]
           h == cmd[5]
           c == cmd[6]
           u == DrawRect(n, x, y, w, h, c)
<1>1. x \in Int /\ y \in Int /\ w \in Int /\ h \in Int /\ c \in Int
  OBVIOUS
<1>2. \A p, q, d : Meaning(cmd, p, q, d) =
        IF x <= p /\ p < x + w /\ y <= q /\ q < y + h THEN c ELSE d
  BY DEF Meaning
<1> HIDE DEF x, y, w, h, c
<1>3. u \in Paints(n)
  BY <1>1, RectPaints
<1>4. \A i \in 1 .. Len(n.gpu.fb) :
        u.gpu.fb[i] = IF /\ x <= Column(n, i) /\ Column(n, i) < x + w
                         /\ y <= Line(n, i) /\ Line(n, i) < y + h
                      THEN c ELSE n.gpu.fb[i]
  BY <1>1, RectPaints
<1> HIDE DEF u
<1>5. Drawn(n, u, cmd)
  BY <1>2, <1>3, <1>4 DEF Drawn
<1> QED
  BY <1>5 DEF u, x, y, w, h, c

LEMMA ComputeDraws ==
  ASSUME NEW n \in Machines, NEW cmd, cmd[1] = 4, cmd[2] \in Int
  PROVE  Drawn(n, DispatchCompute(n, cmd[2]), cmd)
<1> DEFINE u == DispatchCompute(n, cmd[2])
<1>1. u = IF cmd[2] \in {1, 2} THEN FillAll(n, Art) ELSE n
  BY DEF DispatchCompute
<1>2. \A x, y, c : Meaning(cmd, x, y, c) = IF cmd[2] \in {1, 2} THEN Art ELSE c
  BY DEF Meaning
<1>3. Art \in Int
  BY DevicesAssumption
<1>4. FillAll(n, Art) \in Paints(n) /\ \A i \in 1 .. Len(n.gpu.fb) : FillAll(n, Art).gpu.fb[i] = Art
  BY <1>3, FillPaints
<1>5. n \in Paints(n)
  BY PaintsSelf
<1> HIDE DEF u
<1>6. CASE cmd[2] \in {1, 2}
  <2>1. u = FillAll(n, Art)
    BY <1>1, <1>6
  <2>2. \A x, y, c : Meaning(cmd, x, y, c) = Art
    BY <1>2, <1>6
  <2> QED
    BY <1>4, <2>1, <2>2 DEF Drawn, u
<1>7. CASE cmd[2] \notin {1, 2}
  <2>1. u = n
    BY <1>1, <1>7
  <2>2. \A x, y, c : Meaning(cmd, x, y, c) = c
    BY <1>2, <1>7
  <2> QED
    BY <1>5, <2>1, <2>2 DEF Drawn, u
<1> QED
  BY <1>6, <1>7 DEF u

LEMMA AboveNone ==
  ASSUME NEW w \in Int, w > 0
  PROVE  w \in Nat \ {0} /\ Above(0, w) = w
BY DEF Above

LEMMA BlitDraws ==
  ASSUME NEW n \in Machines, WholeScreen(n), ~n.thrown, NEW cmd, cmd[1] = 3,
         cmd[2] \in Int, cmd[3] \in Int, cmd[4] \in Int, cmd[5] \in Int, cmd[6] \in Int,
         \A k \in 0 .. Above(0, cmd[5]) * Above(0, cmd[6]) - 1 :
           InRam(cmd[2] + k) /\ n.ram[cmd[2] + k] = m.ram[cmd[2] + k]
  PROVE  Drawn(n, Blit(n, cmd[2], cmd[3], cmd[4], cmd[5], cmd[6]), cmd)
<1> DEFINE src == cmd[2]
           x == cmd[3]
           y == cmd[4]
           w == cmd[5]
           h == cmd[6]
           u == Blit(n, src, x, y, w, h)
<1>1. src \in Int /\ x \in Int /\ y \in Int /\ w \in Int /\ h \in Int
  OBVIOUS
<1>2. \A k \in 0 .. Above(0, w) * Above(0, h) - 1 :
        InRam(src + k) /\ n.ram[src + k] = m.ram[src + k]
  OBVIOUS
<1>3. \A p, q, c : Meaning(cmd, p, q, c) =
        IF x <= p /\ p < x + w /\ y <= q /\ q < y + h
        THEN m.ram[src + (q - y) * w + (p - x)] ELSE c
  BY DEF Meaning
<1> HIDE DEF src, x, y, w, h
<1>4. /\ u \in Paints(n)
      /\ \A i \in 1 .. Len(n.gpu.fb) :
           u.gpu.fb[i] = IF InPicture(n, i, x, y, w, h)
                         THEN n.ram[src + Place(n, i, x, y, w)] ELSE n.gpu.fb[i]
  BY <1>1, <1>2, BlitPaints, SMTT(30)
<1> HIDE DEF u
<1>5. ASSUME NEW i \in 1 .. Len(n.gpu.fb)
      PROVE  u.gpu.fb[i] = Meaning(cmd, Column(n, i), Line(n, i), n.gpu.fb[i])
  <2> DEFINE p == Column(n, i)
             q == Line(n, i)
             r == Place(n, i, x, y, w)
  <2>1. p \in Nat /\ q \in Nat
    BY PixelNat
  <2>2. InPicture(n, i, x, y, w, h) <=> x <= p /\ p < x + w /\ y <= q /\ q < y + h
    BY DEF InPicture
  <2>3. CASE InPicture(n, i, x, y, w, h)
    <3> HIDE DEF r
    <3>1. w > 0 /\ h > 0
      <4> HIDE DEF p, q
      <4> QED
        BY <1>1, <2>1, <2>2, <2>3
    <3>2. w \in Nat \ {0} /\ h \in Nat \ {0} /\ Above(0, w) = w /\ Above(0, h) = h
      BY <1>1, <3>1, AboveNone
    <3>3. r \in 0 .. w * h - 1
      BY <1>1, <2>3, <3>2, PlaceIs DEF r
    <3>4. n.ram[src + r] = m.ram[src + r]
      BY <1>2, <3>2, <3>3
    <3>5. src + r = src + (q - y) * w + (p - x)
      <4> DEFINE d == (q - y) * w
                 e == p - x
      <4>1. r = d + e
        BY DEF r, Place
      <4>2. d \in Int /\ e \in Int
        <5>1. q - y \in Int /\ e \in Int
          <6> HIDE DEF p, q
          <6> QED
            BY <1>1, <2>1
        <5>2. \A a, b \in Int : a * b \in Int
          OBVIOUS
        <5> HIDE DEF e, p, q
        <5> QED
          BY <1>1, <5>1, <5>2
      <4>3. src + r = src + d + e
        <5> HIDE DEF d, e
        <5> QED
          BY <1>1, <4>1, <4>2
      <4> QED
        BY <4>3
    <3> DEFINE z == src + (q - y) * w + (p - x)
    <3>6. Meaning(cmd, p, q, n.gpu.fb[i]) = m.ram[z]
      <4> HIDE DEF p, q
      <4> QED
        BY <1>3, <2>2, <2>3
    <3>7. u.gpu.fb[i] = n.ram[src + r]
      BY <1>4, <2>3 DEF r
    <3>8. src + r = z
      BY <3>5
    <3> HIDE DEF z
    <3> QED
      BY <3>4, <3>6, <3>7, <3>8
  <2>4. CASE ~InPicture(n, i, x, y, w, h)
    <3>1. u.gpu.fb[i] = n.gpu.fb[i]
      BY <1>4, <2>4
    <3> HIDE DEF p, q
    <3>2. Meaning(cmd, p, q, n.gpu.fb[i]) = n.gpu.fb[i]
      BY <1>3, <2>2, <2>4
    <3> QED
      BY <3>1, <3>2 DEF p, q
  <2> QED
    BY <2>3, <2>4
<1>6. Drawn(n, u, cmd)
  BY <1>4, <1>5 DEF Drawn
<1> QED
  BY <1>6 DEF u, src, x, y, w, h

\* The command that begins where the loop stands is carried out whole, and the loop
\* goes on behind it.
LEMMA CommandDraws ==
  ASSUME NEW d, NEW n \in Machines, d.m = n, d.at \in Nat, WholeScreen(n), ~n.thrown,
         NEW cmd, WholeCommand(cmd), Holds(n, n.gpu.cmd + d.at, cmd)
  PROVE  /\ Command(d).on = TRUE /\ Command(d).at = d.at + Len(cmd)
         /\ Drawn(n, Command(d).m, cmd)
<1> DEFINE a == n.gpu.cmd + d.at
           op == BusRead(n, a)
           p(i) == BusRead(n, a + i)
           k == IF op \in DOMAIN Operands THEN Operands[op] ELSE 0
           after == CASE op = 1 -> FillAll(n, p(1))
                      [] op = 2 -> DrawRect(n, p(1), p(2), p(3), p(4), p(5))
                      [] op = 3 -> Blit(n, p(1), p(2), p(3), p(4), p(5))
                      [] op = 4 -> DispatchCompute(n, p(1))
                      [] op = 5 -> Present(n)
                      [] OTHER -> n
           on == op \in DOMAIN Operands /\ ~after.thrown
<1>1. Command(d) = IF \E i \in 0 .. k : Throws(a + i)
                   THEN [d EXCEPT !.m.thrown = TRUE, !.on = FALSE]
                   ELSE [m |-> after, at |-> d.at + 1 + k, on |-> on]
  BY DEF Command
<1>2. n.gpu.cmd \in Nat /\ a \in Nat
  <2>1. n.gpu.cmd \in Nat
    BY Fields
  <2> QED
    BY <2>1
<1>3. /\ cmd[1] \in {1, 2, 3, 4} /\ \A j \in 1 .. Len(cmd) : cmd[j] \in Int
      /\ cmd[1] = 1 => Len(cmd) = 2
      /\ cmd[1] = 2 => Len(cmd) = 6
      /\ cmd[1] = 3 => Len(cmd) = 6
      /\ cmd[1] = 4 => Len(cmd) = 5
  BY CommandLength
<1>4. \A j \in 0 .. Len(cmd) - 1 : InRam(a + j) /\ n.ram[a + j] = cmd[j + 1]
  BY DEF Holds
<1> HIDE DEF a
<1>5. Len(cmd) \in {2, 5, 6} /\ 1 \in 1 .. Len(cmd) - 1 /\ 1 + 1 = 2 /\ cmd[2] \in Int
  <2> DEFINE l == Len(cmd)
  <2>1. l = 2 \/ l = 5 \/ l = 6
    BY <1>3
  <2> HIDE DEF l
  <2>2. 1 \in 1 .. l - 1 /\ 2 \in 1 .. l
    <3>1. 1 \in 1 .. 2 - 1 /\ 2 \in 1 .. 2 /\ 1 \in 1 .. 5 - 1 /\ 2 \in 1 .. 5
          /\ 1 \in 1 .. 6 - 1 /\ 2 \in 1 .. 6
      OBVIOUS
    <3> QED
      BY <2>1, <3>1
  <2>3. cmd[2] \in Int
    BY <1>3, <2>2 DEF l
  <2> QED
    BY <2>1, <2>2, <2>3 DEF l
<1>6. ASSUME NEW j \in 0 .. Len(cmd) - 1
      PROVE  BusRead(n, a + j) = cmd[j + 1] /\ ~Throws(a + j)
  BY <1>4 DEF BusRead, Throws
<1>7. op = cmd[1]
  <2>1. BusRead(n, a + 0) = cmd[0 + 1]
    BY <1>5, <1>6
  <2>2. a + 0 = a /\ 0 + 1 = 1
    BY <1>2
  <2> QED
    BY <2>1, <2>2
<1>8. \A i \in 1 .. Len(cmd) - 1 : p(i) = cmd[i + 1] /\ cmd[i + 1] \in Int
  <2> SUFFICES ASSUME NEW i \in 1 .. Len(cmd) - 1
               PROVE  p(i) = cmd[i + 1] /\ cmd[i + 1] \in Int
    OBVIOUS
  <2>1. i \in 0 .. Len(cmd) - 1 /\ i + 1 \in 1 .. Len(cmd)
    BY <1>5
  <2> QED
    BY <1>3, <1>6, <2>1
<1>9. k = Len(cmd) - 1 /\ op \in DOMAIN Operands
  <2>1. DOMAIN Operands = 1 .. 5
    BY DEF Operands
  <2>2. op \in 1 .. 5 /\ Len(cmd) = 1 + Operands[op]
    BY <1>7 DEF WholeCommand
  <2>3. Operands[op] \in Nat
    BY <2>2 DEF Operands
  <2> HIDE DEF op
  <2>4. k = Operands[op]
    BY <2>1, <2>2
  <2> HIDE DEF k
  <2> QED
    BY <2>1, <2>2, <2>3, <2>4
<1> HIDE DEF op, p, k
<1>10. ~ \E i \in 0 .. k : Throws(a + i)
  BY <1>5, <1>6, <1>9
<1>11. after \in Paints(n) /\ Drawn(n, after, cmd)
  <2>1. CASE cmd[1] = 1
    <3>1. after = FillAll(n, cmd[2])
      <4>2. p(1) = cmd[2]
        BY <1>5, <1>8
      <4> QED
        BY <1>7, <2>1, <4>2
    <3>2. cmd[2] \in Int
      BY <1>5
    <3> HIDE DEF after
    <3>3. Drawn(n, FillAll(n, cmd[2]), cmd)
      BY <2>1, <3>2, FillDraws
    <3> QED
      BY <3>1, <3>3 DEF Drawn
  <2>2. CASE cmd[1] \in {2, 3}
    <3>1. /\ p(1) = cmd[2] /\ p(2) = cmd[3] /\ p(3) = cmd[4] /\ p(4) = cmd[5] /\ p(5) = cmd[6]
      <4>1. Len(cmd) = 6
        BY <1>3, <2>2
      <4>2. \A i \in 1 .. 5 : p(i) = cmd[i + 1]
        BY <1>8, <4>1
      <4> QED
        BY <4>2
    <3>2. cmd[2] \in Int /\ cmd[3] \in Int /\ cmd[4] \in Int /\ cmd[5] \in Int /\ cmd[6] \in Int
      BY <1>3, <2>2
    <3>3. CASE cmd[1] = 2
      <4>1. after = DrawRect(n, cmd[2], cmd[3], cmd[4], cmd[5], cmd[6])
        BY <1>7, <3>1, <3>3
      <4>2. Drawn(n, DrawRect(n, cmd[2], cmd[3], cmd[4], cmd[5], cmd[6]), cmd)
        BY <3>2, <3>3, RectDraws
      <4> HIDE DEF after
      <4> QED
        BY <4>1, <4>2 DEF Drawn
    <3>4. CASE cmd[1] = 3
      <4>1. after = Blit(n, cmd[2], cmd[3], cmd[4], cmd[5], cmd[6])
        BY <1>7, <3>1, <3>4
      <4>2. \A q \in 0 .. Above(0, cmd[5]) * Above(0, cmd[6]) - 1 :
              InRam(cmd[2] + q) /\ n.ram[cmd[2] + q] = m.ram[cmd[2] + q]
        BY <3>4 DEF Holds
      <4>3. Drawn(n, Blit(n, cmd[2], cmd[3], cmd[4], cmd[5], cmd[6]), cmd)
        BY <3>2, <3>4, <4>2, BlitDraws
      <4> HIDE DEF after
      <4> QED
        BY <4>1, <4>3 DEF Drawn
    <3> QED
      BY <2>2, <3>3, <3>4
  <2>3. CASE cmd[1] = 4
    <3>1. after = DispatchCompute(n, cmd[2])
      <4>2. p(1) = cmd[2]
        BY <1>5, <1>8
      <4> QED
        BY <1>7, <2>3, <4>2
    <3>2. cmd[2] \in Int
      BY <1>5
    <3> HIDE DEF after
    <3>3. Drawn(n, DispatchCompute(n, cmd[2]), cmd)
      BY <2>3, <3>2, ComputeDraws
    <3> QED
      BY <3>1, <3>3 DEF Drawn
  <2> QED
    BY <1>3, <2>1, <2>2, <2>3
<1> HIDE DEF after
<1>12. after.thrown = FALSE
  BY <1>11, Fields DEF Paints, Alike
<1>13. on = TRUE
  BY <1>9, <1>12
<1>14. d.at + 1 + k = d.at + Len(cmd)
  <2> DEFINE l == Len(cmd)
  <2>1. l \in Nat /\ k = l - 1
    BY <1>5, <1>9
  <2> HIDE DEF l
  <2>2. d.at + 1 + k = d.at + l
    BY <2>1
  <2> QED
    BY <2>2 DEF l
<1> HIDE DEF on
<1>15. Command(d) = [m |-> after, at |-> d.at + 1 + k, on |-> on]
  BY <1>1, <1>10
<1> QED
  BY <1>11, <1>13, <1>14, <1>15

\* The words of the first commands of a list.
Heads(list) ==
  {g \in [0 .. Len(list) -> Seq(Int)] :
     g[0] = <<>> /\ \A k \in 0 .. Len(list) - 1 : g[k + 1] = g[k] \o list[k + 1]}

LEMMA FlattenIs ==
  ASSUME NEW list \in Seq(Seq(Int))
  PROVE  \E g \in Heads(list) : FlattenSeq(list) = g[Len(list)]
<1> DEFINE n == Len(list)
           S == Seq(Int)
           b == <<>>
           F == [k \in Nat |-> [s \in S |-> IF k < n THEN s \o list[k + 1] ELSE s]]
           Is(f) == f = [i \in 1 .. n |-> IF i = 1 THEN list[i] ELSE f[i - 1] \o list[i]]
           flatten == CHOOSE f : Is(f)
<1>1. n \in Nat /\ b \in S /\ \A k \in 1 .. n : list[k] \in S
  OBVIOUS
<1>2. F \in [Nat -> [S -> S]]
  <2>1. ASSUME NEW k \in Nat, NEW s \in S PROVE (IF k < n THEN s \o list[k + 1] ELSE s) \in S
    <3>1. CASE k < n
      <4>1. k + 1 \in 1 .. n
        BY <1>1, <3>1
      <4>2. list[k + 1] \in Seq(Int)
        BY <1>1, <4>1
      <4>3. s \o list[k + 1] \in Seq(Int)
        BY <4>2, ConcatProperties
      <4> QED
        BY <3>1, <4>3
    <3>2. CASE ~(k < n)
      BY <3>2
    <3> QED
      BY <3>1, <3>2
  <2> HIDE DEF S, n
  <2> QED
    BY <2>1
<1>3. PICK g : g \in Runs(S, F, b, n)
  <2> HIDE DEF F, n, b, S
  <2>1. Runs(S, F, b, n) # {}
    BY <1>1, <1>2, RunsExist
  <2> QED
    BY <2>1
<1>4. g \in [0 .. n -> S] /\ g[0] = <<>>
  <2> HIDE DEF F, S, n
  <2> QED
    BY <1>3 DEF Runs
<1>5. ASSUME NEW k \in 0 .. n - 1 PROVE g[k + 1] = g[k] \o list[k + 1]
  <2>1. g[k + 1] = F[k][g[k]] /\ g[k] \in S
    <3>1. k \in 0 .. n
      BY <1>1
    <3> HIDE DEF F, S, n
    <3> QED
      BY <1>3, <1>4, <3>1 DEF Runs
  <2>2. k \in Nat /\ k < n
    BY <1>1
  <2> HIDE DEF S, n
  <2> QED
    BY <2>1, <2>2
<1>6. g \in Heads(list)
  BY <1>4, <1>5 DEF Heads
<1>7. CASE n = 0
  <2>1. list = <<>>
    BY <1>7
  <2>2. FlattenSeq(list) = <<>>
    BY <2>1, <1>7 DEF FlattenSeq
  <2> QED
    BY <1>4, <1>6, <1>7, <2>2
<1>8. CASE n # 0
  <2> DEFINE h == [i \in 1 .. n |-> g[i]]
  <2>1. Is(h)
    <3>1. ASSUME NEW i \in 1 .. n
          PROVE  h[i] = IF i = 1 THEN list[i] ELSE h[i - 1] \o list[i]
      <4>1. i - 1 \in 0 .. n - 1 /\ (i - 1) + 1 = i
        BY <1>1
      <4>2. g[i] = g[i - 1] \o list[i]
        BY <1>5, <4>1
      <4>3. CASE i = 1
        <5>1. g[i - 1] = <<>>
          BY <1>4, <4>3
        <5>2. <<>> \o list[i] = list[i]
          <6>1. list[i] \in Seq(Int)
            BY <1>1
          <6> QED
            BY <6>1, ConcatEmptySeq
        <5> QED
          BY <4>2, <4>3, <5>1, <5>2
      <4>4. CASE i # 1
        <5>1. i - 1 \in 1 .. n
          BY <1>1, <4>4
        <5>2. h[i - 1] = g[i - 1] /\ h[i] = g[i]
          BY <5>1
        <5> QED
          BY <4>2, <4>4, <5>2
      <4> QED
        BY <4>3, <4>4
    <3>2. h = [i \in 1 .. n |-> h[i]]
      OBVIOUS
    <3> HIDE DEF h, n
    <3> QED
      BY <3>1, <3>2
  <2>2. Is(flatten)
    <3> HIDE DEF Is, h
    <3> QED
      BY <2>1
  <2>3. FlattenSeq(list) = IF n = 0 THEN list ELSE flatten[n]
    BY Zenon DEF FlattenSeq
  <2>4. FlattenSeq(list) = flatten[n]
    <3> HIDE DEF flatten
    <3> QED
      BY <1>8, <2>3
  <2> HIDE DEF flatten
  <2>5. \A i \in 1 .. n : flatten[i] = IF i = 1 THEN list[i] ELSE flatten[i - 1] \o list[i]
    <3> HIDE DEF n
    <3> QED
      BY <2>2
  <2> DEFINE T == {k \in 0 .. n : k # 0 => flatten[k] = g[k]}
  <2>6. 0 \in T
    BY <1>1
  <2>7. ASSUME NEW k \in 0 .. n - 1, k \in T PROVE k + 1 \in T
    <3>1. k + 1 \in 1 .. n /\ k + 1 \in 0 .. n /\ (k + 1) - 1 = k
      BY <1>1
    <3>2. g[k + 1] = g[k] \o list[k + 1]
      BY <1>5
    <3>3. CASE k = 0
      <4>1. flatten[k + 1] = list[k + 1]
        BY <2>5, <3>1, <3>3
      <4>2. <<>> \o list[k + 1] = list[k + 1]
        <5>1. list[k + 1] \in Seq(Int)
          BY <1>1, <3>1
        <5> QED
          BY <5>1, ConcatEmptySeq
      <4>3. g[k] = <<>>
        BY <1>4, <3>3
      <4>4. flatten[k + 1] = g[k + 1]
        BY <3>2, <4>1, <4>2, <4>3
      <4> HIDE DEF n
      <4> QED
        BY <3>1, <4>4
    <3>4. CASE k # 0
      <4>1. flatten[k] = g[k]
        BY <2>7, <3>4
      <4>2. k + 1 # 1
        BY <3>4
      <4>3. flatten[k + 1] = flatten[k] \o list[k + 1]
        BY <2>5, <3>1, <4>2
      <4>4. flatten[k + 1] = g[k + 1]
        BY <3>2, <4>1, <4>3
      <4> HIDE DEF n
      <4> QED
        BY <3>1, <4>4
    <3> QED
      BY <3>3, <3>4
  <2>8. \A k \in 0 .. n : k \in T
    <3> HIDE DEF T
    <3> QED
      BY <1>1, <2>6, <2>7, Induct
  <2>9. flatten[n] = g[n]
    <3>1. n \in T
      <4> HIDE DEF T, n
      <4> QED
        BY <1>1, <2>8
    <3> HIDE DEF n
    <3> QED
      BY <1>8, <3>1
  <2> QED
    BY <1>6, <2>4, <2>9
<1> QED
  BY <1>7, <1>8

LEMMA PrefixStep ==
  ASSUME NEW list \in Seq(Seq(Int)), NEW g \in Heads(list), NEW k \in 0 .. Len(list) - 1
  PROVE  /\ g[k] \in Seq(Int) /\ list[k + 1] \in Seq(Int) /\ g[k + 1] \in Seq(Int)
         /\ Len(g[k]) \in Nat /\ Len(list[k + 1]) \in Nat
         /\ Len(g[k + 1]) = Len(g[k]) + Len(list[k + 1])
         /\ \A j \in 1 .. Len(g[k]) : g[k + 1][j] = g[k][j]
         /\ \A j \in 1 .. Len(list[k + 1]) : g[k + 1][Len(g[k]) + j] = list[k + 1][j]
<1>1. k \in 0 .. Len(list) /\ k + 1 \in 0 .. Len(list) /\ k + 1 \in 1 .. Len(list)
  OBVIOUS
<1>2. g[k] \in Seq(Int) /\ list[k + 1] \in Seq(Int) /\ g[k + 1] = g[k] \o list[k + 1]
  <2>1. /\ g \in [0 .. Len(list) -> Seq(Int)]
        /\ \A i \in 0 .. Len(list) - 1 : g[i + 1] = g[i] \o list[i + 1]
    BY DEF Heads
  <2>2. g[k + 1] = g[k] \o list[k + 1]
    BY <2>1
  <2>3. list[k + 1] \in Seq(Int)
    BY <1>1
  <2> QED
    BY <1>1, <2>1, <2>2, <2>3
<1> DEFINE s == g[k]
           t == list[k + 1]
<1>3. s \in Seq(Int) /\ t \in Seq(Int) /\ g[k + 1] = s \o t
  BY <1>2
<1> HIDE DEF s, t
<1>4. /\ Len(s) \in Nat /\ Len(t) \in Nat /\ s \o t \in Seq(Int)
      /\ Len(s \o t) = Len(s) + Len(t)
      /\ \A j \in 1 .. Len(s) + Len(t) :
           (s \o t)[j] = IF j <= Len(s) THEN s[j] ELSE t[j - Len(s)]
  BY <1>3, ConcatProperties
<1>5. \A j \in 1 .. Len(s) : (s \o t)[j] = s[j]
  BY <1>4
<1>6. ASSUME NEW j \in 1 .. Len(t) PROVE (s \o t)[Len(s) + j] = t[j]
  <2>1. Len(s) + j \in 1 .. Len(s) + Len(t) /\ ~(Len(s) + j <= Len(s)) /\ (Len(s) + j) - Len(s) = j
    BY <1>4
  <2> QED
    BY <1>4, <2>1
<1> QED
  BY <1>3, <1>4, <1>5, <1>6 DEF s, t

\* A command lies in the whole where its prefix ends.
LEMMA CommandAt ==
  ASSUME NEW list \in Seq(Seq(Int)), NEW g \in Heads(list), NEW k \in 0 .. Len(list) - 1
  PROVE  /\ Len(g[k + 1]) <= Len(g[Len(list)])
         /\ \A j \in 1 .. Len(list[k + 1]) : g[Len(list)][Len(g[k]) + j] = list[k + 1][j]
<1> DEFINE n == Len(list)
           p == g[k + 1]
           c == n - (k + 1)
           T == {d \in 0 .. c : /\ Len(p) <= Len(g[k + 1 + d])
                                /\ \A j \in 1 .. Len(p) : g[k + 1 + d][j] = p[j]}
<1>1. n \in Nat /\ c \in Nat /\ k + 1 + c = n /\ k + 1 + 0 = k + 1 /\ k \in Nat
  OBVIOUS
<1>2. p \in Seq(Int) /\ Len(p) \in Nat
  <2>1. p \in Seq(Int)
    BY PrefixStep
  <2> QED
    BY <2>1
<1>3. 0 \in T
  BY <1>1, <1>2
<1>4. ASSUME NEW d \in 0 .. c - 1, d \in T PROVE d + 1 \in T
  <2> DEFINE q == k + 1 + d
  <2>1. q \in 0 .. n - 1 /\ k + 1 + (d + 1) = q + 1 /\ d + 1 \in 0 .. c
    BY <1>1
  <2>2. Len(p) <= Len(g[q]) /\ \A j \in 1 .. Len(p) : g[q][j] = p[j]
    BY <1>4
  <2> HIDE DEF q
  <2>3. /\ Len(g[q]) \in Nat /\ Len(list[q + 1]) \in Nat
        /\ Len(g[q + 1]) = Len(g[q]) + Len(list[q + 1])
        /\ \A j \in 1 .. Len(g[q]) : g[q + 1][j] = g[q][j]
    BY <2>1, PrefixStep
  <2> HIDE DEF p
  <2>4. Len(p) <= Len(g[q + 1])
    <3> DEFINE a == Len(p)
               b == Len(g[q])
               e == Len(list[q + 1])
    <3>1. a \in Nat /\ b \in Nat /\ e \in Nat /\ a <= b /\ Len(g[q + 1]) = b + e
      BY <1>2, <2>2, <2>3
    <3> HIDE DEF a, b, e
    <3>2. a <= b + e
      BY <3>1
    <3> QED
      BY <3>1, <3>2 DEF a
  <2>5. \A j \in 1 .. Len(p) : g[q + 1][j] = p[j]
    BY <1>2, <2>2, <2>3
  <2>6. Len(p) <= Len(g[k + 1 + (d + 1)]) /\ \A j \in 1 .. Len(p) : g[k + 1 + (d + 1)][j] = p[j]
    BY <2>1, <2>4, <2>5
  <2> HIDE DEF c
  <2> QED
    BY <2>1, <2>6
<1>5. c \in T
  <2>1. \A d \in 0 .. c : d \in T
    <3> HIDE DEF T, c
    <3> QED
      BY <1>1, <1>3, <1>4, Induct
  <2> HIDE DEF T, c
  <2> QED
    BY <1>1, <2>1
<1>6. Len(p) <= Len(g[n]) /\ \A j \in 1 .. Len(p) : g[n][j] = p[j]
  <2>1. Len(p) <= Len(g[k + 1 + c]) /\ \A j \in 1 .. Len(p) : g[k + 1 + c][j] = p[j]
    BY <1>5
  <2> HIDE DEF c, p, n
  <2> QED
    BY <1>1, <2>1
<1>7. /\ Len(g[k]) \in Nat /\ Len(list[k + 1]) \in Nat
      /\ Len(p) = Len(g[k]) + Len(list[k + 1])
      /\ \A j \in 1 .. Len(list[k + 1]) : p[Len(g[k]) + j] = list[k + 1][j]
  BY PrefixStep
<1>8. ASSUME NEW j \in 1 .. Len(list[k + 1]) PROVE g[n][Len(g[k]) + j] = list[k + 1][j]
  <2> DEFINE a == Len(g[k])
             b == Len(list[k + 1])
  <2>1. a \in Nat /\ b \in Nat /\ Len(p) = a + b /\ j \in 1 .. b
    BY <1>7
  <2> HIDE DEF a, b, p
  <2>2. a + j \in 1 .. Len(p)
    BY <2>1
  <2>3. g[n][a + j] = p[a + j]
    BY <1>6, <2>2
  <2> QED
    BY <1>7, <2>3 DEF a
<1> QED
  BY <1>6, <1>8

LEMMA StatusPaints ==
  ASSUME NEW n \in Machines, NEW x \in 1 .. 2
  PROVE  [n EXCEPT !.gpu.status = x] \in Paints(n) /\ [n EXCEPT !.gpu.status = x].gpu.fb = n.gpu.fb
<1> DEFINE u == [n EXCEPT !.gpu.status = x]
<1>1. u \in Alike(n)
  BY GpuStatus
<1>2. u.ram = n.ram /\ u.thrown = n.thrown /\ u.gpu = [n.gpu EXCEPT !.status = x]
  BY DEF Machines
<1>3. u.gpu.cmd = n.gpu.cmd /\ u.gpu.len = n.gpu.len /\ u.gpu.fb = n.gpu.fb
  BY <1>2, Fields DEF Gpu
<1> QED
  BY <1>1, <1>2, <1>3 DEF Paints

\* The list lies in memory at the command buffer of r, pictures are those of m.
Loaded(r, list) ==
  /\ r \in Machines /\ WholeScreen(r) /\ ~r.thrown
  /\ list \in Seq(Seq(Int))
  /\ \A k \in 1 .. Len(list) : WholeCommand(list[k])
  /\ r.gpu.len = Len(FlattenSeq(list))
  /\ \A j \in 1 .. r.gpu.len :
       InRam(r.gpu.cmd + j - 1) /\ r.ram[r.gpu.cmd + j - 1] = FlattenSeq(list)[j]
  /\ \A k \in 1 .. Len(list) :
       list[k][1] = 3 =>
         \A i \in 0 .. Above(0, list[k][5]) * Above(0, list[k][6]) - 1 :
           InRam(list[k][2] + i) /\ r.ram[list[k][2] + i] = m.ram[list[k][2] + i]

\* Before the k-th command is carried out: the loop stands at it.
Stands(r, list, g, d, k) ==
  d.on = TRUE /\ d.at = Len(g[k]) /\ d.m \in Paints(r)

LEMMA NextDraws ==
  ASSUME NEW r, NEW list, Loaded(r, list), NEW g \in Heads(list),
         FlattenSeq(list) = g[Len(list)], NEW k \in 0 .. Len(list) - 1,
         NEW d, Stands(r, list, g, d, k)
  PROVE  /\ d.at < r.gpu.len
         /\ Stands(r, list, g, Command(d), k + 1)
         /\ Drawn(d.m, Command(d).m, list[k + 1])
<1> DEFINE n == d.m
           cmd == list[k + 1]
           at == Len(g[k])
           l == Len(cmd)
           len == r.gpu.len
           base == r.gpu.cmd
           words == FlattenSeq(list)
<1>1. r \in Machines /\ list \in Seq(Seq(Int)) /\ WholeScreen(r) /\ ~r.thrown /\ base \in Nat
  BY Fields DEF Loaded
<1>2. n \in Paints(r) /\ d.on = TRUE /\ d.at = at
  BY DEF Stands
<1>3. /\ n \in Machines /\ n.ram = r.ram /\ n.thrown = r.thrown /\ n.gpu.cmd = r.gpu.cmd
      /\ n.gpu.len = r.gpu.len /\ WholeScreen(n)
  BY <1>1, <1>2, PaintsScreen
<1>4. k + 1 \in 1 .. Len(list)
  BY <1>1
<1>5. WholeCommand(cmd)
  BY <1>4 DEF Loaded
<1>6. at \in Nat /\ l \in Nat /\ Len(g[k + 1]) = at + l
  BY <1>1, PrefixStep
<1>7. Len(g[k + 1]) <= Len(g[Len(list)]) /\ \A j \in 1 .. l : g[Len(list)][at + j] = cmd[j]
  BY <1>1, CommandAt
<1>8. len = Len(words) /\ words = g[Len(list)]
  BY DEF Loaded
<1>9. \A j \in 1 .. len : InRam(base + j - 1) /\ r.ram[base + j - 1] = words[j]
  BY DEF Loaded
<1>10. l # 0
  <2>1. cmd \in Seq(Int) /\ cmd # <<>>
    BY <1>5 DEF WholeCommand
  <2> HIDE DEF cmd
  <2> QED
    BY <2>1
<1>11. at + l <= len /\ len \in Nat
  <2>1. len \in Nat
    BY <1>1, Fields
  <2> QED
    BY <1>6, <1>7, <1>8, <2>1
<1>12. cmd[1] = 3 => \A i \in 0 .. Above(0, cmd[5]) * Above(0, cmd[6]) - 1 :
                       InRam(cmd[2] + i) /\ n.ram[cmd[2] + i] = m.ram[cmd[2] + i]
  <2>1. cmd[1] = 3 => \A i \in 0 .. Above(0, cmd[5]) * Above(0, cmd[6]) - 1 :
                        InRam(cmd[2] + i) /\ r.ram[cmd[2] + i] = m.ram[cmd[2] + i]
    BY <1>4 DEF Loaded
  <2> HIDE DEF cmd, n
  <2> QED
    BY <1>3, <2>1
<1> HIDE DEF n, cmd, at, l, len, base, words
<1>13. ASSUME NEW j \in 0 .. l - 1
       PROVE  InRam(n.gpu.cmd + d.at + j) /\ n.ram[n.gpu.cmd + d.at + j] = cmd[j + 1]
  <2>1. at + (j + 1) \in 1 .. len /\ j + 1 \in 1 .. l
    BY <1>6, <1>11
  <2>2. base + (at + (j + 1)) - 1 = base + at + j
    BY <1>1, <1>6
  <2>3. words[at + (j + 1)] = cmd[j + 1]
    BY <1>7, <1>8, <2>1
  <2>4. InRam(base + at + j) /\ r.ram[base + at + j] = cmd[j + 1]
    BY <1>9, <2>1, <2>2, <2>3
  <2>5. n.gpu.cmd = base /\ d.at = at /\ n.ram = r.ram
    BY <1>2, <1>3 DEF base
  <2> QED
    BY <2>4, <2>5
<1>14. Holds(n, n.gpu.cmd + d.at, cmd)
  BY <1>12, <1>13 DEF Holds, l
<1>15. d.at < len
  BY <1>2, <1>6, <1>10, <1>11
<1>16. d.at \in Nat /\ d.m = n /\ ~n.thrown
  BY <1>1, <1>2, <1>3, <1>6 DEF n
<1>17. Command(d).on = TRUE /\ Command(d).at = d.at + Len(cmd) /\ Drawn(n, Command(d).m, cmd)
  BY <1>3, <1>5, <1>14, <1>16, CommandDraws
<1>18. Command(d).m \in Paints(r)
  <2>1. Command(d).m \in Paints(n)
    BY <1>17 DEF Drawn
  <2> QED
    BY <1>1, <1>2, <2>1, PaintsTrans DEF n
<1>19. Command(d).at = Len(g[k + 1])
  BY <1>2, <1>6, <1>17 DEF l
<1> QED
  BY <1>15, <1>17, <1>18, <1>19 DEF Stands, n, cmd, len

\* Every command has a word at least.
LEMMA PrefixLong ==
  ASSUME NEW list \in Seq(Seq(Int)), NEW p \in Heads(list),
         \A k \in 1 .. Len(list) : WholeCommand(list[k])
  PROVE  Len(list) <= Len(p[Len(list)])
<1> DEFINE n == Len(list)
           T == {k \in 0 .. n : k <= Len(p[k])}
<1>1. n \in Nat
  OBVIOUS
<1>2. 0 \in T
  BY <1>1 DEF Heads
<1>3. ASSUME NEW k \in 0 .. n - 1, k \in T PROVE k + 1 \in T
  <2> DEFINE a == Len(p[k])
             b == Len(list[k + 1])
  <2>1. a \in Nat /\ b \in Nat /\ Len(p[k + 1]) = a + b /\ list[k + 1] \in Seq(Int)
    BY PrefixStep
  <2>2. k + 1 \in 1 .. n
    BY <1>1
  <2>3. list[k + 1] # <<>>
    BY <2>2 DEF WholeCommand
  <2>4. b # 0
    BY <2>1, <2>3
  <2>5. k <= a
    BY <1>3
  <2> HIDE DEF a, b, n
  <2>6. k + 1 <= a + b
    BY <1>1, <2>1, <2>4, <2>5
  <2> QED
    BY <1>1, <2>1, <2>2, <2>6
<1>4. \A k \in 0 .. n : k \in T
  <2> HIDE DEF T
  <2> QED
    BY <1>1, <1>2, <1>3, Induct
<1>5. n \in T
  <2> HIDE DEF T
  <2> QED
    BY <1>1, <1>4
<1> QED
  BY <1>5

\* The loop of a submission takes the commands one after the other and then stays.
LEMMA SubmitCommands ==
  ASSUME NEW r, NEW list, Loaded(r, list), NEW p \in Heads(list),
         FlattenSeq(list) = p[Len(list)], NEW g \in SubmitPasses(r)
  PROVE  /\ \A k \in 0 .. Len(list) : Stands(r, list, p, g[k], k)
         /\ \A k \in 0 .. Len(list) - 1 : Drawn(g[k].m, g[k + 1].m, list[k + 1])
         /\ g[0].m.gpu.fb = r.gpu.fb
         /\ g[r.gpu.len] = g[Len(list)]
<1> DEFINE n == Len(list)
           len == r.gpu.len
           T == {k \in 0 .. n : Stands(r, list, p, g[k], k)}
<1>1. r \in Machines /\ list \in Seq(Seq(Int)) /\ len = Len(p[n])
  BY DEF Loaded
<1>2. n \in Nat /\ len \in Nat /\ n <= len
  <2>1. \A k \in 1 .. n : WholeCommand(list[k])
    BY DEF Loaded
  <2> QED
    BY <1>1, <2>1, Fields, PrefixLong
<1>3. /\ g[0] = [m |-> [r EXCEPT !.gpu.status = 2], at |-> 0, on |-> TRUE]
      /\ \A k \in 0 .. len - 1 :
           g[k + 1] = IF g[k].on /\ g[k].at < len THEN Command(g[k]) ELSE g[k]
  BY DEF SubmitPasses
<1>4. g[0].m \in Paints(r) /\ g[0].m.gpu.fb = r.gpu.fb
  <2>1. [r EXCEPT !.gpu.status = 2] \in Paints(r)
        /\ [r EXCEPT !.gpu.status = 2].gpu.fb = r.gpu.fb
    BY <1>1, StatusPaints, 2 \in 1 .. 2
  <2>2. g[0].m = [r EXCEPT !.gpu.status = 2]
    BY <1>3
  <2> QED
    BY <2>1, <2>2
<1>5. 0 \in T
  <2>1. Len(p[0]) = 0
    BY DEF Heads
  <2>2. Stands(r, list, p, g[0], 0)
    BY <1>3, <1>4, <2>1 DEF Stands
  <2> QED
    BY <1>2, <2>2
<1>6. ASSUME NEW k \in 0 .. n - 1, Stands(r, list, p, g[k], k)
      PROVE  Stands(r, list, p, g[k + 1], k + 1) /\ Drawn(g[k].m, g[k + 1].m, list[k + 1])
  <2>1. /\ g[k].at < r.gpu.len
        /\ Stands(r, list, p, Command(g[k]), k + 1)
        /\ Drawn(g[k].m, Command(g[k]).m, list[k + 1])
    BY <1>6, NextDraws
  <2>2. k \in 0 .. len - 1
    BY <1>2
  <2>3. g[k].on = TRUE
    BY <1>6 DEF Stands
  <2>4. g[k + 1] = Command(g[k])
    BY <1>3, <2>1, <2>2, <2>3
  <2> QED
    BY <2>1, <2>4
<1>7. ASSUME NEW k \in 0 .. n - 1, k \in T PROVE k + 1 \in T
  <2>1. Stands(r, list, p, g[k + 1], k + 1)
    BY <1>6, <1>7
  <2> QED
    BY <1>2, <2>1
<1>8. \A k \in 0 .. n : Stands(r, list, p, g[k], k)
  <2>1. \A k \in 0 .. n : k \in T
    <3> HIDE DEF T
    <3> QED
      BY <1>2, <1>5, <1>7, Induct
  <2> QED
    BY <2>1
<1>9. \A k \in 0 .. n - 1 : Drawn(g[k].m, g[k + 1].m, list[k + 1])
  <2> SUFFICES ASSUME NEW k \in 0 .. n - 1 PROVE Drawn(g[k].m, g[k + 1].m, list[k + 1])
    OBVIOUS
  <2>1. k \in 0 .. n
    BY <1>2
  <2> QED
    BY <1>6, <1>8, <2>1
<1> DEFINE U == {k \in 0 .. len - n : g[n + k] = g[n]}
<1>10. len - n \in Nat /\ n + 0 = n /\ n + (len - n) = len
  <2> HIDE DEF n, len
  <2> QED
    BY <1>2
<1>11. g[n].at = len
  <2>1. n \in 0 .. n
    BY <1>2
  <2> QED
    BY <1>1, <1>8, <2>1 DEF Stands
<1>12. 0 \in U
  <2> HIDE DEF n, len
  <2> QED
    BY <1>10
<1>13. ASSUME NEW k \in 0 .. len - n - 1, k \in U PROVE k + 1 \in U
  <2> HIDE DEF n, len
  <2>1. n + k \in 0 .. len - 1 /\ (n + k) + 1 = n + (k + 1) /\ k + 1 \in 0 .. len - n
    BY <1>2
  <2>2. g[(n + k) + 1] = IF g[n + k].on /\ g[n + k].at < len THEN Command(g[n + k]) ELSE g[n + k]
    BY <1>3, <2>1 DEF len
  <2>3. g[n + k] = g[n]
    BY <1>13
  <2>4. ~(g[n].at < len)
    BY <1>2, <1>11
  <2>5. g[(n + k) + 1] = g[n]
    BY <2>2, <2>3, <2>4
  <2> QED
    BY <2>1, <2>5
<1>14. g[len] = g[n]
  <2>1. \A k \in 0 .. len - n : k \in U
    <3> HIDE DEF U, n, len
    <3> QED
      BY <1>10, <1>12, <1>13, Induct
  <2> HIDE DEF n, len
  <2>2. g[n + (len - n)] = g[n]
    BY <1>10, <2>1
  <2> QED
    BY <1>10, <2>2
<1> QED
  BY <1>4, <1>8, <1>9, <1>14

LEMMA SubmitDraws ==
  ASSUME NEW r, NEW list, Loaded(r, list), NEW i \in 1 .. Len(r.gpu.fb)
  PROVE  Submit(r).gpu.fb[i] = Colour(list, Column(r, i), Line(r, i), r.gpu.fb[i])
<1> DEFINE n == Len(list)
           len == r.gpu.len
           x == Column(r, i)
           y == Line(r, i)
           c == r.gpu.fb[i]
<1>1. r \in Machines /\ list \in Seq(Seq(Int)) /\ n \in Nat /\ WholeScreen(r) /\ ~r.thrown
  BY DEF Loaded
<1>2. PICK p \in Heads(list) : FlattenSeq(list) = p[n]
  BY <1>1, FlattenIs
<1>3. PICK g \in SubmitPasses(r) :
        Submit(r) = IF len < 1 THEN r
                    ELSE IF g[len].m.thrown THEN g[len].m ELSE [g[len].m EXCEPT !.gpu.status = 1]
  BY <1>1, SubmitRuns
<1>4. /\ \A k \in 0 .. n : Stands(r, list, p, g[k], k)
      /\ \A k \in 0 .. n - 1 : Drawn(g[k].m, g[k + 1].m, list[k + 1])
      /\ g[0].m.gpu.fb = r.gpu.fb
      /\ g[len] = g[n]
  BY <1>2, SubmitCommands
<1>5. \A k \in 0 .. n : g[k].m \in Paints(r)
  BY <1>4 DEF Stands
<1> DEFINE f(k) == g[k].m.gpu.fb[i]
<1>6. f(0) = c
  BY <1>4
<1>7. ASSUME NEW k \in 0 .. n - 1 PROVE f(k + 1) = Meaning(list[k + 1], x, y, f(k))
  <2> DEFINE u == g[k].m
             z == g[k + 1].m
  <2>1. u \in Paints(r)
    <3>1. k \in 0 .. n
      BY <1>1
    <3> QED
      BY <1>5, <3>1
  <2>2. Drawn(u, z, list[k + 1])
    BY <1>4
  <2> HIDE DEF u, z
  <2>3. Len(u.gpu.fb) = Len(r.gpu.fb) /\ Column(u, i) = x /\ Line(u, i) = y
    BY <1>1, <2>1, PaintsScreen
  <2>4. z.gpu.fb[i] = Meaning(list[k + 1], Column(u, i), Line(u, i), u.gpu.fb[i])
    BY <2>2, <2>3 DEF Drawn
  <2> HIDE DEF x, y
  <2>5. z.gpu.fb[i] = Meaning(list[k + 1], x, y, u.gpu.fb[i])
    BY <2>3, <2>4
  <2> QED
    BY <2>5 DEF u, z
<1>8. Submit(r).gpu.fb[i] = f(n)
  <2>1. len \in Nat
    BY <1>1, Fields
  <2>2. CASE len < 1
    <3>1. len = 0
      BY <2>1, <2>2
    <3>2. g[n] = g[0]
      BY <1>4, <3>1
    <3>3. Submit(r) = r
      BY <1>3, <2>2
    <3> QED
      BY <1>6, <3>2, <3>3
  <2>3. CASE ~(len < 1)
    <3> DEFINE u == g[n].m
    <3>1. u \in Paints(r)
      BY <1>1, <1>5, n \in 0 .. n
    <3> HIDE DEF u
    <3>2. u \in Machines /\ ~u.thrown
      BY <1>1, <3>1, PaintsScreen
    <3>3. g[len].m = u
      BY <1>4 DEF u
    <3>4. Submit(r) = [u EXCEPT !.gpu.status = 1]
      BY <1>3, <2>3, <3>2, <3>3
    <3>5. [u EXCEPT !.gpu.status = 1].gpu.fb = u.gpu.fb
      BY <3>2, StatusPaints, 1 \in 1 .. 2
    <3> QED
      BY <3>4, <3>5 DEF u
  <2> QED
    BY <2>2, <2>3
<1> DEFINE draw(d, k) == Meaning(list[k + 1], x, y, d)
           Is(h) == h = [k \in 0 .. n |-> IF k = 0 THEN c ELSE draw(h[k - 1], k - 1)]
           after == CHOOSE h : Is(h)
           shown == [k \in 0 .. n |-> f(k)]
<1>9. Colour(list, x, y, c) = after[n]
  <2> HIDE DEF x, y, c
  <2> QED
    BY Zenon DEF Colour, Loop
<1> HIDE DEF f, x, y, c
<1>10. Is(shown)
  <2>1. ASSUME NEW k \in 0 .. n
        PROVE  shown[k] = IF k = 0 THEN c ELSE draw(shown[k - 1], k - 1)
    <3>1. CASE k = 0
      BY <1>6, <3>1
    <3>2. CASE k # 0
      <4>1. k - 1 \in 0 .. n - 1 /\ k - 1 \in 0 .. n /\ (k - 1) + 1 = k
        BY <1>1, <3>2
      <4>2. f(k) = Meaning(list[(k - 1) + 1], x, y, f(k - 1))
        BY <1>7, <4>1
      <4>3. shown[k - 1] = f(k - 1) /\ shown[k] = f(k)
        BY <4>1
      <4> QED
        BY <3>2, <4>2, <4>3
    <3> QED
      BY <3>1, <3>2
  <2>2. shown = [k \in 0 .. n |-> shown[k]]
    OBVIOUS
  <2> HIDE DEF shown, draw, n
  <2> QED
    BY <2>1, <2>2
<1>11. Is(after)
  <2> HIDE DEF Is
  <2> QED
    BY <1>10
<1> HIDE DEF after
<1>12. after[0] = c /\ \A k \in 1 .. n : after[k] = draw(after[k - 1], k - 1)
  <2> HIDE DEF draw, n
  <2> QED
    BY <1>1, <1>11
<1> DEFINE T == {k \in 0 .. n : after[k] = f(k)}
<1>13. 0 \in T
  BY <1>1, <1>6, <1>12
<1>14. ASSUME NEW k \in 0 .. n - 1, k \in T PROVE k + 1 \in T
  <2>1. k + 1 \in 1 .. n /\ (k + 1) - 1 = k /\ k + 1 \in 0 .. n
    BY <1>1
  <2>2. after[k + 1] = draw(after[k], k)
    <3> HIDE DEF draw
    <3> QED
      BY <1>12, <2>1
  <2>3. after[k] = f(k)
    BY <1>14
  <2>4. after[k + 1] = f(k + 1)
    BY <1>7, <2>2, <2>3
  <2> QED
    BY <2>1, <2>4
<1>15. after[n] = f(n)
  <2>1. \A k \in 0 .. n : k \in T
    <3> HIDE DEF T
    <3> QED
      BY <1>1, <1>13, <1>14, Induct
  <2>2. n \in T
    <3> HIDE DEF T, n
    <3> QED
      BY <1>1, <2>1
  <2> HIDE DEF n
  <2> QED
    BY <2>2
<1> QED
  BY <1>8, <1>9, <1>15 DEF x, y, c

\* Fits and Ready put a list into memory as the loop needs it.
LEMMA ReadyLoaded ==
  ASSUME m \in Machines, ~m.thrown, WholeScreen(m), NEW list, Fits(list)
  PROVE  /\ Loaded(Ready(list), list)
         /\ Ready(list).gpu.fb = m.gpu.fb /\ Ready(list).gpu.w = m.gpu.w
<1> DEFINE words == FlattenSeq(list)
           len == Len(words)
           base == RamWords - len
           ram == [a \in DOMAIN m.ram |-> IF a >= base THEN words[a - base + 1] ELSE m.ram[a]]
           gpu == [m.gpu EXCEPT !.cmd = base, !.len = len]
           r == Ready(list)
<1>1. r = [m EXCEPT !.ram = ram, !.gpu.cmd = base, !.gpu.len = len]
  BY DEF Ready
<1>2. /\ list \in Seq(Seq(Int)) /\ base >= 0
      /\ \A a \in 0 .. RamWords - 1 : a \notin Windows
      /\ \A k \in 1 .. Len(list) :
           /\ list[k] # <<>> /\ list[k][1] \in 1 .. 4
           /\ Len(list[k]) = 1 + Operands[list[k][1]]
           /\ list[k][1] = 3 =>
                list[k][2] >= 0
                /\ list[k][2] + Above(0, list[k][5]) * Above(0, list[k][6]) <= base
  BY DEF Fits
<1>3. words \in Seq(Int)
  <2>1. PICK p \in Heads(list) : words = p[Len(list)]
    BY <1>2, FlattenIs
  <2>2. Len(list) \in 0 .. Len(list)
    BY <1>2
  <2> HIDE DEF words
  <2> QED
    BY <2>1, <2>2 DEF Heads
<1> HIDE DEF words
<1>4. len \in Nat /\ RamWords \in Nat /\ base \in Nat /\ base + len = RamWords
      /\ \A j \in 1 .. len : words[j] \in Int
  <2>1. len \in Nat /\ \A j \in 1 .. len : words[j] \in Int
    BY <1>3
  <2> HIDE DEF len
  <2> QED
    BY <1>2, <2>1, DevicesAssumption
<1> HIDE DEF len, base
<1>5. m.ram \in [0 .. RamWords - 1 -> Int] /\ DOMAIN m.ram = 0 .. RamWords - 1
  BY Fields DEF Ram
<1>6. ram \in Ram
  <2>1. ASSUME NEW a \in 0 .. RamWords - 1, a >= base
        PROVE  words[a - base + 1] \in Int
    <3>1. a - base + 1 \in 1 .. len
      BY <1>4, <2>1
    <3> QED
      BY <1>4, <3>1
  <2> QED
    BY <1>5, <2>1 DEF Ram
<1>7. \A a \in 0 .. RamWords - 1 :
        ram[a] = IF a >= base THEN words[a - base + 1] ELSE m.ram[a]
  BY <1>5
<1> HIDE DEF ram
<1>8. gpu \in Gpu /\ gpu.w = m.gpu.w /\ gpu.h = m.gpu.h /\ gpu.fb = m.gpu.fb
      /\ gpu.cmd = base /\ gpu.len = len
  BY <1>4, Fields DEF Gpu
<1>9. r = [m EXCEPT !.ram = ram, !.gpu = gpu]
  <2>1. [m EXCEPT !.ram = ram, !.gpu.cmd = base, !.gpu.len = len]
          = [m EXCEPT !.ram = ram, !.gpu = gpu]
    BY DEF Machines
  <2> HIDE DEF r
  <2> QED
    BY <1>1, <2>1
<1> HIDE DEF gpu, r
<1>10. r \in Machines /\ r.ram = ram /\ r.gpu = gpu /\ r.thrown = m.thrown
  BY <1>6, <1>8, <1>9 DEF Machines
<1>11. WholeScreen(r)
  BY <1>8, <1>10 DEF WholeScreen
<1>12. \A a \in 0 .. RamWords - 1 : InRam(a)
  BY <1>2 DEF InRam
<1>13. ASSUME NEW k \in 1 .. Len(list) PROVE WholeCommand(list[k])
  <2>1. list[k] \in Seq(Int)
    BY <1>2
  <2> QED
    BY <1>2, <2>1 DEF WholeCommand
<1>14. ASSUME NEW j \in 1 .. len
       PROVE  InRam(base + j - 1) /\ ram[base + j - 1] = words[j]
  <2>1. base + j - 1 \in 0 .. RamWords - 1 /\ base + j - 1 >= base
        /\ (base + j - 1) - base + 1 = j
    BY <1>4
  <2> QED
    BY <1>7, <1>12, <2>1
<1>15. ASSUME NEW k \in 1 .. Len(list), list[k][1] = 3,
              NEW i \in 0 .. Above(0, list[k][5]) * Above(0, list[k][6]) - 1
       PROVE  InRam(list[k][2] + i) /\ ram[list[k][2] + i] = m.ram[list[k][2] + i]
  <2> DEFINE src == list[k][2]
             w == list[k][5]
             h == list[k][6]
             area == Above(0, w) * Above(0, h)
  <2>1. src \in Int /\ w \in Int /\ h \in Int
    <3>1. WholeCommand(list[k])
      BY <1>13
    <3>2. Len(list[k]) = 6 /\ \A j \in 1 .. Len(list[k]) : list[k][j] \in Int
      BY <1>15, <3>1, CommandLength
    <3> QED
      BY <3>2
  <2>2. src >= 0 /\ src + area <= base
    BY <1>2, <1>15
  <2>3. i \in 0 .. area - 1
    OBVIOUS
  <2> HIDE DEF src, w, h
  <2>4. area \in Nat
    <3>1. Above(0, w) \in Nat /\ Above(0, h) \in Nat
      BY <2>1 DEF Above
    <3>2. \A a, b \in Nat : a * b \in Nat
      OBVIOUS
    <3> QED
      BY <3>1, <3>2
  <2> HIDE DEF area
  <2>5. src + i \in 0 .. RamWords - 1 /\ ~(src + i >= base)
    BY <1>4, <2>1, <2>2, <2>3, <2>4
  <2>6. InRam(src + i) /\ ram[src + i] = m.ram[src + i]
    BY <1>7, <1>12, <2>5
  <2> QED
    BY <2>6 DEF src
<1>16. Loaded(r, list)
  <2>1. r.gpu.len = Len(FlattenSeq(list))
    BY <1>8, <1>10 DEF len, words
  <2>2. \A j \in 1 .. r.gpu.len :
          InRam(r.gpu.cmd + j - 1) /\ r.ram[r.gpu.cmd + j - 1] = FlattenSeq(list)[j]
    BY <1>8, <1>10, <1>14 DEF words
  <2>3. \A k \in 1 .. Len(list) :
          list[k][1] = 3 =>
            \A i \in 0 .. Above(0, list[k][5]) * Above(0, list[k][6]) - 1 :
              InRam(list[k][2] + i) /\ r.ram[list[k][2] + i] = m.ram[list[k][2] + i]
    BY <1>10, <1>15
  <2> QED
    BY <1>2, <1>10, <1>11, <1>13, <2>1, <2>2, <2>3 DEF Loaded
<1> QED
  BY <1>8, <1>10, <1>16 DEF r

\* GpuPaints: a buffer of commands draws what its commands mean.
THEOREM CommandsPaint == Spec => []GpuPaints
<1>1. ASSUME IInv, NEW list \in scenario.lists, m.gpu.w * m.gpu.h = Len(m.gpu.fb),
             NEW i \in 1 .. Len(m.gpu.fb)
      PROVE  Submit(Ready(list)).gpu.fb[i] =
               Colour(list, (i - 1) % m.gpu.w, (i - 1) \div m.gpu.w, m.gpu.fb[i])
  <2> DEFINE r == Ready(list)
  <2>1. m \in Machines /\ ~m.thrown /\ WholeScreen(m) /\ Fits(list)
    BY <1>1, ScenariosAssumption DEF IInv, DataInv, MachineType, WholeScreen
  <2>2. Loaded(r, list) /\ r.gpu.fb = m.gpu.fb /\ r.gpu.w = m.gpu.w
    BY <2>1, ReadyLoaded
  <2> HIDE DEF r
  <2>3. Submit(r).gpu.fb[i] = Colour(list, Column(r, i), Line(r, i), r.gpu.fb[i])
    BY <2>2, SubmitDraws
  <2>4. Column(r, i) = (i - 1) % m.gpu.w /\ Line(r, i) = (i - 1) \div m.gpu.w
    BY <2>2 DEF Column, Line
  <2> QED
    BY <2>2, <2>3, <2>4 DEF r
<1>2. IInv => GpuPaints
  BY <1>1 DEF GpuPaints
<1> QED
  BY <1>2, Invariance, PTL
=============================================================================
