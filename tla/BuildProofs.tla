----------------------------- MODULE BuildProofs -----------------------------
(* Theorems about Build, for every base address, every source of lines that     *)
(* LinesAssumption admits, and every disk that MkfsAssumption admits: what is     *)
(* laid out, where it ends up in memory, that a loaded program does what its      *)
(* source says, and that the kernel finds a sound file system in an image.        *)
EXTENDS Build, FiniteSetTheorems, TLAPS

-----------------------------------------------------------------------------
(* The fields of an instruction: what the encoders of the assembler leave out,    *)
(* the decoders of the processor put back.                                    *)

LEMMA Powers == /\ 2 ^ 11 = 2048 /\ 2 ^ 12 = 4096 /\ 2 ^ 13 = 8192
                /\ 2 ^ 20 = 1048576 /\ 2 ^ 21 = 2097152
BY SMT

LEMMA SextIs ==
  ASSUME NEW x \in Int
  PROVE  /\ Sext(x, 12) = IF x >= 2048 THEN x - 4096 ELSE x
         /\ Sext(x, 13) = IF x >= 4096 THEN x - 8192 ELSE x
         /\ Sext(x, 21) = IF x >= 1048576 THEN x - 2097152 ELSE x
BY SMT, Powers, 12 - 1 = 11, 13 - 1 = 12, 21 - 1 = 20 DEF Sext

LEMMA InImm12 == ASSUME NEW x \in Int PROVE x \in Imm12 <=> x >= -2048 /\ x <= 2047
BY SMT DEF Imm12

LEMMA ImmIsInt == \A x \in Imm12 : x \in Int
BY DEF Imm12

LEMMA CodeI == ASSUME NEW v \in Imm12 PROVE IImm(EncI(v)) = v
<1>1. (v % 4096) \in Int /\ EncI(v)[1] = (v % 4096)
  BY SMT DEF Imm12, EncI
<1>2. IImm(EncI(v)) = IF (v % 4096) >= 2048 THEN (v % 4096) - 4096 ELSE (v % 4096)
  BY SMT, <1>1, SextIs DEF IImm
<1> QED
  BY SMT, <1>2 DEF Imm12

LEMMA CodeS == ASSUME NEW v \in Imm12 PROVE SImm(EncS(v)) = v
<1> DEFINE x == ((v \div 32) % 128) * 32 + (v % 32)
<1>1. x = (v % 4096)
  BY SMT DEF Imm12
<1>2. SImm(EncS(v)) = IF (v % 4096) >= 2048 THEN (v % 4096) - 4096 ELSE (v % 4096)
  BY SMT, <1>1, SextIs DEF SImm, EncS, Imm12
<1> QED
  BY SMT, <1>2 DEF Imm12

LEMMA CodeB ==
  ASSUME NEW v \in Int, v >= -4096, v <= 4095, v % 2 = 0
  PROVE  BImm(EncB(v)) = v
<1> DEFINE b12 == (v \div 4096) % 2
           b5 == (v \div 32) % 64
           b1 == (v \div 2) % 16
           b11 == (v \div 2048) % 2
           x == b12 * 4096 + b11 * 2048 + b5 * 32 + b1 * 2
<1>1. b1 * 2 = (v % 32)
  BY SMT
<1>2. b5 * 32 + (v % 32) = (v % 2048)
  BY SMT
<1>3. b11 * 2048 + (v % 2048) = (v % 4096)
  BY SMT
<1>4. b12 = IF v < 0 THEN 1 ELSE 0
  BY SMT
<1>5. (v % 4096) = IF v < 0 THEN v + 4096 ELSE v
  BY SMT
<1>6. x = IF v < 0 THEN v + 8192 ELSE v
  <2>1. /\ b1 \in Int /\ b5 \in Int /\ b11 \in Int /\ b12 \in Int
        /\ (v % 32) \in Int /\ (v % 2048) \in Int /\ (v % 4096) \in Int
    BY SMT
  <2>2. x = b12 * 4096 + (v % 4096)
    <3> HIDE DEF b1, b5, b11, b12
    <3> QED
      BY SMT, <1>1, <1>2, <1>3, <2>1
  <2> HIDE DEF x, b12
  <2> QED
    BY SMT, <2>2, <1>4, <1>5
<1>7. x \in Int /\ BImm(EncB(v)) = Sext(x, 13)
  BY SMT DEF BImm, EncB
<1> HIDE DEF x
<1> QED
  BY SMT, <1>6, <1>7, SextIs

LEMMA CodeJ ==
  ASSUME NEW v \in Int, v >= -1048576, v <= 1048575, v % 2 = 0
  PROVE  JImm(EncJ(v)) = v
<1> DEFINE b20 == (v \div 1048576) % 2
           b1 == (v \div 2) % 1024
           b11 == (v \div 2048) % 2
           b12 == (v \div 4096) % 256
           x == b20 * 1048576 + b12 * 4096 + b11 * 2048 + b1 * 2
<1>1. b1 * 2 = (v % 2048)
  BY SMT
<1>2. b11 * 2048 + (v % 2048) = (v % 4096)
  BY SMT
<1>3. b12 * 4096 + (v % 4096) = (v % 1048576)
  BY SMT
<1>4. b20 = IF v < 0 THEN 1 ELSE 0
  BY SMT
<1>5. (v % 1048576) = IF v < 0 THEN v + 1048576 ELSE v
  BY SMT
<1>6. x = IF v < 0 THEN v + 2097152 ELSE v
  <2>1. /\ b1 \in Int /\ b12 \in Int /\ b11 \in Int /\ b20 \in Int
        /\ (v % 1048576) \in Int /\ (v % 2048) \in Int /\ (v % 4096) \in Int
    BY SMT
  <2>2. x = b20 * 1048576 + (v % 1048576)
    <3> HIDE DEF b1, b12, b11, b20
    <3> QED
      BY SMT, <1>1, <1>2, <1>3, <2>1
  <2> HIDE DEF x, b20
  <2> QED
    BY SMT, <2>2, <1>4, <1>5
<1>7. x \in Int /\ JImm(EncJ(v)) = Sext(x, 21)
  BY SMT, Powers DEF JImm, EncJ
<1> HIDE DEF x
<1> QED
  BY SMT, <1>6, <1>7, SextIs

LEMMA Halves ==
  ASSUME NEW v \in Int
  PROVE  /\ Hi(v) \in Int /\ Lo(v) \in Imm12 /\ v = 4096 * Hi(v) + Lo(v)
<1> DEFINE q == v \div 4096
           r == v % 4096
           c == Carry(v)
<1>1. q \in Int /\ r \in Int /\ r >= 0 /\ r <= 4095 /\ v = 4096 * q + r
  BY SMT
<1>2. c = IF r >= 2048 THEN 1 ELSE 0
  BY SMT, <1>1 DEF Carry
<1>3. Hi(v) = q + c /\ Lo(v) = r - 4096 * c
  BY DEF Hi, Lo
<1> HIDE DEF q, r, c
<1>4. Hi(v) \in Int /\ Lo(v) \in Int /\ Lo(v) >= -2048 /\ Lo(v) <= 2047
      /\ v = 4096 * Hi(v) + Lo(v)
  BY SMT, <1>1, <1>2, <1>3
<1> QED
  BY <1>4, InImm12

\* The word a number is kept in depends on it modulo 2^32 only.
LEMMA PairMakesWord ==
  ASSUME NEW v \in Int
  PROVE  Addi(Lui(EncU(Hi(v))), IImm(EncI(Lo(v)))) = Word(v)
<1> DEFINE h == Hi(v)
           l == Lo(v)
<1>1. h \in Int /\ l \in Imm12 /\ v = 4096 * h + l /\ IImm(EncI(l)) = l
  BY SMT, Halves, CodeI
<1> HIDE DEF h, l
<1>2. Addi(<<(h % 1048576), 0>>, l) =
        <<((h % 1048576) + (0 + l) \div 4096) % 1048576, (0 + l) % 4096>>
  BY SMT, Powers DEF Addi
<1>3. l \in Int /\ 0 + l = l /\ l \div 4096 \in Int
  BY SMT, <1>1 DEF Imm12
<1>4. ((h % 1048576) + l \div 4096) % 1048576 = (h + l \div 4096) % 1048576
  BY SMT, <1>1, <1>3
<1>5. v \div 4096 = h + l \div 4096 /\ (v % 4096) = (l % 4096)
  BY SMT, <1>1, <1>3
<1> QED
  BY SMT, <1>1, <1>2, <1>3, <1>4, <1>5, Powers DEF Word, Lui, EncU, h, l

LEMMA PairMakesAddress ==
  ASSUME NEW v \in Int, NEW pc \in Int
  PROVE  Addi(Auipc(EncU(Hi(v - pc)), pc), IImm(EncI(Lo(v - pc)))) = Word(v)
<1> DEFINE h == Hi(v - pc)
           l == Lo(v - pc)
           q == pc \div 4096
           r == (pc % 4096)
<1>1. h \in Int /\ l \in Imm12 /\ v - pc = 4096 * h + l /\ IImm(EncI(l)) = l
  BY SMT, Halves, CodeI
<1>2. q \in Int /\ r \in 0 .. 4095 /\ pc = 4096 * q + r
  BY SMT
<1>3. Word(pc) = <<(q % 1048576), r>>
  BY SMT, Powers DEF Word
<1> HIDE DEF h, l, q, r
<1>4. l \in Int /\ r + l \in Int /\ (r + l) \div 4096 \in Int
  BY SMT, <1>1, <1>2 DEF Imm12
<1>5. v = 4096 * (q + h) + (r + l)
  BY SMT, <1>1, <1>2, <1>4
<1>6. v \div 4096 = (q + h) + (r + l) \div 4096 /\ (v % 4096) = (r + l) % 4096
  BY SMT, <1>1, <1>2, <1>4, <1>5
<1> DEFINE w == ((q % 1048576) + (h % 1048576)) % 1048576
           c == (r + l) \div 4096
<1>7. w = (q + h) % 1048576
  BY SMT, <1>1, <1>2
<1>8. (w + c) % 1048576 = ((q + h) + c) % 1048576
  <2> HIDE DEF c
  <2>1. c \in Int /\ q + h \in Int
    BY SMT, <1>1, <1>2, <1>4 DEF c
  <2>2. (((q + h) % 1048576) + c) % 1048576 = ((q + h) + c) % 1048576
    <3> DEFINE z == q + h
    <3>1. z \in Int
      BY SMT, <2>1
    <3> HIDE DEF z
    <3>2. ((z % 1048576) + c) % 1048576 = (z + c) % 1048576
      BY SMT, <2>1, <3>1
    <3> QED
      BY SMT, <3>2 DEF z
  <2> QED
    BY SMT, <1>7, <2>2
<1>9. Auipc(<<(h % 1048576)>>, pc) = <<w, r>>
  BY SMT, <1>3, Powers DEF Auipc
<1>10. Addi(<<w, r>>, l) = <<(w + c) % 1048576, (r + l) % 4096>>
  BY SMT, Powers DEF Addi
<1> QED
  BY SMT, <1>1, <1>6, <1>8, <1>9, <1>10, Powers DEF Word, EncU, h, l

-----------------------------------------------------------------------------
(* Pass 1: what the assembler has laid out after any lines.                  *)

SourceNames == {l.name : l \in {k \in SourceLines : k.op \in {"label", "equ"}}}
PieceKinds == Instructions \cup {"bytes", "pad", "value", "li", "li_hi", "li_lo",
                                 "pcrel_hi", "pcrel_lo"}
Pieces == [kind : PieceKinds, n : Nat, e : Expressions, offset : Nat, hi : Nat,
           value : Int, early : BOOLEAN]
Results == [is : {"number", "undefined"}, v : Int]
Symbols == [kind : {"label", "const"}, section : Sections, offset : Nat, value : Results,
            mark : Nat, early : BOOLEAN]
Tables == UNION {[N -> Symbols] : N \in SUBSET SourceNames}
Rows == [items : Seq(Pieces), size : Nat]
Assemblers == [base : Nat, cur : Sections, symbols : Tables, failed : BOOLEAN,
               sections : [Sections -> Rows]]

\* A row of pieces of that size, without gaps and in order.
Gapless(row, size) ==
  /\ size = EndOf(row, Len(row))
  /\ \A i \in DOMAIN row : row[i].offset = EndOf(row, i - 1) /\ EndOf(row, i) <= size
  /\ \A i, j \in DOMAIN row : i < j => EndOf(row, i) <= row[j].offset

\* A label is where the pieces before it end.
Standing(s, rows) ==
  s.kind = "label" =>
    /\ s.mark \in 1 .. Len(rows[s.section].items) + 1
    /\ s.offset = EndOf(rows[s.section].items, s.mark - 1)

Layout(asm) ==
  /\ asm \in Assemblers
  /\ IsFiniteSet(DOMAIN asm.symbols)
  /\ \A s \in Sections : Gapless(asm.sections[s].items, asm.sections[s].size)
  /\ \A n \in DOMAIN asm.symbols : Standing(asm.symbols[n], asm.sections)

LEMMA TableIs ==
  ASSUME NEW t
  PROVE  t \in Tables <=> DOMAIN t \in SUBSET SourceNames /\ t \in [DOMAIN t -> Symbols]
BY DEF Tables

LEMMA BeginLayout ==
  ASSUME NEW base \in Nat
  PROVE  Layout(Begin(base))
<1>1. <<>> \in Seq(Pieces) /\ Len(<<>>) = 0 /\ DOMAIN <<>> = {}
  OBVIOUS
<1>2. <<>> \in Tables /\ IsFiniteSet(DOMAIN <<>>)
  <2>1. <<>> \in [{} -> Symbols]
    BY <1>1
  <2>2. {} \in SUBSET SourceNames /\ IsFiniteSet({})
    BY FS_EmptySet
  <2> QED
    BY <1>1, <2>1, <2>2 DEF Tables
<1>3. [s \in Sections |-> [items |-> <<>>, size |-> 0]] \in [Sections -> Rows]
  BY <1>1 DEF Rows
<1>4. Begin(base) \in Assemblers
  BY <1>2, <1>3 DEF Begin, Assemblers, Sections
<1>5. \A s \in Sections : Gapless(<<>>, 0)
  BY <1>1 DEF Gapless, EndOf
<1> QED
  BY <1>1, <1>2, <1>4, <1>5 DEF Layout, Begin

LEMMA FailLayout ==
  ASSUME NEW asm, Layout(asm)
  PROVE  Layout(Fail(asm)) /\ Fail(asm).base = asm.base
BY DEF Layout, Fail, Assemblers

LEMMA SectionLayout ==
  ASSUME NEW asm, Layout(asm), NEW s \in Sections
  PROVE  Layout(Section(asm, s)) /\ Section(asm, s).base = asm.base
BY DEF Layout, Section, Assemblers

LEMMA DefineLayout ==
  ASSUME NEW asm, Layout(asm), NEW name \in SourceNames, NEW symbol \in Symbols,
         Standing(symbol, asm.sections)
  PROVE  Layout(Define(asm, name, symbol)) /\ Define(asm, name, symbol).base = asm.base
<1>1. CASE name \in DOMAIN asm.symbols
  BY <1>1, FailLayout DEF Define
<1>2. CASE name \notin DOMAIN asm.symbols
  <2> DEFINE N == DOMAIN asm.symbols \cup {name}
             t == [n \in N |-> IF n = name THEN symbol ELSE asm.symbols[n]]
  <2>1. Define(asm, name, symbol) = [asm EXCEPT !.symbols = t]
    BY <1>2 DEF Define
  <2>2. DOMAIN asm.symbols \in SUBSET SourceNames /\ asm.symbols \in [DOMAIN asm.symbols -> Symbols]
    BY TableIs DEF Layout, Assemblers
  <2>3. DOMAIN t = N /\ t \in Tables
    BY <2>2, TableIs
  <2>4. IsFiniteSet(N)
    BY FS_AddElement DEF Layout
  <2>5. \A n \in N : Standing(t[n], asm.sections)
    BY DEF Layout
  <2> HIDE DEF t, N
  <2> QED
    BY <2>1, <2>3, <2>4, <2>5 DEF Layout, Assemblers
<1> QED
  BY <1>1, <1>2

LEMMA AppendGapless ==
  ASSUME NEW row \in Seq(Pieces), NEW size \in Nat, NEW p \in Pieces,
         Gapless(row, size), p.offset = size
  PROVE  /\ Append(row, p) \in Seq(Pieces) /\ Len(Append(row, p)) = Len(row) + 1
         /\ Gapless(Append(row, p), size + p.n)
         /\ \A i \in 0 .. Len(row) : EndOf(Append(row, p), i) = EndOf(row, i)
<1> DEFINE new == Append(row, p)
<1>1. /\ Len(row) \in Nat /\ DOMAIN row = 1 .. Len(row)
      /\ new \in Seq(Pieces) /\ Len(new) = Len(row) + 1 /\ DOMAIN new = 1 .. Len(row) + 1
      /\ \A i \in 1 .. Len(row) : new[i] = row[i] /\ row[i] \in Pieces
      /\ new[Len(row) + 1] = p
  OBVIOUS
<1> HIDE DEF new
<1>2. \A i \in 0 .. Len(row) : EndOf(new, i) = EndOf(row, i)
  BY <1>1 DEF EndOf
<1>3. p.n \in Nat /\ p.offset \in Nat
  BY DEF Pieces
<1>4. EndOf(new, Len(row) + 1) = size + p.n
  BY <1>1, <1>3 DEF EndOf
<1>5. ASSUME NEW i \in 1 .. Len(row) PROVE EndOf(row, i) \in Nat
  <2>1. row[i].offset \in Nat /\ row[i].n \in Nat
    BY <1>1 DEF Pieces
  <2>2. EndOf(row, i) = row[i].offset + row[i].n
    BY <1>1 DEF EndOf
  <2> QED
    BY <2>1, <2>2
<1>6. \A i \in 1 .. Len(row) + 1 : new[i].offset = EndOf(new, i - 1)
  <2>1. ASSUME NEW i \in 1 .. Len(row) PROVE new[i].offset = EndOf(new, i - 1)
    BY <1>1, <1>2 DEF Gapless
  <2>2. new[Len(row) + 1].offset = EndOf(new, (Len(row) + 1) - 1)
    BY <1>1, <1>2 DEF Gapless
  <2> QED
    BY <1>1, <2>1, <2>2
<1>7. \A i \in 1 .. Len(row) + 1 : EndOf(new, i) <= size + p.n
  <2>1. ASSUME NEW i \in 1 .. Len(row) PROVE EndOf(new, i) <= size + p.n
    <3>1. EndOf(new, i) = EndOf(row, i) /\ EndOf(row, i) <= size
      BY <1>1, <1>2 DEF Gapless
    <3> QED
      BY <1>3, <1>5, <3>1
  <2> QED
    BY <1>1, <1>3, <1>4, <2>1
<1>8. ASSUME NEW i \in 1 .. Len(row) + 1, NEW j \in 1 .. Len(row) + 1, i < j
      PROVE  EndOf(new, i) <= new[j].offset
  <2>1. i \in 1 .. Len(row) /\ EndOf(new, i) = EndOf(row, i) /\ EndOf(row, i) <= size
    BY <1>1, <1>2, <1>8 DEF Gapless
  <2>2. CASE j = Len(row) + 1
    BY <1>1, <2>1, <2>2
  <2>3. CASE j \in 1 .. Len(row)
    BY <1>1, <1>8, <2>1, <2>3 DEF Gapless
  <2> QED
    BY <1>1, <2>2, <2>3
<1>9. Gapless(new, size + p.n)
  BY <1>1, <1>4, <1>6, <1>7, <1>8 DEF Gapless
<1> QED
  BY <1>1, <1>2, <1>9 DEF new

\* What Put does, without its EXCEPTs.
Placed(asm, piece) == [piece EXCEPT !.offset = Current(asm).size]
PutRow(asm, piece) ==
  [items |-> Append(Current(asm).items, Placed(asm, piece)),
   size |-> Current(asm).size + piece.n]

LEMMA PutIs ==
  ASSUME NEW asm \in Assemblers, NEW piece
  PROVE  /\ Put(asm, piece) = [asm EXCEPT !.sections =
                                 [asm.sections EXCEPT ![asm.cur] = PutRow(asm, piece)]]
         /\ Put(asm, piece).sections = [asm.sections EXCEPT ![asm.cur] = PutRow(asm, piece)]
         /\ Put(asm, piece).base = asm.base /\ Put(asm, piece).cur = asm.cur
         /\ Put(asm, piece).symbols = asm.symbols /\ Put(asm, piece).failed = asm.failed
<1>1. Put(asm, piece) = [asm EXCEPT !.sections =
                           [asm.sections EXCEPT ![asm.cur] = PutRow(asm, piece)]]
  BY DEF Put, PutRow, Placed, Current
<1> QED
  BY <1>1 DEF Assemblers

LEMMA PutLayout ==
  ASSUME NEW asm, Layout(asm), NEW piece \in Pieces
  PROVE  Layout(Put(asm, piece)) /\ Put(asm, piece).base = asm.base
<1> DEFINE row == Current(asm).items
           size == Current(asm).size
           p == Placed(asm, piece)
           new == Append(row, p)
           rows == [asm.sections EXCEPT ![asm.cur] = PutRow(asm, piece)]
<1>1. asm \in Assemblers /\ asm.cur \in Sections /\ asm.sections \in [Sections -> Rows]
  BY DEF Layout, Assemblers
<1>2. row \in Seq(Pieces) /\ size \in Nat /\ Gapless(row, size)
  BY <1>1 DEF Layout, Rows, Current
<1>3. p \in Pieces /\ p.offset = size /\ p.n = piece.n /\ piece.n \in Nat
  BY <1>2 DEF Placed, Pieces
<1>4. /\ new \in Seq(Pieces) /\ Len(new) = Len(row) + 1 /\ Gapless(new, size + piece.n)
      /\ \A i \in 0 .. Len(row) : EndOf(new, i) = EndOf(row, i)
  BY <1>2, <1>3, AppendGapless
<1>5. PutRow(asm, piece) = [items |-> new, size |-> size + piece.n]
  BY DEF PutRow
<1>6. /\ asm.sections[asm.cur].items = row
      /\ \A s \in Sections : s # asm.cur => rows[s] = asm.sections[s]
      /\ rows[asm.cur].items = new /\ rows[asm.cur].size = size + piece.n
  BY <1>1, <1>5 DEF Current
<1>7. Len(row) \in Nat
  BY <1>2
<1> HIDE DEF row, size, p, new
<1>8. rows \in [Sections -> Rows]
  BY <1>1, <1>2, <1>3, <1>4, <1>5 DEF Rows
<1> HIDE DEF rows
<1>9. \A s \in Sections : Gapless(rows[s].items, rows[s].size)
  BY <1>4, <1>6 DEF Layout
<1>10. ASSUME NEW n \in DOMAIN asm.symbols PROVE Standing(asm.symbols[n], rows)
  <2> DEFINE s == asm.symbols[n]
  <2>1. s \in Symbols
    BY TableIs DEF Layout, Assemblers
  <2>2. s.section \in Sections /\ s.mark \in Nat
    BY <2>1 DEF Symbols
  <2>3. Standing(s, asm.sections)
    BY DEF Layout
  <2> HIDE DEF s
  <2>4. ASSUME s.section = asm.cur PROVE Standing(s, rows)
    <3>1. rows[s.section].items = new /\ asm.sections[s.section].items = row
      BY <1>6, <2>4
    <3>2. SUFFICES ASSUME s.kind = "label"
                   PROVE  /\ s.mark \in 1 .. Len(new) + 1
                          /\ s.offset = EndOf(new, s.mark - 1)
      BY <3>1 DEF Standing
    <3>3. s.mark \in 1 .. Len(row) + 1 /\ s.offset = EndOf(row, s.mark - 1)
      BY <2>3, <3>1, <3>2 DEF Standing
    <3>4. s.mark - 1 \in 0 .. Len(row)
      BY <1>7, <3>3
    <3> QED
      BY <1>4, <1>7, <3>3, <3>4
  <2>5. ASSUME s.section # asm.cur PROVE Standing(s, rows)
    BY <1>6, <2>2, <2>3, <2>5 DEF Standing
  <2> QED
    BY <2>4, <2>5 DEF s
<1>11. Put(asm, piece) = [asm EXCEPT !.sections = rows]
  BY <1>1, PutIs DEF rows
<1> QED
  BY <1>8, <1>9, <1>10, <1>11 DEF Layout, Assemblers

LEMMA PowerIsNat == ASSUME NEW n \in 0 .. 16 PROVE 2 ^ n \in Nat \ {0}
<1>1. /\ n \in {0, 1, 2, 3, 4, 5, 6, 7, 8, 9, 10, 11, 12, 13, 14, 15, 16}
  BY SMT
<1> DEFINE P == Nat \ {0}
<1>2. /\ 2 ^ 0 \in P /\ 2 ^ 1 \in P /\ 2 ^ 2 \in P /\ 2 ^ 3 \in P /\ 2 ^ 4 \in P /\ 2 ^ 5 \in P
      /\ 2 ^ 6 \in P /\ 2 ^ 7 \in P /\ 2 ^ 8 \in P /\ 2 ^ 9 \in P /\ 2 ^ 10 \in P
      /\ 2 ^ 11 \in P /\ 2 ^ 12 \in P /\ 2 ^ 13 \in P /\ 2 ^ 14 \in P /\ 2 ^ 15 \in P
      /\ 2 ^ 16 \in P
  BY SMT
<1> HIDE DEF P
<1>3. 2 ^ n \in P
  BY Zenon, <1>1, <1>2
<1> QED
  BY <1>3 DEF P

LEMMA AlignUpIs ==
  ASSUME NEW v \in Nat, NEW m \in Nat \ {0}
  PROVE  AlignUp(v, m) \in Nat /\ AlignUp(v, m) >= v
<1> DEFINE x == v + m - 1
           q == x \div m
           r == x % m
<1>1. x \in Int
  OBVIOUS
<1>2. q \in Int /\ r \in 0 .. m - 1 /\ x = m * q + r
  <2> HIDE DEF x
  <2> QED
    BY SMT, <1>1
<1>3. AlignUp(v, m) = q * m
  BY DEF AlignUp
<1> HIDE DEF q, r
<1>4. q * m = m * q /\ m * q \in Int
  BY SMT, <1>2
<1> QED
  BY SMT, <1>2, <1>3, <1>4

\* To a word: less than a word more, and nothing if it is one.
LEMMA AlignWord ==
  ASSUME NEW v \in Nat
  PROVE  /\ AlignUp(v, 4) \in Nat /\ AlignUp(v, 4) >= v /\ AlignUp(v, 4) <= v + 3
         /\ v % 4 = 0 => AlignUp(v, 4) = v
BY SMT DEF AlignUp

LEMMA EvalIs ==
  ASSUME NEW e \in Expressions, NEW t \in Tables, Eval(e, t) # Thrown
  PROVE  Eval(e, t) \in Results
<1>1. e.k \in Int
  BY LinesAssumption
<1>2. \A n \in DOMAIN t : t[n].value \in Results
  BY TableIs DEF Symbols
<1>3. CASE e.sym = ""
  BY <1>1, <1>3 DEF Eval, Num, Results
<1>4. CASE e.sym # "" /\ e.sym \notin DOMAIN t
  BY <1>4 DEF Eval
<1>5. CASE e.sym # "" /\ e.sym \in DOMAIN t
  <2> DEFINE value == t[e.sym].value
  <2>1. value \in Results /\ value.v \in Int
    BY <1>2, <1>5 DEF Results
  <2>2. Eval(e, t) = IF e.k = 0 THEN value
                     ELSE IF value.is = "number" THEN Num(value.v + e.k) ELSE Num(0)
    BY <1>5 DEF Eval
  <2> HIDE DEF value
  <2> QED
    BY <1>1, <2>1, <2>2 DEF Num, Results
<1> QED
  BY <1>3, <1>4, <1>5

LEMMA EarlyIs == ASSUME NEW e, NEW t PROVE Early(e, t) \in BOOLEAN
BY DEF Early

LEMMA NoNumber == Literal(0) \in Expressions
BY DEF Expressions

LEMMA PieceIs ==
  ASSUME NEW kind \in PieceKinds, NEW n \in Nat, NEW e \in Expressions
  PROVE  Piece(kind, n, e) \in Pieces
BY DEF Piece, Pieces

LEMMA LabelLayout ==
  ASSUME NEW asm, Layout(asm), NEW name \in SourceNames
  PROVE  Layout(Label(asm, name)) /\ Label(asm, name).base = asm.base
<1> DEFINE row == Current(asm).items
           symbol == [kind |-> "label", section |-> asm.cur, offset |-> Current(asm).size,
                      value |-> Undefined, mark |-> Len(row) + 1, early |-> FALSE]
<1>1. asm.cur \in Sections /\ asm.sections \in [Sections -> Rows]
  BY DEF Layout, Assemblers
<1>2. row \in Seq(Pieces) /\ Current(asm).size \in Nat /\ Len(row) \in Nat
      /\ Current(asm) = asm.sections[asm.cur]
  BY <1>1 DEF Current, Rows
<1>3. Current(asm).size = EndOf(row, Len(row))
  BY <1>1, <1>2 DEF Layout, Gapless
<1>4. symbol \in Symbols
  BY <1>1, <1>2 DEF Symbols, Undefined, Results
<1>5. Standing(symbol, asm.sections)
  BY <1>2, <1>3 DEF Standing
<1>6. Label(asm, name) = Define(asm, name, symbol)
  BY DEF Label
<1> HIDE DEF symbol
<1> QED
  BY <1>4, <1>5, <1>6, DefineLayout

LEMMA EquLayout ==
  ASSUME NEW asm, Layout(asm), NEW name \in SourceNames, NEW e \in Expressions
  PROVE  Layout(Equ(asm, name, e)) /\ Equ(asm, name, e).base = asm.base
<1> DEFINE value == Eval(e, asm.symbols)
           symbol == [kind |-> "const", section |-> asm.cur, offset |-> 0, value |-> value,
                      mark |-> 0, early |-> Early(e, asm.symbols)]
<1>1. CASE value = Thrown
  BY <1>1, FailLayout DEF Equ
<1>2. CASE value # Thrown
  <2>1. asm.cur \in Sections /\ asm.symbols \in Tables
    BY DEF Layout, Assemblers
  <2>2. value \in Results
    BY <1>2, <2>1, EvalIs
  <2>3. Equ(asm, name, e) = Define(asm, name, symbol)
    BY <1>2 DEF Equ
  <2> HIDE DEF value
  <2>4. symbol \in Symbols
    BY <2>1, <2>2, EarlyIs DEF Symbols
  <2>5. Standing(symbol, asm.sections)
    BY DEF Standing
  <2> HIDE DEF symbol
  <2> QED
    BY <2>3, <2>4, <2>5, DefineLayout
<1> QED
  BY <1>1, <1>2

LEMMA BytesLayout ==
  ASSUME NEW asm, Layout(asm), NEW n \in Int
  PROVE  Layout(Bytes(asm, n)) /\ Bytes(asm, n).base = asm.base
<1>1. CASE n < 0
  BY <1>1, FailLayout DEF Bytes
<1>2. CASE n >= 0
  <2>1. Piece("bytes", n, Literal(0)) \in Pieces
    BY <1>2, NoNumber, PieceIs DEF PieceKinds
  <2>2. Bytes(asm, n) = Put(asm, Piece("bytes", n, Literal(0)))
    BY <1>2 DEF Bytes
  <2> QED
    BY <2>1, <2>2, PutLayout
<1> QED
  BY <1>1, <1>2


LEMMA ValuesLayout ==
  ASSUME NEW asm, Layout(asm), NEW n \in {1, 4}, NEW e \in Expressions
  PROVE  Layout(Values(asm, n, e)) /\ Values(asm, n, e).base = asm.base
<1> DEFINE v == Eval(e, asm.symbols)
           value == IF n = 1 THEN v.v % 256 ELSE v.v
           p == [Piece("value", n, e) EXCEPT !.value = value, !.early = Early(e, asm.symbols)]
<1>1. CASE v = Thrown \/ ~OneToken(e) \/ (n = 1 /\ v.v \notin -128 .. 255)
  BY <1>1, FailLayout DEF Values
<1>2. CASE ~(v = Thrown \/ ~OneToken(e) \/ (n = 1 /\ v.v \notin -128 .. 255))
  <2>1. v # Thrown /\ asm.symbols \in Tables
    BY <1>2 DEF Layout, Assemblers
  <2>2. v.v \in Int
    BY <2>1, EvalIs DEF Results
  <2>3. Values(asm, n, e) = Put(asm, p)
    BY <1>2 DEF Values
  <2> HIDE DEF v
  <2>4. value \in Int
    BY <2>2
  <2>5. Piece("value", n, e) \in Pieces
    BY PieceIs DEF PieceKinds
  <2> HIDE DEF value
  <2>6. p \in Pieces
    BY <2>4, <2>5, EarlyIs DEF Pieces
  <2> HIDE DEF p
  <2> QED
    BY <2>3, <2>6, PutLayout
<1> QED
  BY <1>1, <1>2

LEMMA PaddingIs ==
  ASSUME NEW asm, Layout(asm), NEW n \in 0 .. 16
  PROVE  AlignUp(Current(asm).size, 2 ^ n) - Current(asm).size \in Nat
<1> DEFINE m == 2 ^ n
           size == Current(asm).size
<1>1. asm.cur \in Sections /\ asm.sections \in [Sections -> Rows]
  BY DEF Layout, Assemblers
<1>2. size \in Nat
  BY <1>1 DEF Current, Rows
<1>3. m \in Nat \ {0}
  BY PowerIsNat
<1> HIDE DEF m, size
<1>4. AlignUp(size, m) \in Nat /\ AlignUp(size, m) >= size
  BY <1>2, <1>3, AlignUpIs
<1>5. AlignUp(size, m) - size \in Nat
  BY <1>2, <1>4
<1> QED
  BY <1>5 DEF m, size

LEMMA AlignLayout ==
  ASSUME NEW asm, Layout(asm), NEW n \in Int
  PROVE  Layout(Align(asm, n)) /\ Align(asm, n).base = asm.base
<1> DEFINE pad == AlignUp(Current(asm).size, 2 ^ n) - Current(asm).size
<1>1. CASE n \notin 0 .. 16
  BY <1>1, FailLayout DEF Align
<1>2. CASE n \in 0 .. 16
  <2>1. pad \in Nat
    BY <1>2, PaddingIs
  <2>2. Align(asm, n) = IF pad = 0 THEN asm ELSE Put(asm, Piece("pad", pad, Literal(0)))
    BY <1>2 DEF Align
  <2> HIDE DEF pad
  <2>3. Piece("pad", pad, Literal(0)) \in Pieces
    BY <2>1, NoNumber, PieceIs DEF PieceKinds
  <2> QED
    BY <2>2, <2>3, PutLayout
<1> QED
  BY <1>1, <1>2

LEMMA InstLayout ==
  ASSUME NEW asm, Layout(asm), NEW kind \in PieceKinds, NEW e \in Expressions
  PROVE  Layout(Inst(asm, kind, e)) /\ Inst(asm, kind, e).base = asm.base
BY PieceIs, PutLayout DEF Inst

LEMMA LiLayout ==
  ASSUME NEW asm, Layout(asm), NEW e \in Expressions
  PROVE  Layout(Li(asm, e)) /\ Li(asm, e).base = asm.base
<1> DEFINE v == Eval(e, asm.symbols)
           p == [Piece("li", 4, e) EXCEPT !.value = v.v, !.early = Early(e, asm.symbols)]
<1>1. CASE v.is = "number" /\ v.v \in Imm12
  <2>1. v.v \in Int
    BY <1>1, ImmIsInt
  <2>2. Li(asm, e) = Put(asm, p)
    BY <1>1 DEF Li
  <2>3. Piece("li", 4, e) \in Pieces
    BY PieceIs DEF PieceKinds
  <2> HIDE DEF v
  <2>4. p \in Pieces
    BY <2>1, <2>3, EarlyIs DEF Pieces
  <2> HIDE DEF p
  <2> QED
    BY <2>2, <2>4, PutLayout
<1>2. CASE ~(v.is = "number" /\ v.v \in Imm12)
  <2>1. Li(asm, e) = Inst(Inst(asm, "li_hi", e), "li_lo", e)
    BY <1>2 DEF Li
  <2>2. "li_hi" \in PieceKinds /\ "li_lo" \in PieceKinds
    BY DEF PieceKinds
  <2> HIDE DEF v
  <2> QED
    BY <2>1, <2>2, InstLayout
<1> QED
  BY <1>1, <1>2

LEMMA LaLayout ==
  ASSUME NEW asm, Layout(asm), NEW e \in Expressions
  PROVE  Layout(La(asm, e)) /\ La(asm, e).base = asm.base
<1> DEFINE p == [Piece("pcrel_lo", 4, e) EXCEPT !.hi = Current(asm).size]
<1>1. Current(asm).size \in Nat
  BY DEF Layout, Assemblers, Current, Rows
<1>2. Piece("pcrel_lo", 4, e) \in Pieces /\ "pcrel_hi" \in PieceKinds
  BY PieceIs DEF PieceKinds
<1>3. p \in Pieces
  BY <1>1, <1>2 DEF Pieces
<1>4. La(asm, e) = Put(Inst(asm, "pcrel_hi", e), p)
  BY DEF La
<1> HIDE DEF p
<1> QED
  BY <1>2, <1>3, <1>4, InstLayout, PutLayout

LEMMA SourceLayout ==
  ASSUME NEW l \in SourceLines, Layout(a)
  PROVE  Layout(Source(l)) /\ Source(l).base = a.base
<1>1. /\ l.op \in {"label", "section", "equ", "bytes", "value", "align", "li", "la", "inst"}
      /\ l.op = "section" => l.name \in Sections
      /\ l.op \in {"bytes", "align"} => l.n \in Int
      /\ l.op = "value" => l.n \in {1, 4}
      /\ l.op = "inst" => l.kind \in Instructions
  BY LinesAssumption
<1>2. l.op \in {"label", "equ"} => l.name \in SourceNames
  BY DEF SourceNames
<1>3. l.op \in {"equ", "value", "li", "la", "inst"} => l.e \in Expressions
  BY DEF Expressions, WithExpression
<1>4. CASE l.op = "label"
  BY <1>2, <1>4, LabelLayout DEF Source
<1>5. CASE l.op = "section"
  BY <1>1, <1>5, SectionLayout DEF Source
<1>6. CASE l.op = "equ"
  BY <1>2, <1>3, <1>6, EquLayout DEF Source
<1>7. CASE l.op = "bytes"
  BY <1>1, <1>7, BytesLayout DEF Source
<1>8. CASE l.op = "value"
  BY <1>1, <1>3, <1>8, ValuesLayout DEF Source
<1>9. CASE l.op = "align"
  BY <1>1, <1>9, AlignLayout DEF Source
<1>10. CASE l.op = "li"
  BY <1>3, <1>10, LiLayout DEF Source
<1>11. CASE l.op = "la"
  BY <1>3, <1>11, LaLayout DEF Source
<1>12. CASE l.op = "inst"
  BY <1>1, <1>3, <1>12, InstLayout DEF Source, PieceKinds
<1> QED
  BY <1>1, <1>4, <1>5, <1>6, <1>7, <1>8, <1>9, <1>10, <1>11, <1>12

-----------------------------------------------------------------------------
(* The image: the builder's counters.                                        *)

InodeSet == [type : {FILE, DIR}, size : Nat, nlinks : Nat, direct : [0 .. MaxDirect - 1 -> Nat]]
RootEntries == [ino : Nat, name : Names \cup {Dot, DotDot}]

Counted(b) ==
  /\ b = [nextFreeBlock |-> b.nextFreeBlock, bitmap |-> b.bitmap, inodes |-> b.inodes,
          rootDirBlock |-> b.rootDirBlock, disk |-> b.disk, failed |-> b.failed]
  /\ b.nextFreeBlock \in FirstData .. TotalBlocks
  /\ b.inodes \in Seq(InodeSet) /\ Len(b.inodes) \in 1 .. NInodes
  /\ b.rootDirBlock \in Seq(RootEntries)

LEMMA BlocksForIs ==
  ASSUME NEW size \in Nat
  PROVE  BlocksFor(size) \in 0 .. MaxDirect
<1> DEFINE q == (size + UnitsPerBlock - 1) \div UnitsPerBlock
           x == size + UnitsPerBlock - 1
<1>1. x \in Nat /\ UnitsPerBlock \in Nat \ {0} /\ MaxDirect \in Nat
  BY MkfsAssumption
<1>2. q \in Nat
  <2> HIDE DEF x
  <2>1. x \div UnitsPerBlock \in Nat
    BY SMT, <1>1
  <2> QED
    BY <2>1 DEF x
<1> HIDE DEF q
<1> DEFINE m == IF q <= MaxDirect THEN q ELSE MaxDirect
<1>3. m \in {q, MaxDirect} /\ \A y \in {q, MaxDirect} : m <= y
  BY <1>1, <1>2
<1>4. Min({q, MaxDirect}) \in {q, MaxDirect} /\ \A y \in {q, MaxDirect} : Min({q, MaxDirect}) <= y
  <2> HIDE DEF m
  <2> QED
    BY <1>3 DEF Min
<1>5. BlocksFor(size) = Min({q, MaxDirect})
  BY DEF BlocksFor, q
<1> QED
  BY <1>1, <1>2, <1>4, <1>5

LEMMA AddEntryCounts ==
  ASSUME NEW b, Counted(b), NEW ino \in Nat, NEW name \in Names, ~AddEntry(b, ino, name).failed
  PROVE  /\ Counted(AddEntry(b, ino, name))
         /\ Len(AddEntry(b, ino, name).inodes) = Len(b.inodes)
<1>1. CASE Len(b.rootDirBlock) = UnitsPerBlock
  <2>1. AddEntry(b, ino, name) = [b EXCEPT !.failed = TRUE]
    BY <1>1 DEF AddEntry, Throw
  <2>2. "failed" \in DOMAIN b
    BY DEF Counted
  <2> QED
    BY <2>1, <2>2
<1>2. CASE Len(b.rootDirBlock) # UnitsPerBlock
  <2> DEFINE root == [b.inodes[1] EXCEPT !.size = Len(b.rootDirBlock) + 1]
             inodes == [b.inodes EXCEPT ![1] = root]
             row == Append(b.rootDirBlock, Entry(ino, name))
  <2>1. AddEntry(b, ino, name) = [b EXCEPT !.rootDirBlock = row, !.inodes = inodes]
    BY <1>2 DEF AddEntry
  <2>2. Entry(ino, name) \in RootEntries
    BY DEF Entry, RootEntries
  <2>3. row \in Seq(RootEntries) /\ Len(b.rootDirBlock) \in Nat
    BY <2>2 DEF Counted
  <2>4. b.inodes \in Seq(InodeSet) /\ Len(b.inodes) \in Nat /\ 1 \in DOMAIN b.inodes
    BY DEF Counted
  <2>5. b.inodes[1] \in InodeSet
    BY <2>4
  <2>6. root \in InodeSet
    <3> DEFINE first == b.inodes[1]
               size == Len(b.rootDirBlock) + 1
    <3>1. first \in InodeSet /\ size \in Nat
      BY <2>3, <2>5
    <3> HIDE DEF first, size
    <3>2. [first EXCEPT !.size = size] \in InodeSet
      BY <3>1 DEF InodeSet
    <3> QED
      BY <3>2 DEF first, size
  <2> HIDE DEF root, row
  <2>7. inodes \in Seq(InodeSet) /\ Len(inodes) = Len(b.inodes)
    BY <2>4, <2>6
  <2> HIDE DEF inodes
  <2> QED
    BY <2>1, <2>3, <2>7 DEF Counted
<1> QED
  BY <1>1, <1>2

LEMMA AllocBlocksCounts ==
  ASSUME NEW b, Counted(b), NEW n \in Nat, ~AllocBlocks(b, n).failed
  PROVE  /\ Counted(AllocBlocks(b, n)) /\ AllocBlocks(b, n).inodes = b.inodes
         /\ AllocBlocks(b, n).failed = b.failed
<1>1. /\ b.nextFreeBlock \in Nat /\ b.nextFreeBlock >= FirstData /\ FirstData \in Nat
      /\ TotalBlocks \in Nat /\ "failed" \in DOMAIN b
  BY MkfsAssumption DEF Counted
<1>2. CASE b.nextFreeBlock + n > TotalBlocks
  BY <1>1, <1>2 DEF AllocBlocks, Throw
<1>3. CASE ~(b.nextFreeBlock + n > TotalBlocks)
  <2> DEFINE bitmap == b.bitmap \cup (b.nextFreeBlock .. b.nextFreeBlock + n - 1)
             next == b.nextFreeBlock + n
  <2>1. AllocBlocks(b, n) = [b EXCEPT !.nextFreeBlock = next, !.bitmap = bitmap]
    BY <1>3 DEF AllocBlocks
  <2>2. next \in FirstData .. TotalBlocks
    BY <1>1, <1>3
  <2> HIDE DEF next, bitmap
  <2> QED
    BY <2>1, <2>2 DEF Counted
<1> QED
  BY <1>2, <1>3

LEMMA AllocInodeCounts ==
  ASSUME NEW b, Counted(b), NEW inode \in InodeSet, ~AllocInode(b, inode).failed
  PROVE  /\ Counted(AllocInode(b, inode)) /\ Len(AllocInode(b, inode).inodes) = Len(b.inodes) + 1
         /\ AllocInode(b, inode).nextFreeBlock = b.nextFreeBlock
         /\ AllocInode(b, inode).failed = b.failed
<1>1. Len(b.inodes) \in 1 .. NInodes /\ NInodes \in Nat /\ "failed" \in DOMAIN b
      /\ b.inodes \in Seq(InodeSet)
  BY MkfsAssumption DEF Counted
<1>2. CASE Len(b.inodes) = NInodes
  BY <1>1, <1>2 DEF AllocInode, Throw
<1>3. CASE Len(b.inodes) # NInodes
  <2> DEFINE inodes == Append(b.inodes, inode)
  <2>1. AllocInode(b, inode) = [b EXCEPT !.inodes = inodes]
    BY <1>3 DEF AllocInode
  <2>2. inodes \in Seq(InodeSet) /\ Len(inodes) = Len(b.inodes) + 1
    BY <1>1
  <2>3. Len(inodes) \in 1 .. NInodes
    BY <1>1, <1>3, <2>2
  <2> HIDE DEF inodes
  <2> QED
    BY <2>1, <2>2, <2>3 DEF Counted
<1> QED
  BY <1>2, <1>3

LEMMA PointersAre ==
  ASSUME NEW b, b.nextFreeBlock \in Nat, NEW n
  PROVE  Pointers(b, n) \in [0 .. MaxDirect - 1 -> Nat]
BY DEF Pointers, NoPointers

RootInode == [type |-> DIR, size |-> 2, nlinks |-> 2, direct |-> Pointers(New, 1)]

LEMMA MakeRootIs ==
  MakeRoot = [nextFreeBlock |-> FirstData + 1,
              bitmap |-> (0 .. FirstData - 1) \cup (FirstData .. FirstData + 1 - 1),
              inodes |-> <<RootInode>>, rootDirBlock |-> <<Entry(0, Dot), Entry(0, DotDot)>>,
              disk |-> EmptyDisk, failed |-> FALSE]
<1> DEFINE made == [New EXCEPT !.inodes = <<RootInode>>]
           row == <<Entry(0, Dot), Entry(0, DotDot)>>
<1>1. FirstData \in Nat /\ TotalBlocks \in Nat /\ FirstData + 1 <= TotalBlocks
      /\ NInodes \in Nat \ {0}
  BY MkfsAssumption
<1>2. New.inodes = <<>> /\ New.nextFreeBlock = FirstData /\ New.failed = FALSE
      /\ New.bitmap = 0 .. FirstData - 1 /\ New.disk = EmptyDisk
  BY DEF New
<1>3. AllocInode(New, RootInode) = made
  BY <1>1, <1>2 DEF AllocInode
<1>4. made.nextFreeBlock = FirstData /\ made.inodes = <<RootInode>> /\ made.failed = FALSE
      /\ made.disk = EmptyDisk /\ made.bitmap = 0 .. FirstData - 1
  BY DEF New
<1>5. MakeRoot = [AllocBlocks(made, 1) EXCEPT !.rootDirBlock = row]
  BY <1>3 DEF MakeRoot, RootInode
<1>6. ~(made.nextFreeBlock + 1 > TotalBlocks)
  BY <1>1, <1>4
<1>7. AllocBlocks(made, 1) =
        [made EXCEPT !.nextFreeBlock = @ + 1,
                     !.bitmap = @ \cup (made.nextFreeBlock .. made.nextFreeBlock + 1 - 1)]
  BY <1>6 DEF AllocBlocks
<1> QED
  BY <1>2, <1>4, <1>5, <1>7 DEF New

LEMMA MakeRootCounts == Counted(MakeRoot) /\ Len(MakeRoot.inodes) = 1 /\ ~MakeRoot.failed
<1> DEFINE row == <<Entry(0, Dot), Entry(0, DotDot)>>
<1>1. FirstData \in Nat /\ TotalBlocks \in Nat /\ FirstData + 1 <= TotalBlocks
      /\ NInodes \in Nat \ {0}
  BY MkfsAssumption
<1>2. RootInode \in InodeSet
  BY <1>1, PointersAre DEF RootInode, InodeSet, FILE, DIR, New
<1>3. row \in Seq(RootEntries)
  BY DEF RootEntries, Entry
<1>4. <<RootInode>> \in Seq(InodeSet) /\ Len(<<RootInode>>) = 1 /\ 1 \in 1 .. NInodes
  BY <1>1, <1>2
<1>5. MakeRoot = [nextFreeBlock |-> FirstData + 1,
                  bitmap |-> (0 .. FirstData - 1) \cup (FirstData .. FirstData + 1 - 1),
                  inodes |-> <<RootInode>>, rootDirBlock |-> row,
                  disk |-> EmptyDisk, failed |-> FALSE]
  BY MakeRootIs
<1> HIDE DEF row
<1> QED
  BY <1>1, <1>3, <1>4, <1>5 DEF Counted

LEMMA DiskIsNotCounted ==
  ASSUME NEW b, Counted(b), NEW disk
  PROVE  Counted([b EXCEPT !.disk = disk]) /\ [b EXCEPT !.disk = disk].inodes = b.inodes
BY DEF Counted

LEMMA AddFileCounts ==
  ASSUME NEW b, Counted(b), NEW f, f.size \in Nat, f.name \in Names, ~AddFile(b, f).failed
  PROVE  Counted(AddFile(b, f)) /\ Len(AddFile(b, f).inodes) = Len(b.inodes) + 1
<1> DEFINE n == BlocksFor(f.size)
           ino == Len(b.inodes)
           inode == [type |-> FILE, size |-> f.size, nlinks |-> 1, direct |-> Pointers(b, n)]
           made == AllocInode(b, inode)
           stored == AllocBlocks(made, n)
           written == [stored EXCEPT !.disk.data = WriteFile(b, f, n)]
<1>1. ino \in Nat /\ n \in Nat /\ b.nextFreeBlock \in Nat /\ "failed" \in DOMAIN b
  BY BlocksForIs, MkfsAssumption DEF Counted
<1>2. inode \in InodeSet
  <2> HIDE DEF n
  <2> QED
    BY <1>1, PointersAre DEF InodeSet
<1>3. AddFile(b, f) = IF made.failed \/ stored.failed THEN Throw(b)
                      ELSE AddEntry(written, ino, f.name)
  BY DEF AddFile
<1> HIDE DEF n, inode, written
<1>4. CASE made.failed \/ stored.failed
  BY <1>1, <1>3, <1>4 DEF Throw
<1>5. CASE ~(made.failed \/ stored.failed)
  <2>1. Counted(made) /\ Len(made.inodes) = Len(b.inodes) + 1
    BY <1>2, <1>5, AllocInodeCounts
  <2>2. Counted(stored) /\ stored.inodes = made.inodes
    <3> HIDE DEF made
    <3> QED
      BY <1>1, <1>5, <2>1, AllocBlocksCounts
  <2> HIDE DEF made, stored
  <2>3. Counted(written) /\ written.inodes = stored.inodes
    <3> DEFINE disk == [stored.disk EXCEPT !.data = WriteFile(b, f, n)]
    <3>1. written = [stored EXCEPT !.disk = disk]
      BY DEF written
    <3> HIDE DEF disk
    <3> QED
      BY <2>2, <3>1, DiskIsNotCounted
  <2>4. AddFile(b, f) = AddEntry(written, ino, f.name)
    BY <1>3, <1>5
  <2> QED
    BY <1>1, <2>1, <2>2, <2>3, <2>4, AddEntryCounts
<1> QED
  BY <1>4, <1>5

LEMMA AddDirCounts ==
  ASSUME NEW b, Counted(b), NEW name \in Names, ~AddDir(b, name).failed
  PROVE  Counted(AddDir(b, name)) /\ Len(AddDir(b, name).inodes) = Len(b.inodes) + 1
<1> DEFINE ino == Len(b.inodes)
           inode == [type |-> DIR, size |-> 2, nlinks |-> 2, direct |-> Pointers(b, 1)]
           made == AllocInode(b, inode)
           stored == AllocBlocks(made, 1)
           block == Padded(<<Entry(ino, Dot), Entry(0, DotDot)>>)
           written == [stored EXCEPT !.disk.data[b.nextFreeBlock] = block]
<1>1. ino \in Nat /\ b.nextFreeBlock \in Nat /\ "failed" \in DOMAIN b
  BY MkfsAssumption DEF Counted
<1>2. inode \in InodeSet
  BY <1>1, PointersAre DEF InodeSet
<1>3. AddDir(b, name) = IF stored.failed THEN Throw(b) ELSE AddEntry(written, ino, name)
  BY DEF AddDir
<1> HIDE DEF inode, block
<1>4. CASE stored.failed
  <2> HIDE DEF stored, written
  <2> QED
    BY <1>1, <1>3, <1>4 DEF Throw
<1>5. CASE ~stored.failed
  <2>0. made.failed => stored.failed
    <3>1. "failed" \in DOMAIN made
      BY DEF AllocInode, Throw, Counted, made
    <3> HIDE DEF made
    <3> QED
      BY <3>1 DEF AllocBlocks, Throw
  <2>1. Counted(made) /\ Len(made.inodes) = Len(b.inodes) + 1
    <3>1. ~made.failed
      BY <1>5, <2>0
    <3> QED
      BY <1>2, <3>1, AllocInodeCounts
  <2>2. Counted(stored) /\ stored.inodes = made.inodes
    <3> HIDE DEF made
    <3> QED
      BY <1>1, <1>5, <2>1, AllocBlocksCounts
  <2> HIDE DEF made, stored
  <2>3. Counted(written) /\ written.inodes = stored.inodes
    <3> DEFINE disk == [stored.disk EXCEPT !.data[b.nextFreeBlock] = block]
    <3>1. written = [stored EXCEPT !.disk = disk]
      BY DEF written
    <3> HIDE DEF disk
    <3> QED
      BY <2>2, <3>1, DiskIsNotCounted
  <2>4. AddDir(b, name) = AddEntry(written, ino, name)
    BY <1>3, <1>5
  <2> HIDE DEF written
  <2> QED
    BY <1>1, <2>1, <2>2, <2>3, <2>4, AddEntryCounts
<1> QED
  BY <1>4, <1>5

-----------------------------------------------------------------------------
(* The whole: what each stage has in its hands.                              *)

SourceFiles == UNION {s.files : s \in Scenarios}
Programs == [name : {"sh"}, contents : {"sh"}, dir : {FALSE}, size : Nat]

Built ==
  /\ stage \in {"lines", "elf", "loaded", "files", "image", "thrown"}
  /\ scenario \in Scenarios
  /\ Layout(a)
  /\ stage \in {"lines", "elf", "loaded"} => added = <<>>
  /\ stage \in {"elf", "loaded"} => Assembles(a) /\ elf = BuildElf(a)
  /\ stage = "loaded" => mem = LoadSegments(elf, ReadElf(elf).segment)
  /\ stage \in {"files", "image"} =>
       Counted(d) /\ added \in Seq(SourceFiles \cup Programs) /\ Len(added) = Len(d.inodes) - 1

LEMMA ScenarioIs ==
  ASSUME NEW s \in Scenarios
  PROVE  /\ s.base \in Nat /\ s.source \in SUBSET SourceLines
         /\ \A f \in s.files : f \in SourceFiles /\ f.size \in Nat /\ f.name \in Names
BY BuildAssumption DEF SourceLines, SourceFiles, Names

LEMMA SizesAre ==
  ASSUME NEW asm, Layout(asm), NEW s \in Sections
  PROVE  SizeOf(asm, s) \in Nat /\ Items(asm, s) \in Seq(Pieces)
BY DEF Layout, Assemblers, Rows, SizeOf, Items

LEMMA SizeOfElf ==
  ASSUME NEW asm, Layout(asm)
  PROVE  BuildElf(asm).size \in Nat
<1>1. SizeOf(asm, "text") \in Nat /\ SizeOf(asm, "data") \in Nat
  BY SizesAre DEF Sections
<1>2. IsFiniteSet(Labels(asm))
  BY FS_Subset DEF Layout, Labels
<1>3. Cardinality(Labels(asm)) \in Nat
  BY <1>2, FS_CardinalityType
<1>4. BuildElf(asm).size = ElfSize(asm)
  BY DEF BuildElf
<1> DEFINE c == Cardinality(Labels(asm))
           x == SizeOf(asm, "text")
           y == SizeOf(asm, "data")
<1>5. ElfSize(asm) = 256 + x + y + 7 * 40 + 44 + 18 * c + 1
  BY DEF ElfSize, SegOff
<1>6. c \in Nat /\ x \in Nat /\ y \in Nat
  BY <1>1, <1>3
<1> HIDE DEF c, x, y
<1> QED
  BY <1>4, <1>5, <1>6

LEMMA InitBuilt == Init => Built
<1> SUFFICES ASSUME Init PROVE Built
  OBVIOUS
<1>1. scenario \in Scenarios /\ stage = "lines" /\ a = Begin(scenario.base) /\ added = <<>>
  BY DEF Init
<1>2. Layout(a)
  BY <1>1, ScenarioIs, BeginLayout
<1> QED
  BY <1>1, <1>2 DEF Built

LEMMA LineBuilt ==
  ASSUME Built, NEW l \in scenario.source, Line(l)
  PROVE  Built'
<1>1. /\ stage' \in {"lines", "thrown"} /\ a' = Source(l) /\ scenario' = scenario
      /\ stage = "lines" /\ added' = added
  BY DEF Line
<1>2. l \in SourceLines /\ Layout(a)
  BY ScenarioIs DEF Built
<1>3. Layout(a')
  BY <1>1, <1>2, SourceLayout
<1> QED
  BY <1>1, <1>3 DEF Built

LEMMA Pass2Built ==
  ASSUME Built, Pass2
  PROVE  Built'
<1>1. stage = "lines" /\ UNCHANGED <<scenario, a, mem, d, added>>
  BY DEF Pass2
<1>2. Layout(a')
  BY <1>1 DEF Built
<1>3. \/ stage' = "elf" /\ elf' = BuildElf(a) /\ Assembles(a)
      \/ stage' = "thrown"
  BY DEF Pass2
<1> QED
  BY <1>1, <1>2, <1>3 DEF Built

LEMMA LoadBuilt ==
  ASSUME Built, Load
  PROVE  Built'
<1>1. /\ stage = "elf" /\ stage' = "loaded" /\ UNCHANGED <<scenario, a, elf, d, added>>
      /\ mem' = LoadSegments(elf, ReadElf(elf).segment)
  BY DEF Load
<1> QED
  BY <1>1 DEF Built

LEMMA ProgramIs ==
  ASSUME Built, stage = "loaded"
  PROVE  Program \in Programs /\ Program.size \in Nat /\ Program.name \in Names
<1>1. elf.size \in Nat
  BY SizeOfElf DEF Built
<1> DEFINE x == elf.size + UnitBytes - 1
<1>2. x \in Nat /\ UnitBytes \in Nat \ {0}
  BY <1>1, BuildAssumption
<1>3. x \div UnitBytes \in Nat
  <2> HIDE DEF x
  <2> QED
    BY SMT, <1>2
<1>4. Program = [name |-> "sh", contents |-> "sh", dir |-> FALSE, size |-> x \div UnitBytes]
  BY DEF Program
<1> HIDE DEF x
<1> QED
  BY <1>3, <1>4 DEF Programs, Names

\* A file or directory more in the image.
LEMMA GrownBuilt ==
  ASSUME NEW b, NEW n, NEW f \in SourceFiles \cup Programs, NEW seq \in Seq(SourceFiles \cup Programs),
         Counted(b), Len(seq) = Len(b.inodes) - 1,
         Counted(n), Len(n.inodes) = Len(b.inodes) + 1
  PROVE  Append(seq, f) \in Seq(SourceFiles \cup Programs) /\ Len(Append(seq, f)) = Len(n.inodes) - 1
<1> DEFINE S == SourceFiles \cup Programs
<1>1. f \in S /\ seq \in Seq(S) /\ Len(seq) \in Nat /\ Len(b.inodes) \in Nat
  BY DEF Counted
<1> HIDE DEF S
<1>2. Append(seq, f) \in Seq(S) /\ Len(Append(seq, f)) = Len(seq) + 1
  BY <1>1
<1> QED
  BY <1>1, <1>2 DEF S

LEMMA FormatBuilt ==
  ASSUME Built, Format
  PROVE  Built'
<1>1. /\ stage = "loaded" /\ UNCHANGED scenario /\ a' = Begin(a.base)
      /\ d' = AddFile(MakeRoot, Program) /\ added' = Append(added, Program)
      /\ stage' = IF d'.failed THEN "thrown" ELSE "files"
  BY DEF Format, Grown
<1>2. Layout(a')
  <2>1. a.base \in Nat
    BY DEF Built, Layout, Assemblers
  <2> QED
    BY <1>1, <2>1, BeginLayout
<1>3. CASE d'.failed
  BY <1>1, <1>2, <1>3 DEF Built
<1>4. CASE ~d'.failed
  <2>1. Counted(d') /\ Len(d'.inodes) = Len(MakeRoot.inodes) + 1
    BY <1>1, <1>4, MakeRootCounts, ProgramIs, AddFileCounts
  <2>2. Program \in SourceFiles \cup Programs
    BY <1>1, ProgramIs
  <2>3. <<>> \in Seq(SourceFiles \cup Programs) /\ Len(<<>>) = Len(MakeRoot.inodes) - 1
    BY MakeRootCounts
  <2>4. added' = Append(<<>>, Program)
    BY <1>1 DEF Built
  <2>5. added' \in Seq(SourceFiles \cup Programs) /\ Len(added') = Len(d'.inodes) - 1
    BY <2>1, <2>2, <2>3, <2>4, MakeRootCounts, GrownBuilt
  <2> QED
    BY <1>1, <1>2, <1>4, <2>1, <2>5 DEF Built
<1> QED
  BY <1>3, <1>4

LEMMA AddBuilt ==
  ASSUME Built, NEW f \in scenario.files, Add(f)
  PROVE  Built'
<1>1. /\ stage = "files" /\ UNCHANGED <<scenario, a, elf, mem>>
      /\ d' = (IF f.dir THEN AddDir(d, f.name) ELSE AddFile(d, f))
      /\ added' = Append(added, f)
      /\ stage' = IF d'.failed THEN "thrown" ELSE "files"
  BY DEF Add, Grown
<1>2. Counted(d) /\ added \in Seq(SourceFiles \cup Programs) /\ Len(added) = Len(d.inodes) - 1
      /\ scenario \in Scenarios /\ Layout(a)
  BY <1>1 DEF Built
<1>3. Layout(a')
  BY <1>1, <1>2
<1>4. CASE d'.failed
  BY <1>1, <1>2, <1>3, <1>4 DEF Built
<1>5. CASE ~d'.failed
  <2>1. f \in SourceFiles /\ f.size \in Nat /\ f.name \in Names
    BY <1>2, ScenarioIs
  <2>2. Counted(d') /\ Len(d'.inodes) = Len(d.inodes) + 1
    BY <1>1, <1>2, <1>5, <2>1, AddFileCounts, AddDirCounts
  <2>3. added' \in Seq(SourceFiles \cup Programs) /\ Len(added') = Len(d'.inodes) - 1
    BY <1>1, <1>2, <2>1, <2>2, GrownBuilt
  <2> QED
    BY <1>1, <1>2, <1>3, <1>5, <2>2, <2>3 DEF Built
<1> QED
  BY <1>4, <1>5

LEMMA CloseCounts ==
  ASSUME NEW b, Counted(b)
  PROVE  Counted(Close(b)) /\ Close(b).inodes = b.inodes
<1> DEFINE disk == [b.disk EXCEPT
                      !.data[b.inodes[1].direct[0]] = Padded(b.rootDirBlock),
                      !.superblock = [blocks |-> TotalBlocks, inodes |-> NInodes,
                                      free |-> TotalBlocks - b.nextFreeBlock, first |-> FirstData],
                      !.bitmap = b.bitmap, !.table = b.inodes]
<1>1. Close(b) = [b EXCEPT !.disk = disk]
  BY DEF Close, Counted
<1> HIDE DEF disk
<1> QED
  BY <1>1, DiskIsNotCounted

LEMMA FinishBuilt ==
  ASSUME Built, Finish
  PROVE  Built'
<1>1. /\ stage = "files" /\ stage' = "image" /\ d' = Close(d)
      /\ UNCHANGED <<scenario, a, elf, mem, added>>
  BY DEF Finish
<1>2. Counted(d') /\ d'.inodes = d.inodes
  BY <1>1, CloseCounts DEF Built
<1>3. Layout(a')
  BY <1>1 DEF Built
<1> QED
  BY <1>1, <1>2, <1>3 DEF Built

LEMMA NextBuilt == Built /\ [Next]_vars => Built'
<1> SUFFICES ASSUME Built, [Next]_vars PROVE Built'
  OBVIOUS
<1>1. CASE UNCHANGED vars
  <2>1. UNCHANGED <<stage, scenario, a, elf, mem, d, added>>
    BY <1>1 DEF vars
  <2>2. Layout(a') /\ (Counted(d) => Counted(d')) /\ (Assembles(a) => Assembles(a'))
        /\ BuildElf(a') = BuildElf(a) /\ ReadElf(elf') = ReadElf(elf)
    BY <2>1 DEF Built
  <2> QED
    BY <2>1, <2>2 DEF Built
<1>2. ASSUME NEW l \in scenario.source, Line(l) PROVE Built'
  BY <1>2, LineBuilt
<1>3. CASE Pass2
  BY <1>3, Pass2Built
<1>4. CASE Load
  BY <1>4, LoadBuilt
<1>5. CASE Format
  BY <1>5, FormatBuilt
<1>6. CASE Finish
  BY <1>6, FinishBuilt
<1>7. ASSUME NEW f \in scenario.files, Add(f) PROVE Built'
  BY <1>7, AddBuilt
<1> QED
  BY <1>1, <1>2, <1>3, <1>4, <1>5, <1>6, <1>7 DEF Next

LEMMA BuiltTypeOK == Built => TypeOK
<1> SUFFICES ASSUME Built PROVE TypeOK
  OBVIOUS
<1>1. a.failed \in BOOLEAN /\ a.cur \in Sections
  BY DEF Built, Layout, Assemblers
<1>2. ASSUME NEW s \in Sections
      PROVE  /\ \A i \in DOMAIN Items(a, s) : Items(a, s)[i].offset = EndOf(Items(a, s), i - 1)
                                             /\ Items(a, s)[i].n \in Nat
             /\ SizeOf(a, s) = EndOf(Items(a, s), Len(Items(a, s)))
  <2> DEFINE row == Items(a, s)
  <2>1. row \in Seq(Pieces) /\ Gapless(row, SizeOf(a, s))
    BY SizesAre DEF Built, Layout, Items, SizeOf
  <2>2. \A i \in DOMAIN row : row[i].n \in Nat
    <3> HIDE DEF row
    <3>1. \A i \in DOMAIN row : row[i] \in Pieces
      BY <2>1
    <3> QED
      BY <3>1 DEF Pieces
  <2> HIDE DEF row
  <2> QED
    BY <2>1, <2>2 DEF Gapless, row
<1>3. stage \in {"files", "image"} =>
        /\ d.nextFreeBlock \in FirstData .. TotalBlocks
        /\ Len(d.inodes) \in 1 .. NInodes /\ Len(added) = Len(d.inodes) - 1
  BY DEF Built, Counted
<1>4. stage \in {"lines", "elf", "loaded", "files", "image", "thrown"}
  BY DEF Built
<1> QED
  BY <1>1, <1>2, <1>3, <1>4 DEF TypeOK

LEMMA Invariance == Spec => []Built
<1>1. Init => Built
  BY InitBuilt
<1>2. Built /\ [Next]_vars => Built'
  BY NextBuilt
<1> QED
  BY <1>1, <1>2, PTL DEF Spec

THEOREM TypeCorrect == Spec => []TypeOK
<1>1. Built => TypeOK
  BY BuiltTypeOK
<1> QED
  BY <1>1, Invariance, PTL

-----------------------------------------------------------------------------
(* The file and the segment: where the pieces of each section end up.        *)

Start(asm, s) == asm.base + (IF s = "text" THEN 0 ELSE SizeOf(asm, "text"))

\* Piece i of section s, as it lies in the file and in memory.
InFile(asm, s, i, off) ==
  LET p == Items(asm, s)[i]
  IN [section |-> s, index |-> i, kind |-> p.kind, e |-> p.e, n |-> p.n, value |-> p.value,
      early |-> p.early, off |-> off + p.offset, code |-> PatchInst(asm, s, p)]
InMemory(asm, s, i) ==
  LET p == Items(asm, s)[i]
  IN [section |-> s, index |-> i, kind |-> p.kind, e |-> p.e, n |-> p.n, value |-> p.value,
      early |-> p.early, code |-> PatchInst(asm, s, p), at |-> Start(asm, s) + p.offset]

LEMMA PieceTypes ==
  ASSUME NEW asm, Layout(asm), NEW s \in Sections, NEW i \in DOMAIN Items(asm, s)
  PROVE  /\ Items(asm, s)[i] \in Pieces
         /\ Items(asm, s)[i].offset \in Nat /\ Items(asm, s)[i].n \in Nat
         /\ EndOf(Items(asm, s), i) = Items(asm, s)[i].offset + Items(asm, s)[i].n
         /\ EndOf(Items(asm, s), i) <= SizeOf(asm, s)
<1> DEFINE row == Items(asm, s)
<1>1. row \in Seq(Pieces) /\ Gapless(row, SizeOf(asm, s))
  BY SizesAre DEF Layout, Items, SizeOf
<1>2. i \in DOMAIN row /\ i # 0
  <2>1. row \in Seq(Pieces)
    BY <1>1
  <2> QED
    BY <2>1
<1> HIDE DEF row
<1>3. row[i] \in Pieces
  BY <1>1, <1>2
<1>4. EndOf(row, i) = row[i].offset + row[i].n
  BY <1>2 DEF EndOf
<1>5. EndOf(row, i) <= SizeOf(asm, s)
  BY <1>1, <1>2 DEF Gapless
<1>6. row[i].offset \in Nat /\ row[i].n \in Nat
  BY <1>3 DEF Pieces
<1> QED
  BY <1>3, <1>4, <1>5, <1>6 DEF row

LEMMA SizeTypes ==
  ASSUME NEW asm, Layout(asm)
  PROVE  /\ asm.base \in Nat
         /\ SizeOf(asm, "text") \in Nat /\ SizeOf(asm, "data") \in Nat /\ SizeOf(asm, "bss") \in Nat
<1>1. asm.base \in Nat
  BY DEF Layout, Assemblers
<1> QED
  BY <1>1, SizesAre DEF Sections

Filed == {"text", "data"}

Segment(asm) == [off |-> SegOff, vaddr |-> asm.base,
                 filesz |-> SizeOf(asm, "text") + SizeOf(asm, "data"), memsz |-> MemSize(asm)]

LEMMA SegmentIs ==
  ASSUME NEW asm
  PROVE  ReadElf(BuildElf(asm)).segment = Segment(asm)
BY DEF ReadElf, BuildElf, Segment

FileOffset(asm, s) == IF s = "text" THEN SegOff ELSE SegOff + SizeOf(asm, "text")

LEMMA FileHolds ==
  ASSUME NEW asm, NEW q
  PROVE  q \in BuildElf(asm).bytes <=>
           \E s \in Filed : \E i \in DOMAIN Items(asm, s) :
             q = InFile(asm, s, i, FileOffset(asm, s))
<1>1. BuildElf(asm).bytes = RenderSection(asm, "text", SegOff)
                            \cup RenderSection(asm, "data", SegOff + SizeOf(asm, "text"))
  BY DEF BuildElf
<1>2. \A s, off : RenderSection(asm, s, off)
                    = {InFile(asm, s, i, off) : i \in DOMAIN Items(asm, s)}
  BY DEF RenderSection, InFile
<1>3. q \in RenderSection(asm, "text", SegOff) <=>
        \E i \in DOMAIN Items(asm, "text") : q = InFile(asm, "text", i, SegOff)
  BY <1>2
<1>4. q \in RenderSection(asm, "data", SegOff + SizeOf(asm, "text")) <=>
        \E i \in DOMAIN Items(asm, "data") :
          q = InFile(asm, "data", i, SegOff + SizeOf(asm, "text"))
  BY <1>2
<1>5. FileOffset(asm, "text") = SegOff /\ FileOffset(asm, "data") = SegOff + SizeOf(asm, "text")
  BY DEF FileOffset
<1> QED
  BY <1>1, <1>3, <1>4, <1>5 DEF Filed

\* All pieces lie in the segment, so all of them are loaded.
LEMMA AllFit ==
  ASSUME NEW asm, Layout(asm), NEW s \in Filed, NEW i \in DOMAIN Items(asm, s)
  PROVE  LET q == InFile(asm, s, i, FileOffset(asm, s))
         IN /\ q.off >= SegOff /\ q.off + q.n <= SegOff + Segment(asm).filesz
            /\ asm.base + q.off - SegOff = Start(asm, s) + Items(asm, s)[i].offset
<1> DEFINE q == InFile(asm, s, i, FileOffset(asm, s))
           o == Items(asm, s)[i].offset
           n == Items(asm, s)[i].n
           t == SizeOf(asm, "text")
           u == SizeOf(asm, "data")
<1>1. q.off = FileOffset(asm, s) + o /\ q.n = n
  BY DEF InFile
<1>2. s \in Sections
  BY DEF Filed, Sections
<1>3. o \in Nat /\ n \in Nat /\ o + n <= SizeOf(asm, s)
  BY <1>2, PieceTypes
<1>4. t \in Nat /\ u \in Nat /\ asm.base \in Nat
  BY SizeTypes
<1>5. Segment(asm).filesz = t + u
  BY DEF Segment
<1>6. FileOffset(asm, s) = IF s = "text" THEN 256 ELSE 256 + t
  BY DEF FileOffset, SegOff
<1>7. Start(asm, s) = asm.base + (IF s = "text" THEN 0 ELSE t)
  BY DEF Start
<1>8. SizeOf(asm, s) = IF s = "text" THEN t ELSE u
  BY DEF Filed
<1> HIDE DEF q, o, n, t, u
<1>9. /\ q.off >= 256 /\ q.off + q.n <= 256 + (t + u)
      /\ asm.base + q.off - 256 = Start(asm, s) + o
  BY <1>1, <1>3, <1>4, <1>6, <1>7, <1>8
<1> QED
  BY <1>5, <1>9 DEF SegOff, q, o

Loaded(asm) == LoadSegments(BuildElf(asm), Segment(asm))

LEMMA MemoryHolds ==
  ASSUME NEW asm, Layout(asm), NEW p
  PROVE  p \in Loaded(asm).pieces <=>
           \E s \in Filed : \E i \in DOMAIN Items(asm, s) : p = InMemory(asm, s, i)
<1> DEFINE seg == Segment(asm)
           file == BuildElf(asm).bytes
           Copy(q) == [section |-> q.section, index |-> q.index, kind |-> q.kind, e |-> q.e,
                       n |-> q.n, value |-> q.value, early |-> q.early, code |-> q.code,
                       at |-> seg.vaddr + q.off - seg.off]
           Fits(q) == q.off >= seg.off /\ q.off + q.n <= seg.off + seg.filesz
           Of(s, i) == InFile(asm, s, i, FileOffset(asm, s))
<1>1. Loaded(asm).pieces = {Copy(q) : q \in {r \in file : Fits(r)}}
  BY DEF Loaded, LoadSegments
<1>2. ASSUME NEW s \in Filed, NEW i \in DOMAIN Items(asm, s)
      PROVE  Of(s, i) \in file /\ Fits(Of(s, i)) /\ Copy(Of(s, i)) = InMemory(asm, s, i)
  <2>1. Of(s, i) \in file
    BY FileHolds
  <2>2. seg.off = SegOff /\ seg.vaddr = asm.base
    BY DEF Segment
  <2>3. Fits(Of(s, i))
        /\ asm.base + Of(s, i).off - SegOff = Start(asm, s) + Items(asm, s)[i].offset
    BY <2>2, AllFit
  <2>4. Copy(Of(s, i)) = InMemory(asm, s, i)
    BY <2>2, <2>3 DEF InFile, InMemory
  <2> QED
    BY <2>1, <2>3, <2>4
<1>3. ASSUME NEW q \in file
      PROVE  \E s \in Filed : \E i \in DOMAIN Items(asm, s) : q = Of(s, i)
  BY FileHolds
<1> HIDE DEF seg, file, Copy, Fits, Of
<1>4. ASSUME p \in Loaded(asm).pieces
      PROVE  \E s \in Filed : \E i \in DOMAIN Items(asm, s) : p = InMemory(asm, s, i)
  <2>1. PICK q \in file : p = Copy(q)
    BY <1>1, <1>4
  <2>2. PICK s \in Filed : \E i \in DOMAIN Items(asm, s) : q = Of(s, i)
    BY <1>3
  <2>3. PICK i \in DOMAIN Items(asm, s) : q = Of(s, i)
    BY <2>2
  <2> QED
    BY <1>2, <2>1, <2>3
<1>5. ASSUME NEW s \in Filed, NEW i \in DOMAIN Items(asm, s), p = InMemory(asm, s, i)
      PROVE  p \in Loaded(asm).pieces
  BY <1>1, <1>2, <1>5
<1> QED
  BY <1>4, <1>5

LEMMA Spans ==
  ASSUME NEW asm, Layout(asm)
  PROVE  Loaded(asm).from = asm.base /\ Loaded(asm).to = asm.base + MemSize(asm)
<1> DEFINE f == SizeOf(asm, "text") + SizeOf(asm, "data")
           m == MemSize(asm)
<1>1. f \in Nat /\ m \in Nat /\ f <= m
  BY SizeTypes DEF MemSize
<1>2. Loaded(asm).from = asm.base /\ Loaded(asm).to = asm.base + Max({f, m})
  BY DEF Loaded, LoadSegments, Segment
<1> HIDE DEF f, m
<1>3. Max({f, m}) \in {f, m} /\ \A y \in {f, m} : Max({f, m}) >= y
  <2>1. m \in {f, m} /\ \A y \in {f, m} : m >= y
    BY <1>1
  <2> QED
    BY <2>1 DEF Max
<1>4. Max({f, m}) = m
  BY <1>1, <1>3
<1> QED
  BY <1>2, <1>4 DEF m

\* Two pieces in memory lie one behind the other.
LEMMA PiecesApart ==
  ASSUME NEW asm, Layout(asm), NEW s \in Filed, NEW r \in Filed,
         NEW i \in DOMAIN Items(asm, s), NEW j \in DOMAIN Items(asm, r), s # r \/ i # j
  PROVE  LET p == InMemory(asm, s, i)
             q == InMemory(asm, r, j)
         IN p.at + p.n <= q.at \/ q.at + q.n <= p.at
<1> DEFINE p == InMemory(asm, s, i)
           q == InMemory(asm, r, j)
           po == Items(asm, s)[i].offset
           pn == Items(asm, s)[i].n
           qo == Items(asm, r)[j].offset
           qn == Items(asm, r)[j].n
           t == SizeOf(asm, "text")
<1>1. p.at = Start(asm, s) + po /\ p.n = pn /\ q.at = Start(asm, r) + qo /\ q.n = qn
  BY DEF InMemory
<1>2. /\ s \in Sections /\ r \in Sections /\ asm.base \in Nat /\ t \in Nat
  BY SizeTypes DEF Filed, Sections
<1>3. /\ po \in Nat /\ pn \in Nat /\ po + pn <= SizeOf(asm, s) /\ po + pn = EndOf(Items(asm, s), i)
      /\ qo \in Nat /\ qn \in Nat /\ qo + qn <= SizeOf(asm, r) /\ qo + qn = EndOf(Items(asm, r), j)
  BY <1>2, PieceTypes
<1>4. Start(asm, s) = asm.base + (IF s = "text" THEN 0 ELSE t)
      /\ Start(asm, r) = asm.base + (IF r = "text" THEN 0 ELSE t)
  BY DEF Start
<1>5. ASSUME s = r PROVE i \in Int /\ j \in Int /\ (i < j => po + pn <= qo) /\ (j < i => qo + qn <= po)
  <2>1. Items(asm, s) \in Seq(Pieces) /\ Gapless(Items(asm, s), SizeOf(asm, s))
    BY <1>2, SizesAre DEF Layout, Items, SizeOf
  <2>2. i \in Int /\ j \in Int
    BY <1>5, <2>1
  <2> QED
    BY <1>3, <1>5, <2>1, <2>2 DEF Gapless
<1> HIDE DEF p, q, po, pn, qo, qn
<1>6. CASE s = r
  BY <1>1, <1>2, <1>3, <1>4, <1>5, <1>6 DEF p, q
<1>7. CASE s # r
  <2>1. SizeOf(asm, s) = t \/ s = "data"
    BY DEF Filed
  <2>2. SizeOf(asm, r) = t \/ r = "data"
    BY DEF Filed
  <2>3. (s = "text" /\ r = "data") \/ (s = "data" /\ r = "text")
    BY <1>7 DEF Filed
  <2> HIDE DEF t
  <2>4. CASE s = "text" /\ r = "data"
    <3>1. Start(asm, s) = asm.base + 0 /\ Start(asm, r) = asm.base + t /\ po + pn <= t
      BY <1>3, <1>4, <2>4 DEF t
    <3>2. p.at + p.n <= q.at
      BY <1>1, <1>2, <1>3, <3>1
    <3> QED
      BY <3>2 DEF p, q
  <2>5. CASE s = "data" /\ r = "text"
    <3>1. Start(asm, r) = asm.base + 0 /\ Start(asm, s) = asm.base + t /\ qo + qn <= t
      BY <1>3, <1>4, <2>5 DEF t
    <3>2. q.at + q.n <= p.at
      BY <1>1, <1>2, <1>3, <3>1
    <3> QED
      BY <3>2 DEF p, q
  <2> QED
    BY <2>3, <2>4, <2>5
<1> QED
  BY <1>6, <1>7

LEMMA BasesAre ==
  ASSUME NEW asm, Layout(asm)
  PROVE  /\ Bases(asm).text = asm.base /\ Bases(asm)["text"] = asm.base
         /\ Bases(asm).data = asm.base + AlignUp(SizeOf(asm, "text"), 4)
         /\ Bases(asm).bss = Bases(asm).data + AlignUp(SizeOf(asm, "data"), 4)
         /\ Bases(asm).data \in Nat /\ Bases(asm).bss \in Nat
         /\ AlignUp(SizeOf(asm, "text"), 4) \in Nat /\ AlignUp(SizeOf(asm, "data"), 4) \in Nat
         /\ AlignUp(SizeOf(asm, "text"), 4) >= SizeOf(asm, "text")
         /\ AlignUp(SizeOf(asm, "data"), 4) >= SizeOf(asm, "data")
<1>1. /\ SizeOf(asm, "text") \in Nat /\ SizeOf(asm, "data") \in Nat /\ asm.base \in Nat
  BY SizeTypes
<1>2. /\ AlignUp(SizeOf(asm, "text"), 4) \in Nat /\ AlignUp(SizeOf(asm, "data"), 4) \in Nat
      /\ AlignUp(SizeOf(asm, "text"), 4) >= SizeOf(asm, "text")
      /\ AlignUp(SizeOf(asm, "data"), 4) >= SizeOf(asm, "data")
  BY <1>1, AlignWord
<1>3. /\ Bases(asm).text = asm.base /\ Bases(asm)["text"] = asm.base
      /\ Bases(asm).data = asm.base + AlignUp(SizeOf(asm, "text"), 4)
      /\ Bases(asm).bss = Bases(asm).data + AlignUp(SizeOf(asm, "data"), 4)
  BY DEF Bases
<1> QED
  BY <1>1, <1>2, <1>3

\* Every piece is between the start of the segment and .bss.
LEMMA PiecesInSpan ==
  ASSUME NEW asm, Layout(asm), NEW s \in Filed, NEW i \in DOMAIN Items(asm, s)
  PROVE  LET p == InMemory(asm, s, i)
         IN p.at \in Nat /\ p.n \in Nat /\ p.at >= asm.base /\ p.at + p.n <= Bases(asm).bss
<1> DEFINE p == InMemory(asm, s, i)
           o == Items(asm, s)[i].offset
           n == Items(asm, s)[i].n
           t == SizeOf(asm, "text")
           u == SizeOf(asm, "data")
           t4 == AlignUp(SizeOf(asm, "text"), 4)
           u4 == AlignUp(SizeOf(asm, "data"), 4)
<1>1. p.at = Start(asm, s) + o /\ p.n = n
  BY DEF InMemory
<1>2. s \in Sections
  BY DEF Filed, Sections
<1>3. o \in Nat /\ n \in Nat /\ o + n <= SizeOf(asm, s)
  BY <1>2, PieceTypes
<1>4. t \in Nat /\ u \in Nat /\ asm.base \in Nat
  BY SizeTypes
<1>5. t4 \in Nat /\ u4 \in Nat /\ t4 >= t /\ u4 >= u /\ Bases(asm).bss = (asm.base + t4) + u4
  BY BasesAre
<1>6. Start(asm, s) = asm.base + (IF s = "text" THEN 0 ELSE t)
  BY DEF Start
<1>7. SizeOf(asm, s) = IF s = "text" THEN t ELSE u
  BY DEF Filed
<1> HIDE DEF p, o, n, t, u, t4, u4
<1>8. p.at \in Nat /\ p.n \in Nat /\ p.at >= asm.base /\ p.at + p.n <= Bases(asm).bss
  BY <1>1, <1>3, <1>4, <1>5, <1>6, <1>7
<1> QED
  BY <1>8 DEF p

\* The symbol table of the file gives each label the address the writer thinks it has.
LEMMA SymbolsRead ==
  ASSUME NEW asm, NEW n \in Labels(asm)
  PROVE  ReadElf(BuildElf(asm)).symbols[n]
           = asm.symbols[n].offset + (IF asm.symbols[n].section = "bss"
                                      THEN Bases(asm).data + SizeOf(asm, "data")
                                      ELSE Bases(asm)[asm.symbols[n].section])
<1> DEFINE V(m) == asm.symbols[m].offset + (IF asm.symbols[m].section = "bss"
                                            THEN Bases(asm).data + SizeOf(asm, "data")
                                            ELSE Bases(asm)[asm.symbols[m].section])
           S(m) == [name |-> m, section |-> asm.symbols[m].section, value |-> V(m)]
           table == {S(m) : m \in Labels(asm)}
<1>1. BuildElf(asm).symtab = table
  BY DEF BuildElf, Symtab
<1>2. ReadElf(BuildElf(asm)).symbols
        = [m \in {s.name : s \in table} |-> (CHOOSE s \in table : s.name = m).value]
  BY <1>1 DEF ReadElf
<1>3. S(n) \in table /\ S(n).name = n /\ S(n).value = V(n)
  OBVIOUS
<1>4. \A s \in table : s = S(s.name)
  OBVIOUS
<1> HIDE DEF table, S, V
<1>5. (CHOOSE s \in table : s.name = n) = S(n)
  BY <1>3, <1>4
<1>6. n \in {s.name : s \in table}
  BY <1>3
<1>7. ReadElf(BuildElf(asm)).symbols[n] = V(n)
  BY <1>2, <1>3, <1>5, <1>6
<1> QED
  BY <1>7 DEF V

LEMMA ResolvedLabel ==
  ASSUME NEW asm, Layout(asm), NEW n \in Labels(asm)
  PROVE  /\ Resolved(asm)[n].value = Num(Bases(asm)[asm.symbols[n].section] + asm.symbols[n].offset)
         /\ Resolved(asm)[n].value.v = Bases(asm)[asm.symbols[n].section] + asm.symbols[n].offset
<1>1. n \in DOMAIN asm.symbols /\ asm.symbols[n].kind = "label"
  BY DEF Labels
<1>2. asm.symbols[n] \in Symbols
  BY <1>1, TableIs DEF Layout, Assemblers
<1> DEFINE s == asm.symbols[n]
           v == Num(Bases(asm)[s.section] + s.offset)
<1>3. Resolved(asm)[n] = [s EXCEPT !.value = v]
  BY <1>1 DEF Resolved
<1>4. "value" \in DOMAIN s
  BY <1>2 DEF Symbols
<1> HIDE DEF s, v
<1>5. Resolved(asm)[n].value = v
  BY <1>3, <1>4
<1> QED
  BY <1>5 DEF s, v, Num

\* Where a label stands: the base of its section and its offset.
LEMMA LabelPlace ==
  ASSUME Built, stage = "loaded", NEW n \in Labels(a),
         Slack("text") = 0 \/ a.symbols[n].section = "text"
  PROVE  Place(n) = Resolved(a)[n].value.v
<1> DEFINE s == a.symbols[n]
           row == Items(a, s.section)
<1>1. Layout(a) /\ mem = Loaded(a)
  BY SegmentIs DEF Built, Loaded
<1>2. n \in DOMAIN a.symbols /\ s.kind = "label" /\ s \in Symbols
  BY <1>1, TableIs DEF Layout, Assemblers, Labels
<1>3. s.mark \in 1 .. Len(row) + 1 /\ s.offset = EndOf(row, s.mark - 1)
  BY <1>1, <1>2 DEF Layout, Standing, Items
<1>4. s.section \in Sections /\ row \in Seq(Pieces) /\ Gapless(row, SizeOf(a, s.section))
  <2>1. s.section \in Sections
    BY <1>2 DEF Symbols
  <2> QED
    BY <1>1, <2>1, SizesAre DEF Layout, Items, SizeOf
<1>5. CASE Marked(s) = {}
  BY <1>5 DEF Place
<1>6. CASE Marked(s) # {}
  <2> DEFINE c == CHOOSE p \in Marked(s) : TRUE
  <2>1. c \in Marked(s)
    BY <1>6
  <2>2. c \in Loaded(a).pieces /\ c.section = s.section /\ c.index = s.mark
    BY <1>1, <2>1 DEF Marked
  <2>3. Place(n) = c.at
    BY <1>2, <1>6 DEF Place
  <2> HIDE DEF c
  <2>4. PICK r \in Filed : \E i \in DOMAIN Items(a, r) : c = InMemory(a, r, i)
    BY <1>1, <2>2, MemoryHolds
  <2>5. PICK i \in DOMAIN Items(a, r) : c = InMemory(a, r, i)
    BY <2>4
  <2>6. r = s.section /\ i = s.mark /\ c.at = Start(a, r) + Items(a, r)[i].offset
    BY <2>2, <2>5 DEF InMemory
  <2>7. row[s.mark].offset = s.offset
    BY <1>3, <1>4, <2>5, <2>6 DEF Gapless
  <2>8. Place(n) = Start(a, s.section) + s.offset
    BY <2>3, <2>6, <2>7
  <2>9. Start(a, s.section) = Bases(a)[s.section]
    <3>1. SizeOf(a, "text") \in Nat /\ a.base \in Nat
      BY <1>1, SizeTypes
    <3>2. CASE s.section = "text"
      BY <1>1, <3>1, <3>2, BasesAre DEF Start
    <3>3. CASE s.section = "data"
      <4>1. AlignUp(SizeOf(a, "text"), 4) - SizeOf(a, "text") = 0
        BY <3>3 DEF Slack
      <4>2. AlignUp(SizeOf(a, "text"), 4) \in Nat /\ Bases(a).data = a.base + AlignUp(SizeOf(a, "text"), 4)
        BY <1>1, BasesAre
      <4>3. AlignUp(SizeOf(a, "text"), 4) = SizeOf(a, "text")
        BY <3>1, <4>1, <4>2
      <4> QED
        BY <3>3, <4>2, <4>3 DEF Start
    <3> QED
      BY <2>6, <3>2, <3>3 DEF Filed
  <2> QED
    BY <1>1, <2>8, <2>9, ResolvedLabel
<1> QED
  BY <1>5, <1>6

LEMMA BuiltSegment == Built => SegmentHoldsSections
<1> SUFFICES ASSUME Built, stage = "loaded" PROVE SegmentHoldsSections
  BY DEF SegmentHoldsSections
<1>1. Layout(a) /\ elf = BuildElf(a) /\ mem = Loaded(a)
  BY SegmentIs DEF Built, Loaded
<1>2. ASSUME NEW p \in mem.pieces, NEW q \in mem.pieces, p # q
      PROVE  p.at + p.n <= q.at \/ q.at + q.n <= p.at
  <2>1. PICK s \in Filed : \E i \in DOMAIN Items(a, s) : p = InMemory(a, s, i)
    BY <1>1, MemoryHolds
  <2>2. PICK i \in DOMAIN Items(a, s) : p = InMemory(a, s, i)
    BY <2>1
  <2>3. PICK r \in Filed : \E j \in DOMAIN Items(a, r) : q = InMemory(a, r, j)
    BY <1>1, MemoryHolds
  <2>4. PICK j \in DOMAIN Items(a, r) : q = InMemory(a, r, j)
    BY <2>3
  <2>5. s # r \/ i # j
    BY <1>2, <2>2, <2>4
  <2> QED
    BY <1>1, <2>2, <2>4, <2>5, PiecesApart
<1>3. ASSUME NEW p \in mem.pieces
      PROVE  p.at >= mem.from /\ p.at + p.n <= Bases(a).bss
  <2>1. PICK s \in Filed : \E i \in DOMAIN Items(a, s) : p = InMemory(a, s, i)
    BY <1>1, MemoryHolds
  <2>2. PICK i \in DOMAIN Items(a, s) : p = InMemory(a, s, i)
    BY <2>1
  <2> QED
    BY <1>1, <2>2, PiecesInSpan, Spans
<1>4. Bases(a).bss + SizeOf(a, "bss") = mem.to + Slack("text") + Slack("data")
  <2> DEFINE t == SizeOf(a, "text")
             u == SizeOf(a, "data")
             b == SizeOf(a, "bss")
             t4 == AlignUp(SizeOf(a, "text"), 4)
             u4 == AlignUp(SizeOf(a, "data"), 4)
  <2>1. t \in Nat /\ u \in Nat /\ b \in Nat /\ a.base \in Nat
    BY <1>1, SizeTypes
  <2>2. t4 \in Nat /\ u4 \in Nat /\ Bases(a).bss = (a.base + t4) + u4
    BY <1>1, BasesAre
  <2>3. mem.to = a.base + (t + u + b) /\ Slack("text") = t4 - t /\ Slack("data") = u4 - u
    BY <1>1, Spans DEF MemSize, Slack
  <2> HIDE DEF t, u, t4, u4, b
  <2>4. ((a.base + t4) + u4) + b = (a.base + (t + u + b)) + (t4 - t) + (u4 - u)
    BY <2>1, <2>2
  <2> QED
    BY <2>2, <2>3, <2>4 DEF b
<1>5. ASSUME NEW n \in Labels(a)
      PROVE  Resolved(a)[n].value.v - ReadElf(elf).symbols[n]
               = IF a.symbols[n].section = "bss" THEN Slack("data") ELSE 0
  <2> DEFINE s == a.symbols[n]
             base == Bases(a)[s.section]
  <2>1. s \in Symbols
    BY <1>1, TableIs DEF Layout, Assemblers, Labels
  <2>2. s.section \in Sections /\ s.offset \in Nat
    BY <2>1 DEF Symbols
  <2>3. Resolved(a)[n].value.v = base + s.offset
    BY <1>1, ResolvedLabel
  <2>4. ReadElf(elf).symbols[n] = s.offset + (IF s.section = "bss"
                                               THEN Bases(a).data + SizeOf(a, "data") ELSE base)
    BY <1>1, SymbolsRead
  <2>5. a.base \in Nat /\ Bases(a).data \in Nat /\ Bases(a).bss \in Nat /\ Bases(a).text = a.base
        /\ Bases(a).bss = Bases(a).data + AlignUp(SizeOf(a, "data"), 4)
        /\ AlignUp(SizeOf(a, "data"), 4) \in Nat /\ SizeOf(a, "data") \in Nat
    BY <1>1, BasesAre, SizeTypes
  <2>6. base \in Nat
    BY <2>2, <2>5 DEF Sections
  <2>7. CASE s.section = "bss"
    <3>1. base = Bases(a).bss
      BY <2>7
    <3>2. Slack("data") = AlignUp(SizeOf(a, "data"), 4) - SizeOf(a, "data")
      BY DEF Slack
    <3> HIDE DEF base, s
    <3> QED
      BY <2>2, <2>3, <2>4, <2>5, <2>7, <3>1, <3>2 DEF s
  <2>8. CASE s.section # "bss"
    <3> HIDE DEF base
    <3> QED
      BY <2>2, <2>3, <2>4, <2>6, <2>8
  <2> QED
    BY <2>7, <2>8
<1>6. ASSUME NEW n \in Labels(a), Slack("text") = 0 \/ a.symbols[n].section = "text"
      PROVE  Place(n) = Resolved(a)[n].value.v
  BY <1>6, LabelPlace
<1>7. ASSUME "_start" \in Labels(a)
      PROVE  \/ Slack("text") # 0 \/ a.symbols["_start"].section = "bss"
             \/ ReadElf(elf).entry = Place("_start")
  <2>1. SUFFICES ASSUME Slack("text") = 0 PROVE ReadElf(elf).entry = Place("_start")
    OBVIOUS
  <2>2. "_start" \in DOMAIN a.symbols
    BY <1>7 DEF Labels
  <2>3. ReadElf(elf).entry = Resolved(a)["_start"].value.v
    BY <1>1, <2>2 DEF ReadElf, BuildElf
  <2> QED
    BY <1>6, <1>7, <2>1, <2>3
<1> QED
  BY <1>2, <1>3, <1>4, <1>5, <1>6, <1>7 DEF SegmentHoldsSections

THEOREM SegmentIsWhole == Spec => []SegmentHoldsSections
<1>1. Built => SegmentHoldsSections
  BY BuiltSegment
<1> QED
  BY <1>1, Invariance, PTL

-----------------------------------------------------------------------------
(* What pass 1 decides, and what it leaves for pass 2 to find.               *)

\* A number, or a name for one, that no address goes into.
Fixed(e, t) ==
  e.sym = "" \/ (e.sym \in DOMAIN t /\ t[e.sym].kind = "const" /\ ~t[e.sym].early)

ConstMeans(s) == s.kind = "const" /\ ~s.early => s.value.is = "number"

\* Values of pass 1 are the expression's; the second half of a pair follows the first.
PieceMeans(t, row, i) ==
  /\ row[i].kind = "value" /\ ~row[i].early =>
       Fixed(row[i].e, t) /\ row[i].value \in {Eval(row[i].e, t).v, Eval(row[i].e, t).v % 256}
  /\ row[i].kind = "li" /\ ~row[i].early =>
       Fixed(row[i].e, t) /\ row[i].value = Eval(row[i].e, t).v /\ row[i].value \in Imm12
  /\ row[i].kind = "li_hi" =>
       i + 1 \in DOMAIN row /\ row[i + 1].kind = "li_lo" /\ row[i + 1].e = row[i].e
  /\ row[i].kind = "pcrel_hi" =>
       /\ i + 1 \in DOMAIN row /\ row[i + 1].kind = "pcrel_lo" /\ row[i + 1].e = row[i].e
       /\ row[i + 1].hi = row[i].offset

Meant(asm) ==
  /\ \A n \in DOMAIN asm.symbols : ConstMeans(asm.symbols[n])
  /\ \A s \in Sections : \A i \in DOMAIN Items(asm, s) : PieceMeans(asm.symbols, Items(asm, s), i)

LEMMA BeginMeant == ASSUME NEW base PROVE Meant(Begin(base))
<1>1. Begin(base).symbols = <<>> /\ \A s \in Sections : Items(Begin(base), s) = <<>>
  BY DEF Begin, Items
<1>2. DOMAIN <<>> = {}
  OBVIOUS
<1> QED
  BY <1>1, <1>2 DEF Meant

LEMMA SameMeant ==
  ASSUME NEW asm, Meant(asm), NEW nxt, nxt.symbols = asm.symbols, nxt.sections = asm.sections
  PROVE  Meant(nxt)
BY DEF Meant, Items

LEMMA FailMeant ==
  ASSUME NEW asm, Layout(asm), Meant(asm)
  PROVE  Meant(Fail(asm))
<1>1. Fail(asm).symbols = asm.symbols /\ Fail(asm).sections = asm.sections
  BY DEF Fail, Layout, Assemblers
<1> QED
  BY <1>1, SameMeant

\* What is not early in pass 1 is fixed.
LEMMA NotEarly ==
  ASSUME NEW e, NEW t, Eval(e, t) # Thrown, ~Early(e, t),
         \A n \in DOMAIN t : t[n].kind \in {"label", "const"}
  PROVE  Fixed(e, t)
BY DEF Eval, Early, Fixed

LEMMA FixedIsNumber ==
  ASSUME NEW asm, Layout(asm), Meant(asm), NEW e \in Expressions, Fixed(e, asm.symbols)
  PROVE  Eval(e, asm.symbols).is = "number"
<1>1. CASE e.sym = ""
  BY <1>1 DEF Eval, Num
<1>2. CASE e.sym # ""
  <2>1. e.sym \in DOMAIN asm.symbols /\ asm.symbols[e.sym].value.is = "number"
    BY <1>2 DEF Fixed, Meant, ConstMeans
  <2> QED
    BY <1>2, <2>1 DEF Eval, Num
<1> QED
  BY <1>1, <1>2

\* One more name changes nothing that was fixed.
LEMMA DefineMeant ==
  ASSUME NEW asm, Layout(asm), Meant(asm), NEW name, NEW symbol, ConstMeans(symbol)
  PROVE  Meant(Define(asm, name, symbol))
<1>1. CASE name \in DOMAIN asm.symbols
  BY <1>1, FailMeant DEF Define
<1>2. CASE name \notin DOMAIN asm.symbols
  <2> DEFINE N == DOMAIN asm.symbols \cup {name}
             t == [n \in N |-> IF n = name THEN symbol ELSE asm.symbols[n]]
             nxt == Define(asm, name, symbol)
  <2>1. nxt = [asm EXCEPT !.symbols = t]
    BY <1>2 DEF Define
  <2>2. nxt.symbols = t /\ nxt.sections = asm.sections
    BY <2>1 DEF Layout, Assemblers
  <2>3. \A n \in DOMAIN t : ConstMeans(t[n])
    BY DEF Meant
  <2>4. \A n \in DOMAIN asm.symbols : n \in DOMAIN t /\ t[n] = asm.symbols[n]
    BY <1>2
  <2> HIDE DEF t, N, nxt
  <2>5. ASSUME NEW e, Fixed(e, asm.symbols)
        PROVE  Fixed(e, t) /\ Eval(e, t) = Eval(e, asm.symbols)
    BY <2>4, <2>5 DEF Fixed, Eval
  <2>6. ASSUME NEW row, NEW i, PieceMeans(asm.symbols, row, i)
        PROVE  PieceMeans(t, row, i)
    <3>1. Fixed(row[i].e, asm.symbols) =>
            Fixed(row[i].e, t) /\ Eval(row[i].e, t) = Eval(row[i].e, asm.symbols)
      BY <2>5
    <3> QED
      BY <2>6, <3>1 DEF PieceMeans
  <2>7. \A s \in Sections : Items(nxt, s) = Items(asm, s)
    BY <2>2 DEF Items
  <2>8. Meant(nxt)
    BY <2>2, <2>3, <2>6, <2>7 DEF Meant
  <2> QED
    BY <2>8 DEF nxt
<1> QED
  BY <1>1, <1>2

LEMMA PutRows ==
  ASSUME NEW asm, Layout(asm), NEW piece \in Pieces
  PROVE  /\ Items(asm, asm.cur) \in Seq(Pieces) /\ Len(Items(asm, asm.cur)) \in Nat
         /\ Placed(asm, piece) \in Pieces
         /\ Items(Put(asm, piece), asm.cur) = Append(Items(asm, asm.cur), Placed(asm, piece))
         /\ \A s \in Sections : s # asm.cur => Items(Put(asm, piece), s) = Items(asm, s)
         /\ Put(asm, piece).cur = asm.cur /\ Put(asm, piece).symbols = asm.symbols
<1>1. asm \in Assemblers /\ asm.cur \in Sections /\ asm.sections \in [Sections -> Rows]
  BY DEF Layout, Assemblers
<1>2. Items(asm, asm.cur) \in Seq(Pieces) /\ Current(asm).size \in Nat
      /\ Current(asm).items = Items(asm, asm.cur)
  BY <1>1 DEF Rows, Items, Current
<1>3. Placed(asm, piece) \in Pieces
  BY <1>2 DEF Placed, Pieces
<1>4. Put(asm, piece).sections = [asm.sections EXCEPT ![asm.cur] = PutRow(asm, piece)]
      /\ Put(asm, piece).cur = asm.cur /\ Put(asm, piece).symbols = asm.symbols
  BY <1>1, PutIs
<1>5. PutRow(asm, piece).items = Append(Items(asm, asm.cur), Placed(asm, piece))
  BY <1>2 DEF PutRow
<1> QED
  BY <1>1, <1>2, <1>3, <1>4, <1>5 DEF Items

\* More pieces in a row that mean what they should.
LEMMA ExtendMeant ==
  ASSUME NEW asm, Meant(asm), NEW nxt, nxt.symbols = asm.symbols,
         \A s \in Sections : Items(asm, s) \in Seq(Pieces) /\ Items(nxt, s) \in Seq(Pieces),
         \A s \in Sections : Len(Items(asm, s)) <= Len(Items(nxt, s)),
         \A s \in Sections : \A i \in DOMAIN Items(asm, s) : Items(nxt, s)[i] = Items(asm, s)[i],
         \A s \in Sections : \A i \in DOMAIN Items(nxt, s) :
           i \notin DOMAIN Items(asm, s) => PieceMeans(asm.symbols, Items(nxt, s), i)
  PROVE  Meant(nxt)
<1>1. ASSUME NEW s \in Sections, NEW i \in DOMAIN Items(asm, s)
      PROVE  PieceMeans(asm.symbols, Items(nxt, s), i)
  <2> DEFINE row == Items(asm, s)
             new == Items(nxt, s)
  <2>1. PieceMeans(asm.symbols, row, i)
    BY DEF Meant
  <2>2. i \in DOMAIN row /\ \A j \in DOMAIN row : j \in DOMAIN new /\ new[j] = row[j]
    OBVIOUS
  <2> HIDE DEF row, new
  <2>3. PieceMeans(asm.symbols, new, i)
    BY <2>1, <2>2 DEF PieceMeans
  <2> QED
    BY <2>3 DEF new
<1>2. ASSUME NEW s \in Sections, NEW i \in DOMAIN Items(nxt, s)
      PROVE  PieceMeans(asm.symbols, Items(nxt, s), i)
  BY <1>1
<1> QED
  BY <1>2 DEF Meant

\* A piece that does not begin a pair.
LEMMA PutMeant ==
  ASSUME NEW asm, Layout(asm), Meant(asm), NEW piece \in Pieces,
         piece.kind \notin {"li_hi", "pcrel_hi"},
         piece.kind = "value" /\ ~piece.early =>
           /\ Fixed(piece.e, asm.symbols)
           /\ piece.value \in {Eval(piece.e, asm.symbols).v, Eval(piece.e, asm.symbols).v % 256},
         piece.kind = "li" /\ ~piece.early =>
           /\ Fixed(piece.e, asm.symbols)
           /\ piece.value = Eval(piece.e, asm.symbols).v /\ piece.value \in Imm12
  PROVE  Meant(Put(asm, piece))
<1> DEFINE row == Items(asm, asm.cur)
           p == Placed(asm, piece)
           nxt == Put(asm, piece)
           new == Append(row, p)
<1>1. /\ row \in Seq(Pieces) /\ Len(row) \in Nat /\ p \in Pieces
      /\ Items(nxt, asm.cur) = new /\ nxt.symbols = asm.symbols
      /\ \A s \in Sections : s # asm.cur => Items(nxt, s) = Items(asm, s)
  BY PutRows
<1>2. /\ new \in Seq(Pieces) /\ Len(new) = Len(row) + 1 /\ new[Len(row) + 1] = p
      /\ \A i \in DOMAIN row : new[i] = row[i]
      /\ DOMAIN row = 1 .. Len(row) /\ DOMAIN new = 1 .. Len(row) + 1
  BY <1>1
<1>3. p.kind = piece.kind /\ p.e = piece.e /\ p.value = piece.value /\ p.early = piece.early
  BY DEF Placed, Pieces
<1>4. \A s \in Sections : Items(asm, s) \in Seq(Pieces)
  BY SizesAre
<1>5. asm.cur \in Sections
  BY DEF Layout, Assemblers
<1> HIDE DEF p, nxt, new
<1>6. PieceMeans(asm.symbols, new, Len(row) + 1)
  BY <1>2, <1>3 DEF PieceMeans
<1>7. \A s \in Sections : \A i \in DOMAIN Items(nxt, s) :
        i \notin DOMAIN Items(asm, s) => PieceMeans(asm.symbols, Items(nxt, s), i)
  BY <1>1, <1>2, <1>6
<1>8. \A s \in Sections : Items(nxt, s) \in Seq(Pieces) /\ Len(Items(asm, s)) <= Len(Items(nxt, s))
  <2>1. ASSUME NEW s \in Sections, s # asm.cur
        PROVE  Items(nxt, s) \in Seq(Pieces) /\ Len(Items(asm, s)) <= Len(Items(nxt, s))
    BY <1>1, <1>4, <2>1
  <2>2. new \in Seq(Pieces) /\ Len(row) <= Len(new)
    BY <1>1, <1>2
  <2> QED
    BY <1>1, <2>1, <2>2
<1>9. \A s \in Sections : \A i \in DOMAIN Items(asm, s) : Items(nxt, s)[i] = Items(asm, s)[i]
  BY <1>1, <1>2
<1>10. Meant(nxt)
  <2> HIDE DEF row
  <2> QED
    BY <1>1, <1>4, <1>7, <1>8, <1>9, ExtendMeant
<1> QED
  BY <1>10 DEF nxt

\* The two instructions of li or la.
LEMMA PutPairMeant ==
  ASSUME NEW asm, Layout(asm), Meant(asm), NEW hi \in Pieces, NEW lo \in Pieces, lo.e = hi.e,
         \/ hi.kind = "li_hi" /\ lo.kind = "li_lo"
         \/ hi.kind = "pcrel_hi" /\ lo.kind = "pcrel_lo" /\ lo.hi = Current(asm).size
  PROVE  Meant(Put(Put(asm, hi), lo))
<1> DEFINE row == Items(asm, asm.cur)
           p == Placed(asm, hi)
           one == Put(asm, hi)
           q == Placed(one, lo)
           nxt == Put(one, lo)
           new == Append(Append(row, p), q)
<1>1. /\ row \in Seq(Pieces) /\ Len(row) \in Nat /\ p \in Pieces
      /\ Items(one, asm.cur) = Append(row, p) /\ one.symbols = asm.symbols /\ one.cur = asm.cur
      /\ \A s \in Sections : s # asm.cur => Items(one, s) = Items(asm, s)
  BY PutRows
<1>2. Layout(one)
  BY PutLayout
<1>3. /\ q \in Pieces /\ Items(nxt, asm.cur) = new /\ nxt.symbols = asm.symbols
      /\ \A s \in Sections : s # asm.cur => Items(nxt, s) = Items(asm, s)
  <2> HIDE DEF one, row, p
  <2> QED
    BY <1>1, <1>2, PutRows
<1>4. p.kind = hi.kind /\ p.e = hi.e /\ p.offset = Current(asm).size
  BY DEF Placed, Pieces
<1>5. q.kind = lo.kind /\ q.e = lo.e /\ q.hi = lo.hi
  BY DEF Placed, Pieces
<1>6. \A s \in Sections : Items(asm, s) \in Seq(Pieces)
  BY SizesAre
<1> HIDE DEF p, q, one, nxt
<1>7. /\ new \in Seq(Pieces) /\ Len(new) = Len(row) + 2
      /\ new[Len(row) + 1] = p /\ new[(Len(row) + 1) + 1] = q
      /\ \A i \in DOMAIN row : new[i] = row[i]
      /\ DOMAIN row = 1 .. Len(row) /\ DOMAIN new = 1 .. Len(row) + 2
  <2> DEFINE mid == Append(row, p)
  <2>1. /\ mid \in Seq(Pieces) /\ Len(mid) = Len(row) + 1 /\ mid[Len(row) + 1] = p
        /\ \A i \in 1 .. Len(row) : mid[i] = row[i]
    BY <1>1
  <2> HIDE DEF mid
  <2>2. /\ Append(mid, q) \in Seq(Pieces) /\ Len(Append(mid, q)) = Len(mid) + 1
        /\ Append(mid, q)[Len(mid) + 1] = q
        /\ \A i \in 1 .. Len(mid) : Append(mid, q)[i] = mid[i]
    BY <1>3, <2>1
  <2>3. /\ new \in Seq(Pieces) /\ Len(new) = Len(row) + 2 /\ new[(Len(row) + 1) + 1] = q
        /\ \A i \in 1 .. Len(row) + 1 : new[i] = mid[i]
    BY <1>1, <2>1, <2>2 DEF mid
  <2> HIDE DEF new
  <2>4. new[Len(row) + 1] = p
    BY <1>1, <2>1, <2>3
  <2>5. DOMAIN row = 1 .. Len(row) /\ DOMAIN new = 1 .. Len(row) + 2
    BY <1>1, <2>3
  <2>6. ASSUME NEW i \in DOMAIN row PROVE new[i] = row[i]
    <3>1. i \in 1 .. Len(row) /\ i \in 1 .. Len(row) + 1
      BY <1>1, <2>5, <2>6
    <3> QED
      BY <2>1, <2>3, <3>1
  <2> QED
    BY <2>3, <2>4, <2>5, <2>6
<1> HIDE DEF new
<1>8. PieceMeans(asm.symbols, new, Len(row) + 1)
  BY <1>1, <1>4, <1>5, <1>7 DEF PieceMeans
<1>9. PieceMeans(asm.symbols, new, (Len(row) + 1) + 1)
  BY <1>1, <1>5, <1>7 DEF PieceMeans
<1>10. ASSUME NEW i \in 1 .. Len(row) + 2, i \notin 1 .. Len(row)
       PROVE  i = Len(row) + 1 \/ i = (Len(row) + 1) + 1
  BY <1>1, <1>10
<1>11. \A s \in Sections : \A i \in DOMAIN Items(nxt, s) :
         i \notin DOMAIN Items(asm, s) => PieceMeans(asm.symbols, Items(nxt, s), i)
  <2>1. ASSUME NEW i \in DOMAIN new, i \notin DOMAIN row PROVE PieceMeans(asm.symbols, new, i)
    BY <1>7, <1>8, <1>9, <1>10, <2>1
  <2> QED
    BY <1>3, <2>1
<1>12. \A s \in Sections : Items(nxt, s) \in Seq(Pieces) /\ Len(Items(asm, s)) <= Len(Items(nxt, s))
  <2>1. ASSUME NEW s \in Sections, s # asm.cur
        PROVE  Items(nxt, s) \in Seq(Pieces) /\ Len(Items(asm, s)) <= Len(Items(nxt, s))
    BY <1>3, <1>6, <2>1
  <2>2. new \in Seq(Pieces) /\ Len(row) <= Len(new)
    BY <1>1, <1>7
  <2> QED
    BY <1>3, <2>1, <2>2
<1>13. \A s \in Sections : \A i \in DOMAIN Items(asm, s) : Items(nxt, s)[i] = Items(asm, s)[i]
  BY <1>3, <1>7
<1>14. Meant(nxt)
  <2> HIDE DEF row
  <2> QED
    BY <1>3, <1>6, <1>11, <1>12, <1>13, ExtendMeant
<1> QED
  BY <1>14 DEF nxt, one

LEMMA KindsOf ==
  ASSUME NEW asm, Layout(asm)
  PROVE  /\ asm.symbols \in Tables
         /\ \A n \in DOMAIN asm.symbols : /\ asm.symbols[n] \in Symbols
                                          /\ asm.symbols[n].kind \in {"label", "const"}
<1>1. asm.symbols \in Tables
  BY DEF Layout, Assemblers
<1>2. \A n \in DOMAIN asm.symbols : asm.symbols[n] \in Symbols
  BY <1>1, TableIs
<1> QED
  BY <1>1, <1>2 DEF Symbols

LEMMA LabelMeant ==
  ASSUME NEW asm, Layout(asm), Meant(asm), NEW name
  PROVE  Meant(Label(asm, name))
<1> DEFINE symbol == [kind |-> "label", section |-> asm.cur, offset |-> Current(asm).size,
                      value |-> Undefined, mark |-> Len(Current(asm).items) + 1, early |-> FALSE]
<1>1. Label(asm, name) = Define(asm, name, symbol)
  BY DEF Label
<1>2. ConstMeans(symbol)
  BY DEF ConstMeans
<1> HIDE DEF symbol
<1> QED
  BY <1>1, <1>2, DefineMeant

LEMMA EquMeant ==
  ASSUME NEW asm, Layout(asm), Meant(asm), NEW name, NEW e \in Expressions
  PROVE  Meant(Equ(asm, name, e))
<1> DEFINE value == Eval(e, asm.symbols)
           symbol == [kind |-> "const", section |-> asm.cur, offset |-> 0, value |-> value,
                      mark |-> 0, early |-> Early(e, asm.symbols)]
<1>1. CASE value = Thrown
  BY <1>1, FailMeant DEF Equ
<1>2. CASE value # Thrown
  <2>1. Equ(asm, name, e) = Define(asm, name, symbol)
    BY <1>2 DEF Equ
  <2>2. ~Early(e, asm.symbols) => value.is = "number"
    BY <1>2, KindsOf, NotEarly, FixedIsNumber
  <2> HIDE DEF value
  <2>3. ConstMeans(symbol)
    BY <2>2 DEF ConstMeans
  <2> HIDE DEF symbol
  <2> QED
    BY <2>1, <2>3, DefineMeant
<1> QED
  BY <1>1, <1>2

\* Bytes, padding, and instructions that are no part of a pair.
LEMMA PlainMeant ==
  ASSUME NEW asm, Layout(asm), Meant(asm), NEW kind \in Instructions \cup {"bytes", "pad"},
         NEW n \in Nat, NEW e \in Expressions
  PROVE  Meant(Put(asm, Piece(kind, n, e)))
<1>1. kind \in PieceKinds
  BY DEF PieceKinds
<1>2. Piece(kind, n, e) \in Pieces
  BY <1>1, PieceIs
<1>3. Piece(kind, n, e).kind = kind /\ kind \notin {"li_hi", "pcrel_hi", "value", "li"}
  BY DEF Piece, Instructions
<1> QED
  BY <1>2, <1>3, PutMeant

LEMMA BytesMeant ==
  ASSUME NEW asm, Layout(asm), Meant(asm), NEW n \in Int
  PROVE  Meant(Bytes(asm, n))
<1>1. CASE n < 0
  BY <1>1, FailMeant DEF Bytes
<1>2. CASE n >= 0
  <2>1. Bytes(asm, n) = Put(asm, Piece("bytes", n, Literal(0))) /\ n \in Nat
    BY <1>2 DEF Bytes
  <2> QED
    BY <2>1, NoNumber, PlainMeant
<1> QED
  BY <1>1, <1>2

LEMMA ValuesMeant ==
  ASSUME NEW asm, Layout(asm), Meant(asm), NEW n \in {1, 4}, NEW e \in Expressions
  PROVE  Meant(Values(asm, n, e))
<1> DEFINE v == Eval(e, asm.symbols)
           value == IF n = 1 THEN v.v % 256 ELSE v.v
           early == Early(e, asm.symbols)
           p == [Piece("value", n, e) EXCEPT !.value = value, !.early = early]
<1>1. CASE v = Thrown \/ ~OneToken(e) \/ (n = 1 /\ v.v \notin -128 .. 255)
  BY <1>1, FailMeant DEF Values
<1>2. CASE ~(v = Thrown \/ ~OneToken(e) \/ (n = 1 /\ v.v \notin -128 .. 255))
  <2>1. v # Thrown /\ asm.symbols \in Tables
    BY <1>2, KindsOf
  <2>2. v.v \in Int
    BY <2>1, EvalIs DEF Results
  <2>3. Values(asm, n, e) = Put(asm, p)
    BY <1>2 DEF Values
  <2>4. ~early => Fixed(e, asm.symbols)
    BY <2>1, KindsOf, NotEarly
  <2>5. value \in Int /\ value \in {v.v, v.v % 256} /\ early \in BOOLEAN
    <3>1. value \in {v.v, v.v % 256}
      OBVIOUS
    <3> HIDE DEF v, early
    <3>2. value \in Int
      BY <2>2
    <3> QED
      BY <3>1, <3>2, EarlyIs DEF early
  <2>6. Piece("value", n, e) \in Pieces
    BY PieceIs DEF PieceKinds
  <2> HIDE DEF v, value, early
  <2>7. p \in Pieces /\ p.kind = "value" /\ p.e = e /\ p.value = value /\ p.early = early
    BY <2>5, <2>6 DEF Pieces, Piece
  <2> HIDE DEF p
  <2>8. Meant(Put(asm, p))
    <3>1. p.kind \notin {"li_hi", "pcrel_hi"} /\ p.kind # "li"
      BY <2>7
    <3>2. ~p.early => /\ Fixed(p.e, asm.symbols)
                      /\ p.value \in {Eval(p.e, asm.symbols).v, Eval(p.e, asm.symbols).v % 256}
      BY <2>4, <2>5, <2>7 DEF v
    <3> QED
      BY <2>7, <3>1, <3>2, PutMeant
  <2> QED
    BY <2>3, <2>8
<1> QED
  BY <1>1, <1>2

LEMMA AlignMeant ==
  ASSUME NEW asm, Layout(asm), Meant(asm), NEW n \in Int
  PROVE  Meant(Align(asm, n))
<1> DEFINE pad == AlignUp(Current(asm).size, 2 ^ n) - Current(asm).size
<1>1. CASE n \notin 0 .. 16
  BY <1>1, FailMeant DEF Align
<1>2. CASE n \in 0 .. 16
  <2>1. pad \in Nat
    BY <1>2, PaddingIs
  <2>2. Align(asm, n) = IF pad = 0 THEN asm ELSE Put(asm, Piece("pad", pad, Literal(0)))
    BY <1>2 DEF Align
  <2> HIDE DEF pad
  <2> QED
    BY <2>1, <2>2, NoNumber, PlainMeant
<1> QED
  BY <1>1, <1>2

LEMMA LiMeant ==
  ASSUME NEW asm, Layout(asm), Meant(asm), NEW e \in Expressions
  PROVE  Meant(Li(asm, e))
<1> DEFINE v == Eval(e, asm.symbols)
           early == Early(e, asm.symbols)
           p == [Piece("li", 4, e) EXCEPT !.value = v.v, !.early = early]
<1>1. CASE v.is = "number" /\ v.v \in Imm12
  <2>1. v.v \in Int /\ v # Thrown
    BY <1>1, ImmIsInt DEF Thrown
  <2>2. Li(asm, e) = Put(asm, p)
    BY <1>1 DEF Li
  <2>3. Piece("li", 4, e) \in Pieces
    BY PieceIs DEF PieceKinds
  <2>4. ~early => Fixed(e, asm.symbols)
    BY <2>1, KindsOf, NotEarly
  <2>5. early \in BOOLEAN
    BY EarlyIs
  <2> HIDE DEF v, early
  <2>6. p \in Pieces /\ p.kind = "li" /\ p.e = e /\ p.value = v.v /\ p.early = early
    BY <2>1, <2>3, <2>5 DEF Pieces, Piece
  <2> HIDE DEF p
  <2>7. Meant(Put(asm, p))
    <3>1. p.kind \notin {"li_hi", "pcrel_hi"} /\ p.kind # "value"
      BY <2>6
    <3>2. ~p.early => /\ Fixed(p.e, asm.symbols)
                      /\ p.value = Eval(p.e, asm.symbols).v /\ p.value \in Imm12
      BY <1>1, <2>4, <2>6 DEF v
    <3> QED
      BY <2>6, <3>1, <3>2, PutMeant
  <2> QED
    BY <2>2, <2>7
<1>2. CASE ~(v.is = "number" /\ v.v \in Imm12)
  <2>1. Li(asm, e) = Put(Put(asm, Piece("li_hi", 4, e)), Piece("li_lo", 4, e))
    BY <1>2 DEF Li, Inst
  <2> DEFINE hi == Piece("li_hi", 4, e)
             lo == Piece("li_lo", 4, e)
  <2>2. hi \in Pieces /\ lo \in Pieces
    BY PieceIs DEF PieceKinds
  <2>3. hi.kind = "li_hi" /\ lo.kind = "li_lo" /\ lo.e = hi.e
    BY DEF Piece
  <2> HIDE DEF v, hi, lo
  <2>4. Meant(Put(Put(asm, hi), lo))
    BY <2>2, <2>3, PutPairMeant
  <2> QED
    BY <2>1, <2>4 DEF hi, lo
<1> QED
  BY <1>1, <1>2

LEMMA LaMeant ==
  ASSUME NEW asm, Layout(asm), Meant(asm), NEW e \in Expressions
  PROVE  Meant(La(asm, e))
<1> DEFINE size == Current(asm).size
           lo == [Piece("pcrel_lo", 4, e) EXCEPT !.hi = size]
           hi == Piece("pcrel_hi", 4, e)
<1>1. size \in Nat
  BY DEF Layout, Assemblers, Current, Rows
<1>2. Piece("pcrel_lo", 4, e) \in Pieces /\ hi \in Pieces
  BY PieceIs DEF PieceKinds
<1>3. La(asm, e) = Put(Put(asm, hi), lo)
  BY DEF La, Inst
<1>4. lo.kind = "pcrel_lo" /\ lo.e = e /\ lo.hi = size /\ hi.kind = "pcrel_hi" /\ hi.e = e
  BY DEF Piece
<1> HIDE DEF size
<1>5. lo \in Pieces
  BY <1>1, <1>2 DEF Pieces
<1> HIDE DEF lo, hi
<1>6. Meant(Put(Put(asm, hi), lo))
  BY <1>2, <1>4, <1>5, PutPairMeant DEF size
<1> QED
  BY <1>3, <1>6

LEMMA SourceMeant ==
  ASSUME NEW l \in SourceLines, Layout(a), Meant(a)
  PROVE  Meant(Source(l))
<1>1. /\ l.op \in {"label", "section", "equ", "bytes", "value", "align", "li", "la", "inst"}
      /\ l.op = "section" => l.name \in Sections
      /\ l.op \in {"bytes", "align"} => l.n \in Int
      /\ l.op = "value" => l.n \in {1, 4}
      /\ l.op = "inst" => l.kind \in Instructions
  BY LinesAssumption
<1>2. l.op \in {"equ", "value", "li", "la", "inst"} => l.e \in Expressions
  BY DEF Expressions, WithExpression
<1>3. CASE l.op = "label"
  BY <1>3, LabelMeant DEF Source
<1>4. CASE l.op = "section"
  <2>1. Source(l) = Section(a, l.name)
    BY <1>4 DEF Source
  <2>2. Section(a, l.name).symbols = a.symbols /\ Section(a, l.name).sections = a.sections
    BY DEF Section, Layout, Assemblers
  <2> QED
    BY <2>1, <2>2, SameMeant
<1>5. CASE l.op = "equ"
  BY <1>2, <1>5, EquMeant DEF Source
<1>6. CASE l.op = "bytes"
  BY <1>1, <1>6, BytesMeant DEF Source
<1>7. CASE l.op = "value"
  BY <1>1, <1>2, <1>7, ValuesMeant DEF Source
<1>8. CASE l.op = "align"
  BY <1>1, <1>8, AlignMeant DEF Source
<1>9. CASE l.op = "li"
  BY <1>2, <1>9, LiMeant DEF Source
<1>10. CASE l.op = "la"
  BY <1>2, <1>10, LaMeant DEF Source
<1>11. CASE l.op = "inst"
  BY <1>1, <1>2, <1>11, PlainMeant DEF Source, Inst
<1> QED
  BY <1>1, <1>3, <1>4, <1>5, <1>6, <1>7, <1>8, <1>9, <1>10, <1>11

LEMMA MeaningInvariant == Spec => []Meant(a)
<1>1. Init => Meant(a)
  BY BeginMeant DEF Init
<1>2. ASSUME Built, Meant(a), [Next]_vars PROVE Meant(a)'
  <2>1. ASSUME NEW l \in scenario.source, Line(l) PROVE Meant(a)'
    <3>1. l \in SourceLines /\ Layout(a) /\ a' = Source(l)
      BY <1>2, <2>1, ScenarioIs DEF Built, Line
    <3>2. Meant(a')
      BY <1>2, <3>1, SourceMeant
    <3> QED
      BY <3>2
  <2>2. CASE Format
    <3>1. a' = Begin(a.base)
      BY <2>2 DEF Format
    <3>2. Meant(a')
      BY <3>1, BeginMeant
    <3> QED
      BY <3>2
  <2>3. CASE UNCHANGED a
    <3>1. Meant(a')
      BY <1>2, <2>3
    <3> QED
      BY <3>1
  <2>4. Pass2 \/ Load \/ Finish \/ (\E f \in scenario.files : Add(f)) \/ UNCHANGED vars
          => UNCHANGED a
    BY DEF Pass2, Load, Finish, Add, vars
  <2> QED
    BY <1>2, <2>1, <2>2, <2>3, <2>4 DEF Next
<1> QED
  BY <1>1, <1>2, Invariance, PTL DEF Spec

-----------------------------------------------------------------------------
(* Pass 2 and the processor: what an instruction finds is what is said.       *)

LEMMA NumIs == \A v : Num(v).is = "number" /\ Num(v).v = v
BY DEF Num

NoName(e) == e.sym = ""
Usable(e) == NoName(e) \/ (e.sym \in DOMAIN a.symbols /\ ~a.symbols[e.sym].early)

\* What is said of an expression is what pass 2 computes for it.
LEMMA SaysIs ==
  ASSUME Built, Meant(a), stage = "loaded", Slack("text") = 0, NEW e \in Expressions, Usable(e)
  PROVE  /\ Eval(e, Resolved(a)).is = "number" /\ Eval(e, Resolved(a)).v = Says(e)
         /\ Says(e) \in Int
<1>1. e.k \in Int /\ Layout(a)
  BY LinesAssumption DEF Built
<1>2. CASE NoName(e)
  BY <1>1, <1>2 DEF Eval, Num, Says, NoName
<1>3. CASE ~NoName(e)
  <2> DEFINE n == e.sym
             s == a.symbols[n]
             value == Resolved(a)[n].value
  <2>1. n \in DOMAIN a.symbols /\ ~s.early /\ s \in Symbols /\ s.kind \in {"label", "const"}
    BY <1>1, <1>3, KindsOf DEF Usable
  <2>2. value.is = "number" /\ value.v = Place(n) /\ value.v \in Int
    <3>1. CASE s.kind = "label"
      <4>1. n \in Labels(a)
        BY <2>1, <3>1 DEF Labels
      <4>2. value = Num(Bases(a)[s.section] + s.offset) /\ value.v = Bases(a)[s.section] + s.offset
        BY <1>1, <4>1, ResolvedLabel
      <4>3. value.v = Place(n)
        BY <4>1, LabelPlace
      <4>4. s.offset \in Nat /\ s.section \in Sections
        BY <2>1 DEF Symbols
      <4>5. Bases(a)[s.section] \in Nat
        <5>1. Bases(a).text \in Nat /\ Bases(a).data \in Nat /\ Bases(a).bss \in Nat
          BY <1>1, BasesAre, SizeTypes
        <5> QED
          BY <4>4, <5>1 DEF Sections
      <4>6. value.is = "number"
        <5> DEFINE x == Bases(a)[s.section] + s.offset
        <5>1. value = Num(x)
          BY <4>2
        <5> HIDE DEF x, value
        <5> QED
          BY <5>1, NumIs
      <4>7. Bases(a)[s.section] + s.offset \in Int
        <5> DEFINE x == Bases(a)[s.section]
                   y == s.offset
        <5>1. x \in Nat /\ y \in Nat
          BY <4>4, <4>5
        <5> HIDE DEF x, y
        <5>2. x + y \in Int
          BY <5>1
        <5> QED
          BY <5>2 DEF x, y
      <4> HIDE DEF value
      <4> QED
        BY <4>2, <4>3, <4>6, <4>7
    <3>2. CASE s.kind = "const"
      <4>1. Resolved(a)[n] = s
        BY <2>1, <3>2 DEF Resolved
      <4>2. Place(n) = value.v
        BY <3>2 DEF Place
      <4>3. s.value.is = "number"
        BY <2>1, <3>2 DEF Meant, ConstMeans
      <4>4. s.value \in Results
        BY <2>1 DEF Symbols
      <4>5. s.value.v \in Int
        BY <4>4 DEF Results
      <4> QED
        BY <4>1, <4>2, <4>3, <4>5
    <3> QED
      BY <2>1, <3>1, <3>2
  <2>3. DOMAIN Resolved(a) = DOMAIN a.symbols
    BY DEF Resolved
  <2>4. Eval(e, Resolved(a)) = IF e.k = 0 THEN value ELSE Num(value.v + e.k)
    BY <1>3, <2>1, <2>2, <2>3 DEF Eval, NoName
  <2>5. Says(e) = value.v + e.k
    BY <1>3, <2>2 DEF Says, NoName
  <2> HIDE DEF value
  <2>6. Eval(e, Resolved(a)).is = "number" /\ Eval(e, Resolved(a)).v = value.v + e.k
    <3>1. CASE e.k = 0
      BY <2>2, <2>4, <3>1
    <3>2. CASE e.k # 0
      BY <2>4, <3>2, NumIs
    <3> QED
      BY <3>1, <3>2
  <2> QED
    BY <1>1, <2>2, <2>5, <2>6
<1> QED
  BY <1>2, <1>3

\* What pass 1 computed from fixed names is still so.
LEMMA FixedSays ==
  ASSUME Built, Meant(a), stage = "loaded", Slack("text") = 0, NEW e \in Expressions,
         Fixed(e, a.symbols)
  PROVE  Eval(e, a.symbols).v = Says(e) /\ Says(e) \in Int
<1>1. Usable(e)
  BY DEF Fixed, Usable, NoName
<1>2. Eval(e, Resolved(a)).v = Says(e) /\ Says(e) \in Int
  BY <1>1, SaysIs
<1>3. Eval(e, Resolved(a)) = Eval(e, a.symbols)
  <2>1. CASE e.sym = ""
    BY <2>1 DEF Eval
  <2>2. CASE e.sym # ""
    <3>1. e.sym \in DOMAIN a.symbols /\ a.symbols[e.sym].kind = "const"
      BY <2>2 DEF Fixed
    <3>2. e.sym \in DOMAIN Resolved(a) /\ Resolved(a)[e.sym] = a.symbols[e.sym]
      BY <3>1 DEF Resolved
    <3> QED
      BY <3>1, <3>2 DEF Eval
  <2> QED
    BY <2>1, <2>2
<1> QED
  BY <1>2, <1>3

\* What an immediate of .text is computed from.
LEMMA OperandIs ==
  ASSUME Built, Meant(a), stage = "loaded", Slack("text") = 0,
         NEW i \in DOMAIN Items(a, "text"), NEW p, p = Items(a, "text")[i],
         Known(InMemory(a, "text", i)), p.kind \in Patched
  PROVE  /\ Says(p.e) \in Int /\ p.e \in Expressions
         /\ Eval(p.e, Resolved(a)).is = "number" /\ Eval(p.e, Resolved(a)).v = Says(p.e)
         /\ InReach(p.kind, Operand(a, "text", p))
         /\ Operand(a, "text", p) =
              IF p.kind \in Relative THEN Says(p.e) - InMemory(a, "text", i).at ELSE Says(p.e)
<1>1. Layout(a) /\ Assembles(a) /\ "text" \in Sections
  BY DEF Built, Sections
<1>2. p \in Pieces /\ p.offset \in Nat
  BY <1>1, PieceTypes
<1>3. p.e \in Expressions
  BY <1>2 DEF Pieces
<1>4. CanPatch(a, "text", p)
  BY <1>1 DEF Assembles
<1>5. Eval(p.e, Resolved(a)) # Thrown /\ InReach(p.kind, Operand(a, "text", p))
  BY <1>4 DEF CanPatch
<1>6. DOMAIN Resolved(a) = DOMAIN a.symbols
  BY DEF Resolved
<1>7. NoName(p.e) \/ p.e.sym \in DOMAIN a.symbols
  BY <1>5, <1>6 DEF Eval, NoName
<1>8. Usable(p.e)
  BY <1>7 DEF Known, InMemory, Usable, NoName
<1>9. /\ Eval(p.e, Resolved(a)).is = "number" /\ Eval(p.e, Resolved(a)).v = Says(p.e)
      /\ Says(p.e) \in Int
  BY <1>3, <1>8, SaysIs
<1>10. InMemory(a, "text", i).at = AddressOf(a, "text", p)
  <2>1. InMemory(a, "text", i).at = (a.base + 0) + p.offset
    BY DEF InMemory, Start
  <2>2. AddressOf(a, "text", p) = a.base + p.offset /\ a.base \in Nat
    BY <1>1, SizeTypes DEF AddressOf
  <2> QED
    BY <1>2, <2>1, <2>2
<1>11. Operand(a, "text", p) =
         IF p.kind \in Relative THEN Says(p.e) - InMemory(a, "text", i).at ELSE Says(p.e)
  BY <1>9, <1>10 DEF Operand
<1> QED
  BY <1>3, <1>5, <1>9, <1>11

LEMMA TextAddress ==
  ASSUME NEW asm, Layout(asm), NEW i \in DOMAIN Items(asm, "text")
  PROVE  /\ InMemory(asm, "text", i).at = asm.base + Items(asm, "text")[i].offset
         /\ InMemory(asm, "text", i).at \in Int
<1>1. asm.base \in Nat /\ Items(asm, "text")[i].offset \in Nat
  BY SizeTypes, PieceTypes DEF Sections
<1>2. InMemory(asm, "text", i).at = (asm.base + 0) + Items(asm, "text")[i].offset
  BY DEF InMemory, Start
<1> QED
  BY <1>1, <1>2

\* The piece behind one of .text.
LEMMA AfterIs ==
  ASSUME Built, stage = "loaded", NEW i \in DOMAIN Items(a, "text"),
         i + 1 \in DOMAIN Items(a, "text")
  PROVE  After(InMemory(a, "text", i)) = InMemory(a, "text", i + 1)
<1>1. Layout(a) /\ mem = Loaded(a)
  BY SegmentIs DEF Built, Loaded
<1> DEFINE p == InMemory(a, "text", i)
           q == InMemory(a, "text", i + 1)
<1>2. "text" \in Filed
  BY DEF Filed
<1>3. q \in mem.pieces
  BY <1>1, <1>2, MemoryHolds
<1>4. p.section = "text" /\ p.index = i /\ q.section = "text" /\ q.index = i + 1
  BY DEF InMemory
<1>5. ASSUME NEW c \in mem.pieces, c.section = "text", c.index = i + 1 PROVE c = q
  <2>1. PICK s \in Filed : \E j \in DOMAIN Items(a, s) : c = InMemory(a, s, j)
    BY <1>1, MemoryHolds
  <2>2. PICK j \in DOMAIN Items(a, s) : c = InMemory(a, s, j)
    BY <2>1
  <2>3. s = "text" /\ j = i + 1
    BY <1>5, <2>2 DEF InMemory
  <2> QED
    BY <2>2, <2>3
<1> HIDE DEF p, q
<1>6. After(p) = CHOOSE c \in mem.pieces : c.section = "text" /\ c.index = i + 1
  BY <1>4 DEF After
<1>7. After(p) = q
  BY <1>3, <1>4, <1>5, <1>6
<1> QED
  BY <1>7 DEF p, q

\* One instruction that carries its immediate.
LEMMA OneObeys ==
  ASSUME Built, Meant(a), stage = "loaded", Slack("text") = 0,
         NEW i \in DOMAIN Items(a, "text"), Known(InMemory(a, "text", i)),
         Items(a, "text")[i].kind \in {"i", "s", "b", "j", "u"}
  PROVE  Obeys(InMemory(a, "text", i))
<1> DEFINE p == Items(a, "text")[i]
           m == InMemory(a, "text", i)
           x == Operand(a, "text", p)
           v == Says(p.e)
<1>1. /\ m.kind = p.kind /\ m.e = p.e /\ m.code = PatchInst(a, "text", p)
  BY DEF InMemory
<1>2. p.kind \in {"i", "s", "b", "j", "u"} /\ p.kind \in Patched
  BY DEF Patched
<1>3. /\ v \in Int /\ InReach(p.kind, x)
      /\ x = IF p.kind \in Relative THEN v - m.at ELSE v
  BY <1>2, OperandIs
<1>4. m.at \in Int
  BY TextAddress DEF Built
<1> HIDE DEF p, m, x, v
<1>5. CASE p.kind = "i"
  <2>1. x = v /\ x \in Imm12
    BY <1>3, <1>5 DEF Relative, InReach
  <2>2. m.code = EncI(x)
    BY <1>1, <1>5 DEF PatchInst, x
  <2>3. IImm(m.code) = v
    BY <2>1, <2>2, CodeI
  <2> QED
    BY <1>1, <1>5, <2>3 DEF Obeys, m, v
<1>6. CASE p.kind = "s"
  <2>1. x = v /\ x \in Imm12
    BY <1>3, <1>6 DEF Relative, InReach
  <2>2. m.code = EncS(x)
    BY <1>1, <1>6 DEF PatchInst, x
  <2>3. SImm(m.code) = v
    BY <2>1, <2>2, CodeS
  <2> QED
    BY <1>1, <1>6, <2>3 DEF Obeys, m, v
<1>7. CASE p.kind = "b"
  <2>1. x = v - m.at /\ x >= -4096 /\ x <= 4094 /\ x % 2 = 0
    BY <1>3, <1>7 DEF Relative, InReach
  <2>2. m.code = EncB(x)
    BY <1>1, <1>7 DEF PatchInst, x
  <2>3. BImm(m.code) = x
    <3>1. x \in Int /\ x <= 4095
      BY <1>3, <1>4, <2>1
    <3> QED
      BY <2>1, <2>2, <3>1, CodeB
  <2>4. m.at + BImm(m.code) = v
    BY <1>3, <1>4, <2>1, <2>3
  <2> QED
    BY <1>1, <1>7, <2>4 DEF Obeys, m, v
<1>8. CASE p.kind = "j"
  <2>1. x = v - m.at /\ x >= -1048576 /\ x <= 1048576 - 2 /\ x % 2 = 0
    BY SMT, <1>3, <1>8, Powers DEF Relative, InReach
  <2>2. m.code = EncJ(x)
    BY <1>1, <1>8 DEF PatchInst, x
  <2>3. JImm(m.code) = x
    <3>1. x \in Int /\ x <= 1048575
      BY SMT, <1>3, <1>4, <2>1
    <3> QED
      BY SMT, <2>1, <2>2, <3>1, CodeJ
  <2>4. m.at + JImm(m.code) = v
    BY SMT, <1>3, <1>4, <2>1, <2>3
  <2> QED
    BY <1>1, <1>8, <2>4 DEF Obeys, m, v
<1>9. CASE p.kind = "u"
  <2>1. x = v
    BY <1>3, <1>9 DEF Relative
  <2>2. m.code = EncU(x)
    BY <1>1, <1>9 DEF PatchInst, x
  <2>3. ASSUME v \in 0 .. 2 ^ 20 - 1 PROVE EncU(v) = <<v>>
    <3> DEFINE w == 2 ^ 20
    <3>1. w \in Int /\ w > 0
      BY SMT, Powers
    <3>2. EncU(v) = <<v % w>>
      BY DEF EncU
    <3> HIDE DEF w
    <3>3. v \in 0 .. w - 1
      BY <2>3 DEF w
    <3>4. v % w = v
      BY SMT, <1>3, <3>1, <3>3
    <3> QED
      BY <3>2, <3>4
  <2>4. v \in 0 .. 2 ^ 20 - 1 => m.code = <<v>>
    BY <2>1, <2>2, <2>3
  <2> QED
    BY <1>1, <1>9, <2>4 DEF Obeys, m, v
<1> QED
  BY <1>2, <1>5, <1>6, <1>7, <1>8, <1>9 DEF m

\* A pair: what the first of two instructions says, the second completes.
LEMMA PairObeys ==
  ASSUME Built, Meant(a), stage = "loaded", Slack("text") = 0,
         NEW i \in DOMAIN Items(a, "text"), Known(InMemory(a, "text", i)),
         Items(a, "text")[i].kind \in {"li_hi", "pcrel_hi"}
  PROVE  Obeys(InMemory(a, "text", i))
<1> DEFINE p == Items(a, "text")[i]
           q == Items(a, "text")[i + 1]
           m == InMemory(a, "text", i)
           n == InMemory(a, "text", i + 1)
           x == Operand(a, "text", p)
           v == Says(p.e)
<1>1. /\ m.kind = p.kind /\ m.e = p.e /\ m.code = PatchInst(a, "text", p)
      /\ n.code = PatchInst(a, "text", q)
  BY DEF InMemory
<1>2. p.kind \in {"li_hi", "pcrel_hi"} /\ p.kind \in Patched
  BY DEF Patched
<1>3. /\ v \in Int /\ Eval(p.e, Resolved(a)).is = "number" /\ Eval(p.e, Resolved(a)).v = v
      /\ x = IF p.kind \in Relative THEN v - m.at ELSE v
  BY <1>2, OperandIs
<1>4. m.at \in Int /\ m.at = a.base + p.offset
  BY TextAddress DEF Built
<1>5. PieceMeans(a.symbols, Items(a, "text"), i)
  BY DEF Meant, Sections
<1>6. i + 1 \in DOMAIN Items(a, "text") /\ q.e = p.e
  BY <1>2, <1>5 DEF PieceMeans
<1>7. After(m) = n
  BY <1>6, AfterIs
<1>8. (p.kind = "li_hi" => q.kind = "li_lo")
      /\ (p.kind = "pcrel_hi" => q.kind = "pcrel_lo" /\ q.hi = p.offset)
  BY <1>5 DEF PieceMeans
<1>9. q.kind \in {"li_lo", "pcrel_lo"} => Operand(a, "text", q) = v
  BY <1>3, <1>6 DEF Operand, Relative
<1>10. q.kind = "pcrel_lo" => Eval(q.e, Resolved(a)) # Undefined
  BY <1>3, <1>6 DEF Undefined
<1> HIDE DEF p, q, m, n, x, v
<1>11. CASE p.kind = "li_hi"
  <2>1. m.code = EncU(Hi(v))
    BY <1>1, <1>3, <1>11 DEF PatchInst, x, Relative
  <2>2. n.code = EncI(Lo(v))
    BY <1>1, <1>8, <1>9, <1>11 DEF PatchInst
  <2>3. Addi(Lui(m.code), IImm(After(m).code)) = Word(v)
    BY <1>3, <1>7, <2>1, <2>2, PairMakesWord
  <2> QED
    BY <1>1, <1>11, <2>3 DEF Obeys, m, v
<1>12. CASE p.kind = "pcrel_hi"
  <2>1. m.code = EncU(Hi(v - m.at))
    BY <1>1, <1>3, <1>12 DEF PatchInst, x, Relative
  <2>2. n.code = EncI(PcrelLo(a, q, v))
    BY <1>1, <1>8, <1>9, <1>10, <1>12 DEF PatchInst
  <2>3. PcrelLo(a, q, v) = Lo(v - m.at)
    BY <1>4, <1>8, <1>12 DEF PcrelLo
  <2>4. Addi(Auipc(m.code, m.at), IImm(After(m).code)) = Word(v)
    BY <1>3, <1>4, <1>7, <2>1, <2>2, <2>3, PairMakesAddress
  <2> QED
    BY <1>1, <1>12, <2>4 DEF Obeys, m, v
<1> QED
  BY <1>2, <1>11, <1>12 DEF m

\* A small li, and data: what pass 1 computed.
LEMMA ValueObeys ==
  ASSUME Built, Meant(a), stage = "loaded", Slack("text") = 0,
         NEW s \in Filed, NEW i \in DOMAIN Items(a, s), Known(InMemory(a, s, i)),
         Items(a, s)[i].kind \in {"li", "value"}
  PROVE  Obeys(InMemory(a, s, i))
<1> DEFINE p == Items(a, s)[i]
           m == InMemory(a, s, i)
           v == Says(p.e)
<1>1. /\ m.kind = p.kind /\ m.e = p.e /\ m.code = PatchInst(a, s, p) /\ m.value = p.value
      /\ m.early = p.early
  BY DEF InMemory
<1>2. s \in Sections /\ Layout(a)
  BY DEF Filed, Sections, Built
<1>3. PieceMeans(a.symbols, Items(a, s), i)
  BY <1>2 DEF Meant
<1>4. ~p.early
  BY <1>1 DEF Known
<1>5. p.e \in Expressions
  BY <1>2, PieceTypes DEF Pieces
<1>6. p.kind \in {"li", "value"}
  OBVIOUS
<1>7. Fixed(p.e, a.symbols)
  BY <1>3, <1>4, <1>6 DEF PieceMeans
<1>8. Eval(p.e, a.symbols).v = v /\ v \in Int
  BY <1>5, <1>7, FixedSays
<1>9. p.kind = "value" => p.value \in {Eval(p.e, a.symbols).v, Eval(p.e, a.symbols).v % 256}
  BY <1>3, <1>4 DEF PieceMeans
<1>10. p.kind = "li" => p.value = Eval(p.e, a.symbols).v /\ p.value \in Imm12
  BY <1>3, <1>4 DEF PieceMeans
<1> HIDE DEF p, m, v
<1>11. CASE p.kind = "value"
  <2>1. p.value = v \/ p.value = v % 256
    BY <1>8, <1>9, <1>11
  <2>2. (v % 256) % 256 = v % 256
    BY <1>8
  <2>3. m.value % 256 = v % 256
    BY <1>1, <2>1, <2>2
  <2> QED
    BY <1>1, <1>11, <2>3 DEF Obeys, m, v
<1>12. CASE p.kind = "li"
  <2>1. p.value = v /\ v \in Imm12
    BY <1>8, <1>10, <1>12
  <2>2. m.code = EncI(p.value)
    BY <1>1, <1>12 DEF PatchInst
  <2>3. IImm(m.code) = v
    BY <2>1, <2>2, CodeI
  <2> QED
    BY <1>1, <1>12, <2>3 DEF Obeys, m, v
<1> QED
  BY <1>6, <1>11, <1>12 DEF m

LEMMA SilentObeys ==
  ASSUME NEW p, p.kind \in {"nop", "bytes", "pad", "li_lo", "pcrel_lo"}
  PROVE  Obeys(p)
BY DEF Obeys

LEMMA BuiltMeans == Built /\ Meant(a) => ProgramMeansSource
<1> SUFFICES ASSUME Built, Meant(a), stage = "loaded", SizeOf(a, "text") % 4 = 0,
                    NEW m \in mem.pieces, Known(m), m.section = "text" \/ m.kind = "value"
             PROVE  Obeys(m)
  BY DEF ProgramMeansSource
<1>1. Layout(a) /\ mem = Loaded(a)
  BY SegmentIs DEF Built, Loaded
<1>2. Slack("text") = 0
  <2>1. SizeOf(a, "text") \in Nat
    BY <1>1, SizeTypes
  <2>2. AlignUp(SizeOf(a, "text"), 4) = SizeOf(a, "text")
    BY <2>1, AlignWord
  <2> QED
    BY <2>1, <2>2 DEF Slack
<1>3. PICK s \in Filed : \E i \in DOMAIN Items(a, s) : m = InMemory(a, s, i)
  BY <1>1, MemoryHolds
<1>4. PICK i \in DOMAIN Items(a, s) : m = InMemory(a, s, i)
  BY <1>3
<1>5. m.section = s /\ m.kind = Items(a, s)[i].kind
  BY <1>4 DEF InMemory
<1>6. Items(a, s)[i].kind \in PieceKinds
  <2>1. s \in Sections
    BY DEF Filed, Sections
  <2> QED
    BY <1>1, <2>1, PieceTypes DEF Pieces
<1>7. CASE m.kind \in {"li", "value"}
  BY <1>2, <1>4, <1>5, <1>7, ValueObeys
<1>8. CASE m.kind \notin {"li", "value"}
  <2>1. s = "text"
    BY <1>5, <1>8
  <2>2. CASE m.kind \in {"i", "s", "b", "j", "u"}
    BY <1>2, <1>4, <1>5, <2>1, <2>2, OneObeys
  <2>3. CASE m.kind \in {"li_hi", "pcrel_hi"}
    BY <1>2, <1>4, <1>5, <2>1, <2>3, PairObeys
  <2>4. CASE m.kind \in {"nop", "bytes", "pad", "li_lo", "pcrel_lo"}
    BY <2>4, SilentObeys
  <2> QED
    BY <1>5, <1>6, <1>8, <2>2, <2>3, <2>4 DEF PieceKinds, Instructions
<1> QED
  BY <1>7, <1>8

THEOREM ProgramIsSource == Spec => []ProgramMeansSource
<1>1. Built /\ Meant(a) => ProgramMeansSource
  BY BuiltMeans
<1> QED
  BY <1>1, Invariance, MeaningInvariant, PTL

-----------------------------------------------------------------------------
(* What the builder has stored after some files: the inodes in order, each with *)
(* blocks of its own, and the entries of the root.                              *)

Blocks(f) == IF f.dir THEN 1 ELSE BlocksFor(f.size)
Disk == FirstData .. TotalBlocks - 1
Slots == 0 .. UnitsPerBlock - 1
Places == 0 .. MaxDirect - 1
DiskEntries == [ino : 0 .. NInodes - 1, name : Names \cup {Dot, DotDot}]
DiskUnits == DiskEntries \cup Units \cup {Zero}

\* Unit s of block k of a file, or of the directory ino.
Content(f, ino, k, s) ==
  IF f.dir
  THEN IF s = 0 THEN Entry(ino, Dot) ELSE IF s = 1 THEN Entry(0, DotDot) ELSE Zero
  ELSE IF k * UnitsPerBlock + s < f.size THEN Unit(f.contents, k * UnitsPerBlock + s) ELSE Zero

\* What AddFile and AddDir do, without their EXCEPTs.
Grows(b, n, f) ==
  LET count == Len(b.inodes)
      free == b.nextFreeBlock
      used == Blocks(f)
  IN /\ free + used <= TotalBlocks /\ count < NInodes
     /\ n.nextFreeBlock = free + used
     /\ n.bitmap = b.bitmap \cup (free .. free + used - 1)
     /\ Len(n.inodes) = count + 1
     /\ n.inodes[1] = [b.inodes[1] EXCEPT !.size = Len(b.rootDirBlock) + 1]
     /\ \A i \in 2 .. count : n.inodes[i] = b.inodes[i]
     /\ LET made == n.inodes[count + 1]
        IN /\ made.type = (IF f.dir THEN DIR ELSE FILE)
           /\ made.size = (IF f.dir THEN 2 ELSE f.size)
           /\ made.direct = [k \in Places |-> IF k < used THEN free + k ELSE 0]
     /\ Len(b.rootDirBlock) # UnitsPerBlock
     /\ n.rootDirBlock = Append(b.rootDirBlock, Entry(count, f.name))
     /\ DOMAIN n.disk = DOMAIN b.disk
     /\ n.disk.data =
          [x \in DOMAIN b.disk.data |->
             IF x \in free .. free + used - 1
             THEN [s \in Slots |-> Content(f, count, x - free, s)] ELSE b.disk.data[x]]

\* One pointer: where it leads and what lies there.
PointsTo(b, files, i, k) ==
  LET p == b.inodes[i].direct[k]
  IN IF i = 1 THEN p = (IF k = 0 THEN FirstData ELSE 0)
     ELSE IF k < Blocks(files[i - 1])
     THEN /\ p \in FirstData + 1 .. b.nextFreeBlock - 1
          /\ \A s \in Slots : b.disk.data[p][s] = Content(files[i - 1], i - 1, k, s)
     ELSE p = 0

Rooted(b, files) ==
  /\ Len(b.rootDirBlock) = Len(b.inodes) + 1 /\ Len(b.rootDirBlock) <= UnitsPerBlock
  /\ b.inodes[1].type = DIR /\ b.inodes[1].size = Len(b.rootDirBlock)
  /\ b.rootDirBlock[1] = Entry(0, Dot) /\ b.rootDirBlock[2] = Entry(0, DotDot)
  /\ \A j \in DOMAIN files : b.rootDirBlock[j + 2] = Entry(j, files[j].name)

Described(b, files) ==
  \A j \in DOMAIN files :
    /\ b.inodes[j + 1].type = (IF files[j].dir THEN DIR ELSE FILE)
    /\ b.inodes[j + 1].size = (IF files[j].dir THEN 2 ELSE files[j].size)

Apart(b) ==
  \A i, j \in DOMAIN b.inodes, k, l \in Places :
    b.inodes[i].direct[k] = b.inodes[j].direct[l] /\ b.inodes[i].direct[k] # 0 => i = j /\ k = l

Covering(b) ==
  \A x \in FirstData .. b.nextFreeBlock - 1 :
    \E i \in DOMAIN b.inodes, k \in Places : b.inodes[i].direct[k] = x

DiskParts == {"superblock", "bitmap", "table", "data"}

Formatted(b, files) ==
  /\ DOMAIN b.disk = DiskParts /\ b.nextFreeBlock > FirstData
  /\ Len(files) = Len(b.inodes) - 1
  /\ b.bitmap = 0 .. b.nextFreeBlock - 1
  /\ Rooted(b, files) /\ Described(b, files) /\ Apart(b) /\ Covering(b)
  /\ \A i \in DOMAIN b.inodes, k \in Places : PointsTo(b, files, i, k)
  /\ b.disk.data \in [Disk -> [Slots -> DiskUnits]]


LEMMA AllocIs ==
  ASSUME NEW b, Counted(b), NEW inode, NEW n \in Nat,
         ~AllocBlocks(AllocInode(b, inode), n).failed
  PROVE  /\ Len(b.inodes) < NInodes /\ b.nextFreeBlock + n <= TotalBlocks
         /\ AllocBlocks(AllocInode(b, inode), n) =
              [nextFreeBlock |-> b.nextFreeBlock + n,
               bitmap |-> b.bitmap \cup (b.nextFreeBlock .. b.nextFreeBlock + n - 1),
               inodes |-> Append(b.inodes, inode), rootDirBlock |-> b.rootDirBlock,
               disk |-> b.disk, failed |-> b.failed]
<1> DEFINE made == AllocInode(b, inode)
<1>1. /\ Len(b.inodes) \in 1 .. NInodes /\ NInodes \in Nat /\ TotalBlocks \in Nat
      /\ b.nextFreeBlock \in Nat /\ FirstData \in Nat
      /\ b = [nextFreeBlock |-> b.nextFreeBlock, bitmap |-> b.bitmap, inodes |-> b.inodes,
              rootDirBlock |-> b.rootDirBlock, disk |-> b.disk, failed |-> b.failed]
  BY MkfsAssumption DEF Counted
<1>2. Len(b.inodes) # NInodes
  <2> SUFFICES ASSUME Len(b.inodes) = NInodes PROVE FALSE
    OBVIOUS
  <2>1. made = [b EXCEPT !.failed = TRUE]
    BY DEF AllocInode, Throw
  <2>2. made.failed = TRUE /\ "failed" \in DOMAIN made
    BY <1>1, <2>1
  <2>3. ~AllocBlocks(made, n).failed
    OBVIOUS
  <2> HIDE DEF made
  <2> QED
    BY <2>2, <2>3 DEF AllocBlocks, Throw
<1>3. made = [nextFreeBlock |-> b.nextFreeBlock, bitmap |-> b.bitmap,
              inodes |-> Append(b.inodes, inode),
              rootDirBlock |-> b.rootDirBlock, disk |-> b.disk, failed |-> b.failed]
  <2>1. made = [b EXCEPT !.inodes = Append(b.inodes, inode)]
    BY <1>2 DEF AllocInode
  <2> HIDE DEF made
  <2> QED
    BY <1>1, <2>1
<1> HIDE DEF made
<1>4. ~(b.nextFreeBlock + n > TotalBlocks)
  BY <1>3 DEF AllocBlocks, Throw, made
<1>5. AllocBlocks(made, n) =
        [made EXCEPT !.nextFreeBlock = @ + n,
                     !.bitmap = @ \cup (made.nextFreeBlock .. made.nextFreeBlock + n - 1)]
  BY <1>3, <1>4 DEF AllocBlocks
<1>6. Len(b.inodes) < NInodes /\ b.nextFreeBlock + n <= TotalBlocks
  BY <1>1, <1>2, <1>4
<1> DEFINE marked == b.bitmap \cup (b.nextFreeBlock .. b.nextFreeBlock + n - 1)
           more == Append(b.inodes, inode)
<1>7. AllocBlocks(made, n) =
        [nextFreeBlock |-> b.nextFreeBlock + n, bitmap |-> marked, inodes |-> more,
         rootDirBlock |-> b.rootDirBlock, disk |-> b.disk, failed |-> b.failed]
  <2> DEFINE next == b.nextFreeBlock + n
  <2>1. AllocBlocks(made, n) = [made EXCEPT !.nextFreeBlock = next, !.bitmap = marked]
    BY <1>3, <1>5
  <2>2. made = [nextFreeBlock |-> b.nextFreeBlock, bitmap |-> b.bitmap, inodes |-> more,
                rootDirBlock |-> b.rootDirBlock, disk |-> b.disk, failed |-> b.failed]
    BY <1>3
  <2> HIDE DEF next, marked, more
  <2>3. AllocBlocks(made, n) =
          [nextFreeBlock |-> next, bitmap |-> marked, inodes |-> more,
           rootDirBlock |-> b.rootDirBlock, disk |-> b.disk, failed |-> b.failed]
    BY <2>1, <2>2
  <2> QED
    BY <2>3 DEF next
<1> QED
  BY <1>6, <1>7 DEF made

\* A file's blocks written and its entry made, whichever way.
LEMMA EntryGrows ==
  ASSUME NEW b, Counted(b), DOMAIN b.disk = DiskParts, NEW f, NEW used \in Nat, used = Blocks(f),
         NEW inode,
         inode.type = (IF f.dir THEN DIR ELSE FILE), inode.size = (IF f.dir THEN 2 ELSE f.size),
         inode.direct = [k \in Places |-> IF k < used THEN b.nextFreeBlock + k ELSE 0],
         ~AllocBlocks(AllocInode(b, inode), used).failed,
         NEW data,
         data = [x \in DOMAIN b.disk.data |->
                   IF x \in b.nextFreeBlock .. b.nextFreeBlock + used - 1
                   THEN [s \in Slots |-> Content(f, Len(b.inodes), x - b.nextFreeBlock, s)]
                   ELSE b.disk.data[x]],
         NEW disk, disk = [b.disk EXCEPT !.data = data],
         NEW stored, stored = [AllocBlocks(AllocInode(b, inode), used) EXCEPT !.disk = disk],
         ~AddEntry(stored, Len(b.inodes), f.name).failed
  PROVE  Grows(b, AddEntry(stored, Len(b.inodes), f.name), f)
<1> DEFINE count == Len(b.inodes)
           n == AddEntry(stored, count, f.name)
           row == Append(b.inodes, inode)
           made == AllocBlocks(AllocInode(b, inode), used)
           marked == b.bitmap \cup (b.nextFreeBlock .. b.nextFreeBlock + used - 1)
<1>1. /\ count < NInodes /\ b.nextFreeBlock + used <= TotalBlocks
      /\ made = [nextFreeBlock |-> b.nextFreeBlock + used, bitmap |-> marked, inodes |-> row,
                 rootDirBlock |-> b.rootDirBlock, disk |-> b.disk, failed |-> b.failed]
  BY AllocIs
<1>2. b.inodes \in Seq(InodeSet) /\ count \in Nat \ {0}
  BY DEF Counted
<1>3. /\ Len(row) = count + 1 /\ row[count + 1] = inode
      /\ \A i \in 1 .. count : row[i] = b.inodes[i]
      /\ DOMAIN row = 1 .. count + 1
  <2> DEFINE S == InodeSet \cup {inode}
  <2>1. b.inodes \in Seq(S) /\ inode \in S
    BY <1>2
  <2> HIDE DEF S
  <2> QED
    BY <1>2, <2>1
<1> HIDE DEF row, marked, made
<1>4. stored = [nextFreeBlock |-> b.nextFreeBlock + used, bitmap |-> marked, inodes |-> row,
                rootDirBlock |-> b.rootDirBlock, disk |-> disk, failed |-> b.failed]
  BY <1>1 DEF made
<1>5. Len(b.rootDirBlock) # UnitsPerBlock
  BY <1>4 DEF AddEntry, Throw
<1>6. n = [stored EXCEPT !.rootDirBlock = Append(stored.rootDirBlock, Entry(count, f.name)),
                         !.inodes = [stored.inodes EXCEPT ![1] =
                           [stored.inodes[1] EXCEPT !.size = Len(stored.rootDirBlock) + 1]]]
  <2>1. Len(stored.rootDirBlock) # UnitsPerBlock
    BY <1>4, <1>5
  <2> QED
    BY <2>1 DEF AddEntry
<1> DEFINE first == [b.inodes[1] EXCEPT !.size = Len(b.rootDirBlock) + 1]
           inodes == [row EXCEPT ![1] = first]
           root == Append(b.rootDirBlock, Entry(count, f.name))
           next == b.nextFreeBlock + used
<1>7. /\ n.nextFreeBlock = next /\ n.bitmap = marked /\ n.inodes = inodes
      /\ n.rootDirBlock = root /\ n.disk = disk
  <2>1. row[1] = b.inodes[1] /\ stored.inodes = row /\ stored.rootDirBlock = b.rootDirBlock
    BY <1>2, <1>3, <1>4
  <2>2. n = [stored EXCEPT !.rootDirBlock = root, !.inodes = inodes]
    <3> HIDE DEF n
    <3> QED
      BY <1>6, <2>1
  <2>3. stored = [nextFreeBlock |-> next, bitmap |-> marked, inodes |-> row,
                  rootDirBlock |-> b.rootDirBlock, disk |-> disk, failed |-> b.failed]
    BY <1>4
  <2> HIDE DEF n, inodes, root, next
  <2> QED
    BY <2>2, <2>3
<1> HIDE DEF first
<1>8. /\ Len(inodes) = count + 1 /\ inodes[1] = first /\ inodes[count + 1] = inode
      /\ \A i \in 2 .. count : inodes[i] = b.inodes[i]
  <2>1. DOMAIN inodes = 1 .. count + 1
    BY <1>3
  <2>2. Len(inodes) = count + 1
    <3> DEFINE S == InodeSet \cup {inode, first}
    <3>1. row \in Seq(S)
      BY <1>2 DEF row
    <3>2. inodes \in Seq(S)
      <4> HIDE DEF S, inodes
      <4>1. first \in S
        BY DEF S
      <4> QED
        BY <3>1, <4>1, <1>3 DEF inodes
    <3> QED
      BY <2>1, <3>2, <1>2
  <2>3. 1 \in 1 .. count + 1 /\ count + 1 \in 1 .. count + 1 /\ count + 1 # 1
    BY <1>2
  <2>4. ASSUME NEW i \in 2 .. count PROVE inodes[i] = b.inodes[i]
    <3>1. i \in 1 .. count + 1 /\ i \in 1 .. count /\ i # 1
      BY <1>2, <2>4
    <3> QED
      BY <1>3, <3>1
  <2> QED
    BY <1>3, <2>2, <2>3, <2>4
<1>9. disk.data = data /\ DOMAIN disk = DOMAIN b.disk
  BY DEF DiskParts
<1> HIDE DEF n, inodes, next
<1>10. /\ count < NInodes /\ next <= TotalBlocks
       /\ inodes[count + 1].type = (IF f.dir THEN DIR ELSE FILE)
       /\ inodes[count + 1].size = (IF f.dir THEN 2 ELSE f.size)
       /\ inodes[count + 1].direct = [k \in Places |-> IF k < used THEN b.nextFreeBlock + k ELSE 0]
  BY <1>1, <1>8 DEF next
<1>11. Grows(b, n, f)
  BY <1>5, <1>7, <1>8, <1>9, <1>10 DEF Grows, first, marked, next
<1> QED
  BY <1>11 DEF n

LEMMA FileGrows ==
  ASSUME NEW b, Counted(b), DOMAIN b.disk = DiskParts, NEW f, ~f.dir, f.size \in Nat,
         ~AddFile(b, f).failed
  PROVE  Grows(b, AddFile(b, f), f)
<1> DEFINE n == BlocksFor(f.size)
           inode == [type |-> FILE, size |-> f.size, nlinks |-> 1, direct |-> Pointers(b, n)]
           made == AllocInode(b, inode)
           stored == AllocBlocks(made, n)
           data == WriteFile(b, f, n)
           disk == [b.disk EXCEPT !.data = data]
           written == [stored EXCEPT !.disk.data = WriteFile(b, f, n)]
<1>1. n \in Nat /\ n = Blocks(f) /\ "failed" \in DOMAIN b /\ b.nextFreeBlock \in Nat
  BY BlocksForIs, MkfsAssumption DEF Blocks, Counted
<1>2. AddFile(b, f) = IF made.failed \/ stored.failed THEN Throw(b)
                      ELSE AddEntry(written, Len(b.inodes), f.name)
  BY DEF AddFile
<1> HIDE DEF n, written
<1>3. ~stored.failed /\ AddFile(b, f) = AddEntry(written, Len(b.inodes), f.name)
  <2> HIDE DEF made, stored
  <2> QED
    BY <1>1, <1>2 DEF Throw
<1>4. /\ inode.type = (IF f.dir THEN DIR ELSE FILE) /\ inode.size = (IF f.dir THEN 2 ELSE f.size)
      /\ inode.direct = [k \in Places |-> IF k < n THEN b.nextFreeBlock + k ELSE 0]
  BY DEF Pointers, NoPointers, Places
<1>5. data = [x \in DOMAIN b.disk.data |->
                IF x \in b.nextFreeBlock .. b.nextFreeBlock + n - 1
                THEN [s \in Slots |-> Content(f, Len(b.inodes), x - b.nextFreeBlock, s)]
                ELSE b.disk.data[x]]
  BY DEF WriteFile, Content, Slots
<1> HIDE DEF inode, data
<1>6. written = [stored EXCEPT !.disk = disk]
  <2>1. stored.disk = b.disk
    BY <1>1, <1>3, AllocIs
  <2> HIDE DEF stored
  <2> QED
    BY <2>1 DEF written, data
<1>7. Grows(b, AddEntry(written, Len(b.inodes), f.name), f)
  <2>1. ~AddEntry(written, Len(b.inodes), f.name).failed
    BY <1>3
  <2> HIDE DEF disk, written
  <2>2. disk = [b.disk EXCEPT !.data = data]
    BY DEF disk
  <2> QED
    BY <1>1, <1>3, <1>4, <1>5, <1>6, <2>1, <2>2, EntryGrows
<1> QED
  BY <1>3, <1>7

LEMMA DirGrows ==
  ASSUME NEW b, Counted(b), DOMAIN b.disk = DiskParts, NEW f, f.dir,
         b.disk.data \in [Disk -> [Slots -> DiskUnits]],
         ~AddDir(b, f.name).failed
  PROVE  Grows(b, AddDir(b, f.name), f)
<1> DEFINE ino == Len(b.inodes)
           inode == [type |-> DIR, size |-> 2, nlinks |-> 2, direct |-> Pointers(b, 1)]
           made == AllocInode(b, inode)
           stored == AllocBlocks(made, 1)
           block == Padded(<<Entry(ino, Dot), Entry(0, DotDot)>>)
           data == [b.disk.data EXCEPT ![b.nextFreeBlock] = block]
           disk == [b.disk EXCEPT !.data = data]
           written == [stored EXCEPT !.disk.data[b.nextFreeBlock] = block]
<1>1. 1 = Blocks(f) /\ "failed" \in DOMAIN b /\ b.nextFreeBlock \in Nat /\ UnitsPerBlock \in Nat
      /\ b.nextFreeBlock >= FirstData /\ FirstData \in Nat /\ TotalBlocks \in Nat
  BY MkfsAssumption DEF Blocks, Counted
<1>2. AddDir(b, f.name) = IF stored.failed THEN Throw(b) ELSE AddEntry(written, ino, f.name)
  BY DEF AddDir
<1> HIDE DEF written, block
<1>3. ~stored.failed /\ AddDir(b, f.name) = AddEntry(written, ino, f.name)
  <2> HIDE DEF stored
  <2> QED
    BY <1>1, <1>2 DEF Throw
<1>4. /\ inode.type = (IF f.dir THEN DIR ELSE FILE) /\ inode.size = (IF f.dir THEN 2 ELSE f.size)
      /\ inode.direct = [k \in Places |-> IF k < 1 THEN b.nextFreeBlock + k ELSE 0]
  BY DEF Pointers, NoPointers, Places
<1> HIDE DEF inode
<1>5. stored.disk = b.disk /\ b.nextFreeBlock + 1 <= TotalBlocks
  BY <1>1, <1>3, AllocIs
<1>6. block = [s \in Slots |-> Content(f, ino, 0, s)]
  <2> DEFINE dots == <<Entry(ino, Dot), Entry(0, DotDot)>>
  <2>1. Len(dots) = 2 /\ dots[1] = Entry(ino, Dot) /\ dots[2] = Entry(0, DotDot)
    OBVIOUS
  <2>2. block = Padded(dots)
    BY DEF block
  <2> HIDE DEF dots
  <2>3. block = [s \in Slots |-> IF s < 2 THEN dots[s + 1] ELSE Zero]
    BY <2>1, <2>2 DEF Padded, Slots
  <2>4. ASSUME NEW s \in Slots
        PROVE  (IF s < 2 THEN dots[s + 1] ELSE Zero) = Content(f, ino, 0, s)
    <3>1. s \in Nat /\ (s < 2 => s = 0 \/ s = 1)
      BY <1>1 DEF Slots
    <3>2. s = 0 => dots[s + 1] = Entry(ino, Dot)
      BY <2>1
    <3>3. s = 1 => dots[s + 1] = Entry(0, DotDot)
      BY <2>1
    <3> QED
      BY <3>1, <3>2, <3>3 DEF Content
  <2> QED
    BY <2>3, <2>4
<1>7. data = [x \in DOMAIN b.disk.data |->
                IF x \in b.nextFreeBlock .. b.nextFreeBlock + 1 - 1
                THEN [s \in Slots |-> Content(f, ino, x - b.nextFreeBlock, s)]
                ELSE b.disk.data[x]]
  <2>1. \A x : x \in b.nextFreeBlock .. b.nextFreeBlock + 1 - 1 <=> x = b.nextFreeBlock
    <3>1. b.nextFreeBlock + 1 - 1 = b.nextFreeBlock
      BY <1>1
    <3>2. b.nextFreeBlock .. b.nextFreeBlock = {b.nextFreeBlock}
      BY <1>1
    <3> QED
      BY <3>1, <3>2
  <2>2. b.nextFreeBlock - b.nextFreeBlock = 0
    BY <1>1
  <2>3. ASSUME NEW x \in DOMAIN b.disk.data
        PROVE  (IF x = b.nextFreeBlock THEN block ELSE b.disk.data[x]) =
                 (IF x \in b.nextFreeBlock .. b.nextFreeBlock + 1 - 1
                  THEN [s \in Slots |-> Content(f, ino, x - b.nextFreeBlock, s)]
                  ELSE b.disk.data[x])
    BY <1>6, <2>1, <2>2
  <2>4. data = [x \in DOMAIN b.disk.data |-> IF x = b.nextFreeBlock THEN block ELSE b.disk.data[x]]
    OBVIOUS
  <2> HIDE DEF data
  <2> QED
    BY <2>3, <2>4
<1>8. written = [stored EXCEPT !.disk = disk]
  <2> HIDE DEF stored
  <2> QED
    BY <1>5 DEF written
<1> HIDE DEF data
<1>9. Grows(b, AddEntry(written, ino, f.name), f)
  <2>1. ~AddEntry(written, ino, f.name).failed
    BY <1>3
  <2> HIDE DEF disk, written
  <2>2. disk = [b.disk EXCEPT !.data = data]
    BY DEF disk
  <2> QED
    BY <1>1, <1>3, <1>4, <1>7, <1>8, <2>1, <2>2, EntryGrows
<1> QED
  BY <1>3, <1>9

Added(f) == f.name \in Names /\ f.size \in Nat /\ (~f.dir => f.contents \in Contents)

LEMMA BlocksIs ==
  ASSUME NEW f, Added(f)
  PROVE  Blocks(f) \in 0 .. MaxDirect
<1>1. MaxDirect \in Nat \ {0}
  BY MkfsAssumption
<1> QED
  BY <1>1, BlocksForIs DEF Blocks, Added

LEMMA PlaceBounded ==
  ASSUME NEW k \in Places, NEW s \in Slots
  PROVE  k * UnitsPerBlock + s \in 0 .. MaxDirect * UnitsPerBlock
<1>1. /\ UnitsPerBlock \in Nat /\ MaxDirect \in Nat /\ k \in Nat /\ s \in Nat
      /\ k + 1 <= MaxDirect /\ s < UnitsPerBlock
  BY MkfsAssumption DEF Places, Slots
<1>2. (k + 1) * UnitsPerBlock = k * UnitsPerBlock + UnitsPerBlock
  BY <1>1
<1>3. (k + 1) * UnitsPerBlock <= MaxDirect * UnitsPerBlock
  BY <1>1
<1>4. k * UnitsPerBlock \in Nat /\ MaxDirect * UnitsPerBlock \in Nat
  BY <1>1
<1> DEFINE x == k * UnitsPerBlock
           y == MaxDirect * UnitsPerBlock
           z == (k + 1) * UnitsPerBlock
<1>5. x \in Nat /\ y \in Nat /\ z = x + UnitsPerBlock /\ z <= y
  BY <1>2, <1>3, <1>4
<1> HIDE DEF x, y, z
<1>6. x + s \in 0 .. y
  BY <1>1, <1>5
<1> QED
  BY <1>6 DEF x, y

LEMMA ContentIs ==
  ASSUME NEW f, Added(f), NEW ino \in 0 .. NInodes - 1, NEW k \in Places, NEW s \in Slots
  PROVE  Content(f, ino, k, s) \in DiskUnits
<1>1. Entry(ino, Dot) \in DiskEntries /\ Entry(0, DotDot) \in DiskEntries
  <2>1. NInodes \in Nat \ {0}
    BY MkfsAssumption
  <2>2. 0 \in 0 .. NInodes - 1
    BY <2>1
  <2> QED
    BY <2>2 DEF Entry, DiskEntries
<1>2. ~f.dir => Unit(f.contents, k * UnitsPerBlock + s) \in Units
  BY PlaceBounded DEF Units, Added
<1> QED
  BY <1>1, <1>2 DEF Content, DiskUnits

LEMMA Grown1 ==
  ASSUME NEW b, NEW n, NEW f, NEW files, Counted(b), Added(f), files \in Seq(SourceFiles \cup Programs),
         Formatted(b, files), Grows(b, n, f)
  PROVE  /\ Len(b.inodes) \in Nat \ {0} /\ Len(b.inodes) < NInodes /\ NInodes \in Nat
         /\ FirstData \in Nat /\ TotalBlocks \in Nat /\ MaxDirect \in Nat \ {0}
         /\ b.nextFreeBlock \in Nat /\ b.nextFreeBlock > FirstData
         /\ Blocks(f) \in 0 .. MaxDirect /\ b.nextFreeBlock + Blocks(f) <= TotalBlocks
         /\ DOMAIN b.inodes = 1 .. Len(b.inodes) /\ Len(files) = Len(b.inodes) - 1
         /\ DOMAIN files = 1 .. Len(b.inodes) - 1
         /\ DOMAIN Append(files, f) = 1 .. Len(b.inodes)
         /\ Len(Append(files, f)) = Len(b.inodes)
         /\ Append(files, f)[Len(b.inodes)] = f
         /\ \A j \in 1 .. Len(b.inodes) - 1 : Append(files, f)[j] = files[j]
<1>1. /\ Len(b.inodes) \in 1 .. NInodes /\ NInodes \in Nat /\ FirstData \in Nat /\ TotalBlocks \in Nat
      /\ MaxDirect \in Nat \ {0} /\ b.nextFreeBlock \in FirstData .. TotalBlocks
      /\ DOMAIN b.inodes = 1 .. Len(b.inodes)
  BY MkfsAssumption DEF Counted
<1>2. /\ Len(b.inodes) < NInodes /\ b.nextFreeBlock + Blocks(f) <= TotalBlocks
      /\ b.nextFreeBlock > FirstData /\ Len(files) = Len(b.inodes) - 1
  BY DEF Formatted, Grows
<1>3. Blocks(f) \in 0 .. MaxDirect
  BY BlocksIs
<1>4. /\ DOMAIN files = 1 .. Len(files) /\ Len(Append(files, f)) = Len(files) + 1
      /\ DOMAIN Append(files, f) = 1 .. Len(files) + 1
      /\ Append(files, f)[Len(files) + 1] = f
      /\ \A j \in 1 .. Len(files) : Append(files, f)[j] = files[j]
  <2> DEFINE S == SourceFiles \cup Programs \cup {f}
  <2>1. files \in Seq(S) /\ f \in S
    OBVIOUS
  <2> HIDE DEF S
  <2> QED
    BY <2>1
<1>5. Len(files) + 1 = Len(b.inodes)
  BY <1>1, <1>2
<1> QED
  BY <1>1, <1>2, <1>3, <1>4, <1>5

\* Pointers of before are the same, and lead to blocks of before.
LEMMA OldPointers ==
  ASSUME NEW b, NEW n, NEW f, NEW files, Counted(b), Added(f), files \in Seq(SourceFiles \cup Programs),
         Formatted(b, files), Grows(b, n, f), NEW i \in DOMAIN b.inodes, NEW k \in Places
  PROVE  /\ n.inodes[i].direct[k] = b.inodes[i].direct[k]
         /\ b.inodes[i].direct[k] # 0 => b.inodes[i].direct[k] \in FirstData .. b.nextFreeBlock - 1
<1>1. n.inodes[i].direct[k] = b.inodes[i].direct[k]
  <2>1. CASE i = 1
    <3>1. b.inodes[1] \in InodeSet
      BY <2>1 DEF Counted
    <3>2. n.inodes[1] = [b.inodes[1] EXCEPT !.size = Len(b.rootDirBlock) + 1]
      BY DEF Grows
    <3>3. n.inodes[1].direct = b.inodes[1].direct
      BY <3>1, <3>2 DEF InodeSet
    <3> QED
      BY <2>1, <3>3
  <2>2. CASE i # 1
    <3>1. i \in 2 .. Len(b.inodes)
      BY <2>2, Grown1
    <3> QED
      BY <3>1 DEF Grows
  <2> QED
    BY <2>1, <2>2
<1>2. PointsTo(b, files, i, k)
  BY DEF Formatted
<1>3. FirstData \in Nat /\ b.nextFreeBlock \in Nat /\ b.nextFreeBlock > FirstData
  BY Grown1
<1> QED
  BY <1>1, <1>2, <1>3 DEF PointsTo

LEMMA NewPointers ==
  ASSUME NEW b, NEW n, NEW f, NEW files, Counted(b), Added(f), files \in Seq(SourceFiles \cup Programs),
         Formatted(b, files), Grows(b, n, f), NEW k \in Places
  PROVE  n.inodes[Len(b.inodes) + 1].direct[k] =
           IF k < Blocks(f) THEN b.nextFreeBlock + k ELSE 0
BY DEF Grows

LEMMA GrowsApart ==
  ASSUME NEW b, NEW n, NEW f, NEW files, Counted(b), Counted(n), Added(f),
         files \in Seq(SourceFiles \cup Programs), Formatted(b, files), Grows(b, n, f)
  PROVE  Apart(n) /\ Covering(n)
<1> DEFINE count == Len(b.inodes)
           free == b.nextFreeBlock
           used == Blocks(f)
<1>1. /\ count \in Nat \ {0} /\ free \in Nat /\ used \in 0 .. MaxDirect /\ FirstData \in Nat
      /\ free > FirstData /\ MaxDirect \in Nat \ {0}
      /\ DOMAIN b.inodes = 1 .. count /\ n.nextFreeBlock = free + used
  BY Grown1 DEF Grows
<1>2. DOMAIN n.inodes = 1 .. count + 1
  BY DEF Grows, Counted
<1>3. \A i \in 1 .. count, k \in Places :
        /\ n.inodes[i].direct[k] = b.inodes[i].direct[k]
        /\ b.inodes[i].direct[k] # 0 => b.inodes[i].direct[k] \in FirstData .. free - 1
  BY <1>1, OldPointers
<1>4. \A k \in Places : n.inodes[count + 1].direct[k] = IF k < used THEN free + k ELSE 0
  BY NewPointers
<1>5. Apart(b) /\ Covering(b)
  BY DEF Formatted
<1> HIDE DEF count, free, used
<1>6. Apart(n)
  <2> SUFFICES ASSUME NEW i \in 1 .. count + 1, NEW j \in 1 .. count + 1, NEW k \in Places, NEW l \in Places,
                      n.inodes[i].direct[k] = n.inodes[j].direct[l], n.inodes[i].direct[k] # 0
               PROVE  i = j /\ k = l
    BY <1>2 DEF Apart
  <2>1. /\ (i \in 1 .. count \/ i = count + 1) /\ (j \in 1 .. count \/ j = count + 1)
        /\ k \in Nat /\ l \in Nat
    BY <1>1 DEF Places
  <2>2. CASE i \in 1 .. count /\ j \in 1 .. count
    <3>1. b.inodes[i].direct[k] = b.inodes[j].direct[l] /\ b.inodes[i].direct[k] # 0
      BY <1>3, <2>2
    <3>2. i \in DOMAIN b.inodes /\ j \in DOMAIN b.inodes
      BY <1>1, <2>2
    <3> QED
      BY <1>5, <3>1, <3>2 DEF Apart
  <2>3. CASE i \in 1 .. count /\ j = count + 1
    <3>1. n.inodes[i].direct[k] \in FirstData .. free - 1
      BY <1>3, <2>3
    <3>2. n.inodes[j].direct[l] = free + l
      BY <1>4, <2>3
    <3> QED
      BY <1>1, <2>1, <3>1, <3>2
  <2>4. CASE i = count + 1 /\ j \in 1 .. count
    <3>1. n.inodes[j].direct[l] \in FirstData .. free - 1
      BY <1>3, <2>4
    <3>2. n.inodes[i].direct[k] = free + k
      BY <1>4, <2>4
    <3> QED
      BY <1>1, <2>1, <3>1, <3>2
  <2>5. CASE i = count + 1 /\ j = count + 1
    <3>1. n.inodes[i].direct[k] = free + k /\ n.inodes[j].direct[l] = free + l
      BY <1>4, <2>5
    <3> QED
      BY <1>1, <2>1, <2>5, <3>1
  <2> QED
    BY <2>1, <2>2, <2>3, <2>4, <2>5
<1>7. Covering(n)
  <2> SUFFICES ASSUME NEW x \in FirstData .. free + used - 1
               PROVE  \E i \in 1 .. count + 1, k \in Places : n.inodes[i].direct[k] = x
    BY <1>1, <1>2 DEF Covering
  <2>1. CASE x \in FirstData .. free - 1
    <3>1. PICK i \in 1 .. count, k \in Places : b.inodes[i].direct[k] = x
      BY <1>1, <1>5, <2>1 DEF Covering, free
    <3>2. i \in 1 .. count + 1 /\ n.inodes[i].direct[k] = x
      BY <1>1, <1>3, <3>1
    <3> QED
      BY <3>2
  <2>2. CASE x \notin FirstData .. free - 1
    <3>1. x - free \in Places /\ x - free < used /\ free + (x - free) = x
      BY <1>1, <2>2 DEF Places
    <3>2. n.inodes[count + 1].direct[x - free] = x /\ count + 1 \in 1 .. count + 1
      BY <1>1, <1>4, <3>1
    <3> QED
      BY <3>1, <3>2
  <2> QED
    BY <2>1, <2>2
<1> QED
  BY <1>6, <1>7

LEMMA GrowsData ==
  ASSUME NEW b, NEW n, NEW f, NEW files, Counted(b), Added(f), files \in Seq(SourceFiles \cup Programs),
         Formatted(b, files), Grows(b, n, f)
  PROVE  n.disk.data \in [Disk -> [Slots -> DiskUnits]]
<1> DEFINE count == Len(b.inodes)
           free == b.nextFreeBlock
           used == Blocks(f)
<1>1. /\ count \in 0 .. NInodes - 1 /\ free \in Nat /\ used \in 0 .. MaxDirect /\ MaxDirect \in Nat
  BY Grown1
<1>2. b.disk.data \in [Disk -> [Slots -> DiskUnits]]
  BY DEF Formatted
<1>3. n.disk.data = [x \in Disk |-> IF x \in free .. free + used - 1
                                    THEN [s \in Slots |-> Content(f, count, x - free, s)]
                                    ELSE b.disk.data[x]]
  <2>1. DOMAIN b.disk.data = Disk
    BY <1>2
  <2> QED
    BY <2>1 DEF Grows
<1> HIDE DEF count, free, used
<1>4. ASSUME NEW x \in free .. free + used - 1
      PROVE  [s \in Slots |-> Content(f, count, x - free, s)] \in [Slots -> DiskUnits]
  <2>1. x - free \in Places
    BY <1>1 DEF Places
  <2>2. \A s \in Slots : Content(f, count, x - free, s) \in DiskUnits
    BY <1>1, <2>1, ContentIs
  <2> QED
    BY <2>2
<1>5. \A x \in Disk : b.disk.data[x] \in [Slots -> DiskUnits]
  BY <1>2
<1>6. \A x \in Disk : (IF x \in free .. free + used - 1
                       THEN [s \in Slots |-> Content(f, count, x - free, s)]
                       ELSE b.disk.data[x]) \in [Slots -> DiskUnits]
  BY <1>4, <1>5
<1> QED
  BY <1>3, <1>6

LEMMA GrowsPoints ==
  ASSUME NEW b, NEW n, NEW f, NEW files, Counted(b), Counted(n), Added(f),
         files \in Seq(SourceFiles \cup Programs), Formatted(b, files), Grows(b, n, f),
         NEW i \in DOMAIN n.inodes, NEW k \in Places
  PROVE  PointsTo(n, Append(files, f), i, k)
<1> DEFINE count == Len(b.inodes)
           free == b.nextFreeBlock
           used == Blocks(f)
           more == Append(files, f)
<1>1. /\ count \in Nat \ {0} /\ free \in Nat /\ used \in 0 .. MaxDirect /\ FirstData \in Nat
      /\ free > FirstData /\ MaxDirect \in Nat \ {0} /\ free + used <= TotalBlocks /\ TotalBlocks \in Nat
      /\ DOMAIN b.inodes = 1 .. count /\ n.nextFreeBlock = free + used
      /\ more[count] = f /\ \A j \in 1 .. count - 1 : more[j] = files[j]
  <2>1. n.nextFreeBlock = free + used
    BY DEF Grows
  <2> QED
    BY <2>1, Grown1
<1>2. i \in 1 .. count + 1
  BY DEF Grows, Counted
<1>3. n.disk.data = [x \in Disk |-> IF x \in free .. free + used - 1
                                    THEN [s \in Slots |-> Content(f, count, x - free, s)]
                                    ELSE b.disk.data[x]]
  <2>1. DOMAIN b.disk.data = Disk
    BY DEF Formatted
  <2> QED
    BY <2>1 DEF Grows
<1>4. i = count + 1 => n.inodes[i].direct[k] = IF k < used THEN free + k ELSE 0
  BY NewPointers
<1> HIDE DEF count, free, used, more
<1>5. CASE i = 1
  <2>1. 1 \in DOMAIN b.inodes
    BY <1>1
  <2>2. n.inodes[1].direct[k] = b.inodes[1].direct[k]
    BY <2>1, OldPointers
  <2>3. PointsTo(b, files, 1, k)
    BY <2>1 DEF Formatted
  <2> QED
    BY <1>5, <2>2, <2>3 DEF PointsTo
<1>6. CASE i \in 2 .. count
  <2>1. i \in DOMAIN b.inodes /\ i - 1 \in 1 .. count - 1 /\ i # 1
    BY <1>1, <1>6
  <2>2. n.inodes[i].direct[k] = b.inodes[i].direct[k]
    BY <2>1, OldPointers
  <2>3. PointsTo(b, files, i, k)
    BY <2>1 DEF Formatted
  <2>4. more[i - 1] = files[i - 1]
    BY <1>1, <2>1
  <2>5. CASE k < Blocks(files[i - 1])
    <3> DEFINE p == b.inodes[i].direct[k]
    <3>1. /\ p \in FirstData + 1 .. free - 1
          /\ \A s \in Slots : b.disk.data[p][s] = Content(files[i - 1], i - 1, k, s)
      BY <2>1, <2>3, <2>5 DEF PointsTo, free
    <3> HIDE DEF p
    <3>2. p \in Disk /\ p \notin free .. free + used - 1 /\ p \in FirstData + 1 .. free + used - 1
      BY <1>1, <3>1 DEF Disk
    <3>3. n.disk.data[p] = b.disk.data[p]
      BY <1>3, <3>2
    <3>4. n.inodes[i].direct[k] = p
      BY <2>2 DEF p
    <3>5. PointsTo(n, more, i, k)
      BY <1>1, <2>1, <2>4, <2>5, <3>1, <3>2, <3>3, <3>4 DEF PointsTo
    <3> QED
      BY <3>5 DEF more
  <2>6. CASE ~(k < Blocks(files[i - 1]))
    <3>1. PointsTo(n, more, i, k)
      BY <2>1, <2>2, <2>3, <2>4, <2>6 DEF PointsTo
    <3> QED
      BY <3>1 DEF more
  <2> QED
    BY <2>5, <2>6
<1>7. CASE i = count + 1
  <2>1. i # 1 /\ i - 1 = count /\ more[i - 1] = f /\ k \in Nat
    BY <1>1, <1>7 DEF Places
  <2>2. CASE k < used
    <3> DEFINE p == free + k
    <3>1. /\ p \in Disk /\ p \in free .. free + used - 1 /\ p \in FirstData + 1 .. free + used - 1
          /\ p - free = k
      BY <1>1, <2>1, <2>2 DEF Disk
    <3>2. n.inodes[i].direct[k] = p
      BY <1>4, <1>7, <2>2
    <3> HIDE DEF p
    <3>3. n.disk.data[p] = [s \in Slots |-> Content(f, count, k, s)]
      BY <1>3, <3>1
    <3>4. PointsTo(n, more, i, k)
      BY <1>1, <2>1, <2>2, <3>1, <3>2, <3>3 DEF PointsTo, used
    <3> QED
      BY <3>4 DEF more
  <2>3. CASE ~(k < used)
    <3>1. PointsTo(n, more, i, k)
      BY <1>4, <1>7, <2>1, <2>3 DEF PointsTo, used
    <3> QED
      BY <3>1 DEF more
  <2> QED
    BY <2>2, <2>3
<1> QED
  BY <1>1, <1>2, <1>5, <1>6, <1>7

LEMMA GrowsEntries ==
  ASSUME NEW b, NEW n, NEW f, NEW files, Counted(b), Counted(n), Added(f),
         files \in Seq(SourceFiles \cup Programs), Formatted(b, files), Grows(b, n, f)
  PROVE  Rooted(n, Append(files, f)) /\ Described(n, Append(files, f))
<1> DEFINE count == Len(b.inodes)
           more == Append(files, f)
           row == b.rootDirBlock
           e == Entry(count, f.name)
<1>1. /\ count \in Nat \ {0} /\ DOMAIN files = 1 .. count - 1 /\ DOMAIN more = 1 .. count
      /\ more[count] = f /\ \A j \in 1 .. count - 1 : more[j] = files[j]
      /\ UnitsPerBlock \in Nat
  BY Grown1, MkfsAssumption
<1>2. /\ n.rootDirBlock = Append(row, e) /\ Len(row) # UnitsPerBlock
      /\ Len(n.inodes) = count + 1
      /\ n.inodes[1] = [b.inodes[1] EXCEPT !.size = Len(row) + 1]
      /\ \A i \in 2 .. count : n.inodes[i] = b.inodes[i]
      /\ n.inodes[count + 1].type = (IF f.dir THEN DIR ELSE FILE)
      /\ n.inodes[count + 1].size = (IF f.dir THEN 2 ELSE f.size)
  BY DEF Grows
<1>3. /\ Len(row) = count + 1 /\ Len(row) <= UnitsPerBlock
      /\ b.inodes[1].type = DIR /\ row[1] = Entry(0, Dot) /\ row[2] = Entry(0, DotDot)
      /\ \A j \in 1 .. count - 1 : row[j + 2] = Entry(j, files[j].name)
      /\ \A j \in 1 .. count - 1 : /\ b.inodes[j + 1].type = (IF files[j].dir THEN DIR ELSE FILE)
                                  /\ b.inodes[j + 1].size = (IF files[j].dir THEN 2 ELSE files[j].size)
  BY <1>1 DEF Formatted, Rooted, Described
<1>4. b.inodes[1] \in InodeSet /\ row \in Seq(RootEntries)
  BY <1>1 DEF Counted
<1>5. /\ Len(Append(row, e)) = Len(row) + 1 /\ Append(row, e)[Len(row) + 1] = e
      /\ \A j \in 1 .. Len(row) : Append(row, e)[j] = row[j]
  <2> DEFINE S == RootEntries \cup {e}
  <2>1. row \in Seq(S) /\ e \in S
    BY <1>4
  <2> HIDE DEF S, e, row
  <2> QED
    BY <2>1
<1> HIDE DEF count, more, row, e
<1>6. n.inodes[1].type = DIR /\ n.inodes[1].size = Len(row) + 1
  BY <1>2, <1>3, <1>4 DEF InodeSet
<1>7. n.rootDirBlock[1] = Entry(0, Dot) /\ n.rootDirBlock[2] = Entry(0, DotDot)
  <2>1. 1 \in 1 .. Len(row) /\ 2 \in 1 .. Len(row)
    BY <1>1, <1>3
  <2> QED
    BY <1>2, <1>3, <1>5, <2>1
<1>8. ASSUME NEW j \in 1 .. count PROVE n.rootDirBlock[j + 2] = Entry(j, more[j].name)
  <2>1. CASE j = count
    <3>1. j + 2 = Len(row) + 1
      BY <1>1, <1>3, <2>1
    <3> QED
      BY <1>1, <1>2, <1>5, <2>1, <3>1 DEF e
  <2>2. CASE j # count
    <3>1. j \in 1 .. count - 1 /\ j + 2 \in 1 .. Len(row)
      BY <1>1, <1>3, <2>2
    <3>2. n.rootDirBlock[j + 2] = row[j + 2] /\ row[j + 2] = Entry(j, files[j].name)
      BY <1>2, <1>3, <1>5, <3>1
    <3> QED
      BY <1>1, <3>1, <3>2
  <2> QED
    BY <2>1, <2>2
<1>9. ASSUME NEW j \in 1 .. count
      PROVE  /\ n.inodes[j + 1].type = (IF more[j].dir THEN DIR ELSE FILE)
             /\ n.inodes[j + 1].size = (IF more[j].dir THEN 2 ELSE more[j].size)
  <2>1. CASE j = count
    BY <1>1, <1>2, <2>1
  <2>2. CASE j # count
    <3>1. j \in 1 .. count - 1 /\ j + 1 \in 2 .. count
      BY <1>1, <2>2
    <3>2. n.inodes[j + 1] = b.inodes[j + 1] /\ more[j] = files[j]
      BY <1>1, <1>2, <3>1
    <3> QED
      BY <1>3, <3>1, <3>2
  <2> QED
    BY <2>1, <2>2
<1>10. /\ Len(n.rootDirBlock) = Len(n.inodes) + 1 /\ Len(n.rootDirBlock) <= UnitsPerBlock
       /\ Len(n.rootDirBlock) = Len(row) + 1
  BY <1>1, <1>2, <1>3, <1>5
<1>11. Rooted(n, more)
  BY <1>1, <1>6, <1>7, <1>8, <1>10 DEF Rooted
<1>12. Described(n, more)
  BY <1>1, <1>9 DEF Described
<1> QED
  BY <1>11, <1>12 DEF more

\* One file or directory more.
LEMMA GrowsFormatted ==
  ASSUME NEW b, NEW n, NEW f, NEW files, Counted(b), Counted(n), Added(f),
         files \in Seq(SourceFiles \cup Programs), Formatted(b, files), Grows(b, n, f)
  PROVE  Formatted(n, Append(files, f))
<1>1. /\ DOMAIN n.disk = DiskParts /\ Len(Append(files, f)) = Len(n.inodes) - 1
      /\ n.nextFreeBlock > FirstData
  <2>1. /\ b.nextFreeBlock \in Nat /\ Blocks(f) \in Nat /\ FirstData \in Nat
        /\ b.nextFreeBlock > FirstData /\ Len(b.inodes) \in Nat
        /\ Len(Append(files, f)) = Len(b.inodes)
    BY Grown1
  <2> QED
    BY <2>1 DEF Grows, Formatted
<1>2. n.bitmap = 0 .. n.nextFreeBlock - 1
  <2>1. /\ n.bitmap = b.bitmap \cup (b.nextFreeBlock .. b.nextFreeBlock + Blocks(f) - 1)
        /\ b.bitmap = 0 .. b.nextFreeBlock - 1
        /\ n.nextFreeBlock = b.nextFreeBlock + Blocks(f)
    BY DEF Grows, Formatted
  <2>2. b.nextFreeBlock \in Nat /\ Blocks(f) \in Nat
    BY Grown1
  <2> QED
    BY <2>1, <2>2
<1> QED
  BY <1>1, <1>2, GrowsApart, GrowsData, GrowsPoints, GrowsEntries DEF Formatted

LEMMA RootFormatted ==
  Formatted(MakeRoot, <<>>)
<1> DEFINE b == MakeRoot
<1>1. /\ FirstData \in Nat /\ UnitsPerBlock \in Nat \ {0, 1, 2} /\ MaxDirect \in Nat \ {0}
      /\ TotalBlocks \in Nat /\ FirstData < TotalBlocks
  BY MkfsAssumption
<1>2. /\ b.nextFreeBlock = FirstData + 1 /\ b.inodes = <<RootInode>> /\ b.disk = EmptyDisk
      /\ b.rootDirBlock = <<Entry(0, Dot), Entry(0, DotDot)>>
      /\ b.bitmap = (0 .. FirstData - 1) \cup (FirstData .. FirstData + 1 - 1)
  BY MakeRootIs
<1>3. /\ RootInode.type = DIR /\ RootInode.size = 2
      /\ \A k \in Places : RootInode.direct[k] = IF k = 0 THEN FirstData ELSE 0
  <2>1. RootInode.direct = [k \in Places |-> IF k < 1 THEN FirstData + k ELSE 0]
    BY DEF RootInode, Pointers, NoPointers, Places, New
  <2>2. \A k \in Places : (IF k < 1 THEN FirstData + k ELSE 0) = IF k = 0 THEN FirstData ELSE 0
    BY <1>1 DEF Places
  <2> QED
    BY <2>1, <2>2 DEF RootInode
<1> HIDE DEF b
<1>4. DOMAIN b.inodes = {1} /\ b.inodes[1] = RootInode /\ Len(b.inodes) = 1
  BY <1>2
<1>5. b.bitmap = 0 .. b.nextFreeBlock - 1
  BY <1>1, <1>2
<1>6. Rooted(b, <<>>) /\ Described(b, <<>>)
  BY <1>1, <1>2, <1>3, <1>4 DEF Rooted, Described
<1>7. Apart(b)
  BY <1>1, <1>3, <1>4 DEF Apart, Places
<1>8. Covering(b)
  <2>1. ASSUME NEW x \in FirstData .. b.nextFreeBlock - 1
        PROVE  b.inodes[1].direct[0] = x
    <3>1. 0 \in Places /\ x = FirstData
      BY <1>1, <1>2 DEF Places
    <3> QED
      BY <1>3, <1>4, <3>1
  <2>2. 0 \in Places
    BY <1>1 DEF Places
  <2> QED
    BY <1>4, <2>1, <2>2 DEF Covering
<1>9. \A i \in DOMAIN b.inodes, k \in Places : PointsTo(b, <<>>, i, k)
  BY <1>3, <1>4 DEF PointsTo
<1>10. /\ b.disk.data = [x \in Disk |-> [s \in Slots |-> Zero]]
       /\ DOMAIN b.disk = DiskParts
  BY <1>2 DEF EmptyDisk, Disk, Slots, DiskParts
<1>11. b.disk.data \in [Disk -> [Slots -> DiskUnits]]
  BY <1>10 DEF DiskUnits
<1>12. b.nextFreeBlock > FirstData /\ Len(<<>>) = Len(b.inodes) - 1
  BY <1>1, <1>2, <1>4
<1>13. Formatted(b, <<>>)
  BY <1>5, <1>6, <1>7, <1>8, <1>9, <1>10, <1>11, <1>12 DEF Formatted
<1> QED
  BY <1>13 DEF b

\* What the builder has, and what it made the image of.
Filled ==
  /\ stage = "files" => Formatted(d, added)
  /\ stage = "image" => \E b : Counted(b) /\ Formatted(b, added) /\ d = Close(b)

LEMMA AddedIs ==
  ASSUME NEW f \in SourceFiles \cup Programs
  PROVE  Added(f)
<1>1. CASE f \in SourceFiles
  <2>1. PICK s \in Scenarios : f \in s.files
    BY <1>1 DEF SourceFiles
  <2>2. f \in UNION {t.files : t \in Scenarios}
    BY <2>1
  <2> QED
    BY <2>1, <2>2, BuildAssumption DEF Added, Names, Contents
<1>2. CASE f \in Programs
  BY <1>2 DEF Added, Names, Contents, Programs
<1> QED
  BY <1>1, <1>2

LEMMA NextFilled == Built /\ Built' /\ Filled /\ [Next]_vars => Filled'
<1> SUFFICES ASSUME Built, Built', Filled, [Next]_vars PROVE Filled'
  OBVIOUS
<1>1. CASE UNCHANGED vars
  <2>1. UNCHANGED <<stage, d, added>>
    BY <1>1 DEF vars
  <2> QED
    BY <2>1 DEF Filled
<1>2. CASE stage' \notin {"files", "image"}
  BY <1>2 DEF Filled
<1>3. ASSUME NEW l \in scenario.source, Line(l) PROVE Filled'
  BY <1>2, <1>3 DEF Line
<1>4. CASE Pass2
  BY <1>2, <1>4 DEF Pass2
<1>5. CASE Load
  BY <1>2, <1>5 DEF Load
<1>6. CASE Format
  <2>1. /\ stage = "loaded" /\ d' = AddFile(MakeRoot, Program) /\ added' = Append(added, Program)
        /\ stage' = IF d'.failed THEN "thrown" ELSE "files"
    BY <1>6 DEF Format, Grown
  <2>2. CASE d'.failed
    BY <1>2, <2>1, <2>2
  <2>3. CASE ~d'.failed
    <3>1. Counted(d') /\ stage' = "files"
      BY <2>1, <2>3 DEF Built
    <3>2. Program \in SourceFiles \cup Programs /\ Program.size \in Nat /\ ~Program.dir
      BY <2>1, ProgramIs DEF Program
    <3>3. added = <<>> /\ <<>> \in Seq(SourceFiles \cup Programs)
      BY <2>1 DEF Built
    <3>4. DOMAIN MakeRoot.disk = DiskParts
      BY RootFormatted DEF Formatted
    <3>5. Grows(MakeRoot, d', Program)
      BY <2>1, <2>3, <3>2, <3>4, MakeRootCounts, FileGrows
    <3>6. Formatted(d', Append(<<>>, Program))
      BY <3>1, <3>2, <3>3, <3>5, MakeRootCounts, RootFormatted, AddedIs, GrowsFormatted
    <3> QED
      BY <2>1, <3>1, <3>3, <3>6 DEF Filled
  <2> QED
    BY <2>2, <2>3
<1>7. ASSUME NEW f \in scenario.files, Add(f) PROVE Filled'
  <2>1. /\ stage = "files"
        /\ d' = (IF f.dir THEN AddDir(d, f.name) ELSE AddFile(d, f))
        /\ added' = Append(added, f)
        /\ stage' = IF d'.failed THEN "thrown" ELSE "files"
    BY <1>7 DEF Add, Grown
  <2>2. CASE d'.failed
    BY <1>2, <2>1, <2>2
  <2>3. CASE ~d'.failed
    <3>1. Counted(d') /\ stage' = "files"
      BY <2>1, <2>3 DEF Built
    <3>2. Counted(d) /\ added \in Seq(SourceFiles \cup Programs) /\ Formatted(d, added)
      BY <2>1 DEF Built, Filled
    <3>3. f \in SourceFiles /\ f.size \in Nat
      BY ScenarioIs DEF Built
    <3>4. DOMAIN d.disk = DiskParts /\ d.disk.data \in [Disk -> [Slots -> DiskUnits]]
      BY <3>2 DEF Formatted
    <3>5. Grows(d, d', f)
      BY <2>1, <2>3, <3>2, <3>3, <3>4, FileGrows, DirGrows
    <3>6. Formatted(d', Append(added, f))
      BY <3>1, <3>2, <3>3, <3>5, AddedIs, GrowsFormatted
    <3> QED
      BY <2>1, <3>1, <3>6 DEF Filled
  <2> QED
    BY <2>2, <2>3
<1>8. CASE Finish
  <2>1. stage = "files" /\ stage' = "image" /\ d' = Close(d) /\ added' = added
    BY <1>8 DEF Finish
  <2>2. Counted(d) /\ Formatted(d, added)
    BY <2>1 DEF Built, Filled
  <2> QED
    BY <2>1, <2>2 DEF Filled
<1> QED
  BY <1>1, <1>3, <1>4, <1>5, <1>6, <1>7, <1>8 DEF Next

LEMMA FilledInvariant == Spec => []Filled
<1>1. Init => Filled
  BY DEF Init, Filled
<1> QED
  BY <1>1, NextFilled, Invariance, PTL DEF Spec

-----------------------------------------------------------------------------
(* The image as the kernel finds it.                                         *)

Used(b) == b.nextFreeBlock - FirstData
DiskBlocks == [x \in 1 .. TotalBlocks - FirstData |-> Image.data[x + FirstData - 1]]
Fits == \A j \in DOMAIN added : added[j].size <= MaxDirect * UnitsPerBlock

LEMMA CloseIs ==
  ASSUME NEW b, Counted(b), NEW files, Formatted(b, files)
  PROVE  /\ Close(b).disk.table = b.inodes /\ Close(b).disk.bitmap = b.bitmap
         /\ Close(b).disk.superblock.free = TotalBlocks - b.nextFreeBlock
         /\ Close(b).disk.data = [b.disk.data EXCEPT ![FirstData] = Padded(b.rootDirBlock)]
<1> DEFINE data == [b.disk.data EXCEPT ![b.inodes[1].direct[0]] = Padded(b.rootDirBlock)]
           superblock == [blocks |-> TotalBlocks, inodes |-> NInodes,
                          free |-> TotalBlocks - b.nextFreeBlock, first |-> FirstData]
           disk == [b.disk EXCEPT !.data = data, !.superblock = superblock,
                                  !.bitmap = b.bitmap, !.table = b.inodes]
<1>1. Close(b) = [b EXCEPT !.disk = disk]
  BY DEF Close, Counted
<1>2. b.inodes[1].direct[0] = FirstData
  <2>1. 1 \in DOMAIN b.inodes /\ 0 \in Places
    BY MkfsAssumption DEF Counted, Places
  <2> QED
    BY <2>1 DEF Formatted, PointsTo
<1>3. DOMAIN b.disk = DiskParts /\ "disk" \in DOMAIN b
  BY DEF Formatted, Counted
<1>4. superblock.free = TotalBlocks - b.nextFreeBlock
  OBVIOUS
<1>5. data = [b.disk.data EXCEPT ![FirstData] = Padded(b.rootDirBlock)]
  BY <1>2
<1> HIDE DEF data, superblock
<1>6. /\ disk.data = data /\ disk.superblock = superblock
      /\ disk.bitmap = b.bitmap /\ disk.table = b.inodes
  BY <1>3 DEF DiskParts
<1> HIDE DEF disk
<1>7. Close(b).disk = disk
  BY <1>1, <1>3
<1> QED
  BY <1>4, <1>5, <1>6, <1>7

\* The numbers the rest is about.
LEMMA NumbersAre ==
  ASSUME NEW b, Counted(b), Formatted(b, added), added \in Seq(SourceFiles \cup Programs)
  PROVE  /\ FirstData \in Nat \ {0} /\ TotalBlocks \in Nat /\ TotalBlocks - FirstData \in Nat
         /\ Used(b) \in 1 .. TotalBlocks - FirstData
         /\ b.nextFreeBlock = Used(b) + FirstData
         /\ NInodes \in Nat \ {0} /\ Len(b.inodes) \in 1 .. NInodes
         /\ MaxDirect \in Nat \ {0} /\ UnitsPerBlock \in Nat /\ UnitsPerBlock > 2
         /\ DOMAIN b.inodes = 1 .. Len(b.inodes) /\ DOMAIN added = 1 .. Len(b.inodes) - 1
         /\ Len(b.inodes) + 1 <= UnitsPerBlock
         /\ \A j \in DOMAIN added : Added(added[j])
<1>1. /\ FirstData \in Nat \ {0} /\ TotalBlocks \in Nat /\ TotalBlocks > FirstData
      /\ NInodes \in Nat \ {0} /\ Len(b.inodes) \in 1 .. NInodes
      /\ MaxDirect \in Nat \ {0} /\ UnitsPerBlock \in Nat /\ UnitsPerBlock > 2
      /\ b.nextFreeBlock \in FirstData .. TotalBlocks /\ DOMAIN b.inodes = 1 .. Len(b.inodes)
  BY MkfsAssumption DEF Counted
<1>2. b.nextFreeBlock > FirstData /\ Len(added) = Len(b.inodes) - 1
      /\ Len(b.inodes) + 1 <= UnitsPerBlock
  BY DEF Formatted, Rooted
<1>3. DOMAIN added = 1 .. Len(added) /\ \A j \in DOMAIN added : added[j] \in SourceFiles \cup Programs
  OBVIOUS
<1>4. \A j \in DOMAIN added : Added(added[j])
  BY <1>3, AddedIs
<1>5. /\ Used(b) \in 1 .. TotalBlocks - FirstData /\ b.nextFreeBlock = Used(b) + FirstData
      /\ TotalBlocks - FirstData \in Nat
  BY <1>1, <1>2 DEF Used
<1>6. DOMAIN added = 1 .. Len(b.inodes) - 1
  BY <1>2, <1>3
<1> QED
  BY <1>1, <1>2, <1>4, <1>5, <1>6

\* The inode table.
LEMMA TableIsInodes ==
  ASSUME stage = "image", NEW b, Counted(b), Formatted(b, added), d = Close(b),
         added \in Seq(SourceFiles \cup Programs), NEW i \in 0 .. NInodes - 1
  PROVE  /\ i >= Len(b.inodes) => Inodes[i] = [type |-> 0, size |-> 0, direct |-> NoPointers]
         /\ i < Len(b.inodes) => /\ Inodes[i].type = b.inodes[i + 1].type
                                 /\ Inodes[i].size = b.inodes[i + 1].size
                                 /\ Inodes[i].direct =
                                      [k \in Places |-> Mounted(b.inodes[i + 1].direct[k])]
                                 /\ DOMAIN Inodes[i] = {"type", "size", "direct"}
                                 /\ Inodes[i] = [type |-> Inodes[i].type, size |-> Inodes[i].size,
                                                 direct |-> Inodes[i].direct]
<1>1. Image.table = b.inodes
  BY CloseIs DEF Image
<1>2. DOMAIN NoPointers = Places
  BY DEF NoPointers, Places
<1>3. Inodes[i] = IF i < Len(b.inodes)
                  THEN [type |-> b.inodes[i + 1].type, size |-> b.inodes[i + 1].size,
                        direct |-> [k \in Places |-> Mounted(b.inodes[i + 1].direct[k])]]
                  ELSE [type |-> 0, size |-> 0, direct |-> NoPointers]
  BY <1>1, <1>2 DEF Inodes
<1>4. Len(b.inodes) \in Nat /\ i \in Nat
  BY NumbersAre
<1> QED
  BY <1>3, <1>4

\* Pointers after mounting: none, or a block in use.
LEMMA MountedIs ==
  ASSUME stage = "image", NEW b, Counted(b), Formatted(b, added), d = Close(b),
         added \in Seq(SourceFiles \cup Programs), NEW i \in 0 .. Len(b.inodes) - 1, NEW k \in Places
  PROVE  /\ Inodes[i].direct[k] = Mounted(b.inodes[i + 1].direct[k])
         /\ b.inodes[i + 1].direct[k] = 0 => Inodes[i].direct[k] = 0
         /\ b.inodes[i + 1].direct[k] # 0 =>
              /\ b.inodes[i + 1].direct[k] \in FirstData .. b.nextFreeBlock - 1
              /\ Inodes[i].direct[k] = b.inodes[i + 1].direct[k] - (FirstData - 1)
              /\ Inodes[i].direct[k] \in 1 .. Used(b)
         /\ i = 0 => Inodes[i].direct[k] = IF k = 0 THEN 1 ELSE 0
         /\ i # 0 => IF k < Blocks(added[i])
                     THEN /\ Inodes[i].direct[k] \in 2 .. Used(b)
                          /\ \A s \in Slots : DiskBlocks[Inodes[i].direct[k]][s]
                                                = Content(added[i], i, k, s)
                     ELSE Inodes[i].direct[k] = 0
<1> DEFINE p == b.inodes[i + 1].direct[k]
           m == Inodes[i].direct[k]
<1>1. /\ FirstData \in Nat \ {0} /\ TotalBlocks \in Nat /\ Used(b) \in 1 .. TotalBlocks - FirstData
      /\ b.nextFreeBlock = Used(b) + FirstData /\ Len(b.inodes) \in 1 .. NInodes /\ NInodes \in Nat
      /\ DOMAIN b.inodes = 1 .. Len(b.inodes)
  BY NumbersAre
<1>2. i + 1 \in DOMAIN b.inodes /\ i \in 0 .. NInodes - 1 /\ i < Len(b.inodes) /\ i + 1 - 1 = i
      /\ i \in Nat /\ (i + 1 = 1 <=> i = 0)
  BY <1>1
<1>3. PointsTo(b, added, i + 1, k)
  BY <1>2 DEF Formatted
<1>4. m = Mounted(p)
  <2>1. Inodes[i].direct = [l \in Places |-> Mounted(b.inodes[i + 1].direct[l])]
    BY <1>2, TableIsInodes
  <2> QED
    BY <2>1
<1>5. m = IF p = 0 THEN 0 ELSE p - (FirstData - 1)
  BY <1>4 DEF Mounted
<1>6. /\ i = 0 => p = (IF k = 0 THEN FirstData ELSE 0)
      /\ i # 0 => IF k < Blocks(added[i])
                  THEN /\ p \in FirstData + 1 .. b.nextFreeBlock - 1
                       /\ \A s \in Slots : b.disk.data[p][s] = Content(added[i], i, k, s)
                  ELSE p = 0
  <2>1. i = 0 => p = (IF k = 0 THEN FirstData ELSE 0)
    BY <1>2, <1>3 DEF PointsTo
  <2>2. ASSUME i # 0
        PROVE  IF k < Blocks(added[i])
               THEN /\ p \in FirstData + 1 .. b.nextFreeBlock - 1
                    /\ \A s \in Slots : b.disk.data[p][s] = Content(added[i], i, k, s)
               ELSE p = 0
    <3>1. i + 1 # 1 /\ i + 1 - 1 = i
      BY <1>2, <2>2
    <3> QED
      BY <1>3, <2>2, <3>1, SMTT(30) DEF PointsTo
  <2> QED
    BY <2>1, <2>2
<1> HIDE DEF p, m
<1>7. p # 0 => p \in FirstData .. b.nextFreeBlock - 1 /\ m \in 1 .. Used(b)
  BY <1>1, <1>5, <1>6
<1>8. i = 0 => m = IF k = 0 THEN 1 ELSE 0
  BY <1>1, <1>5, <1>6
<1>9. ASSUME i # 0, k < Blocks(added[i])
      PROVE  /\ m \in 2 .. Used(b)
             /\ \A s \in Slots : DiskBlocks[m][s] = Content(added[i], i, k, s)
  <2>1. p \in FirstData + 1 .. b.nextFreeBlock - 1 /\ m = p - (FirstData - 1)
    BY <1>1, <1>5, <1>6, <1>9
  <2>2. /\ m \in 2 .. Used(b) /\ m \in 1 .. TotalBlocks - FirstData /\ m + FirstData - 1 = p
        /\ p # FirstData /\ p \in Disk
    <3> DEFINE used == Used(b)
               next == b.nextFreeBlock
    <3>1. /\ p \in FirstData + 1 .. next - 1 /\ m = p - (FirstData - 1)
          /\ used \in 1 .. TotalBlocks - FirstData /\ next = used + FirstData
          /\ FirstData \in Nat /\ TotalBlocks \in Nat
      BY <1>1, <2>1
    <3> HIDE DEF used, next
    <3>2. p \in Int /\ used \in Int /\ used <= TotalBlocks - FirstData
          /\ FirstData + 1 <= p /\ p <= used + FirstData - 1
      BY <3>1
    <3>3. m + FirstData - 1 = p /\ m >= 2 /\ m <= used /\ m \in Int
      BY <3>1, <3>2
    <3>4. m \in 2 .. used /\ m \in 1 .. TotalBlocks - FirstData
      BY <3>1, <3>2, <3>3
    <3>5. p # FirstData /\ p \in FirstData .. TotalBlocks - 1
      BY <3>1, <3>2
    <3> QED
      BY <3>3, <3>4, <3>5 DEF Disk, used
  <2>3. DiskBlocks[m] = Image.data[p]
    BY <2>2 DEF DiskBlocks
  <2>4. Image.data[p] = b.disk.data[p]
    <3>1. Image.data = [b.disk.data EXCEPT ![FirstData] = Padded(b.rootDirBlock)]
      BY CloseIs DEF Image
    <3>2. DOMAIN b.disk.data = Disk
      BY DEF Formatted
    <3> QED
      BY <2>2, <3>1, <3>2
  <2> QED
    BY <1>6, <1>9, <2>2, <2>3, <2>4
<1>10. i # 0 /\ ~(k < Blocks(added[i])) => m = 0
  BY <1>5, <1>6
<1> QED
  BY <1>4, <1>5, <1>7, <1>8, <1>9, <1>10 DEF p, m

\* The root's block.
LEMMA RootBlock ==
  ASSUME stage = "image", NEW b, Counted(b), Formatted(b, added), d = Close(b),
         added \in Seq(SourceFiles \cup Programs), NEW x \in 0 .. Len(b.inodes)
  PROVE  /\ DiskBlocks[1][x] = b.rootDirBlock[x + 1]
         /\ x = 0 => DiskBlocks[1][x] = Entry(0, Dot)
         /\ x = 1 => DiskBlocks[1][x] = Entry(0, DotDot)
         /\ x >= 2 => DiskBlocks[1][x] = Entry(x - 1, added[x - 1].name)
<1>1. /\ FirstData \in Nat \ {0} /\ TotalBlocks \in Nat /\ 1 \in 1 .. TotalBlocks - FirstData
      /\ Len(b.inodes) \in 1 .. NInodes /\ NInodes \in Nat /\ Len(b.inodes) + 1 <= UnitsPerBlock
      /\ UnitsPerBlock \in Nat /\ FirstData \in Disk
      /\ DOMAIN added = 1 .. Len(b.inodes) - 1
  BY NumbersAre, SMTT(30) DEF Disk
<1>2. DiskBlocks[1] = Padded(b.rootDirBlock)
  <2>1. 1 + FirstData - 1 = FirstData
    BY <1>1
  <2>2. DiskBlocks[1] = Image.data[FirstData]
    BY <1>1, <2>1 DEF DiskBlocks
  <2>3. Image.data = [b.disk.data EXCEPT ![FirstData] = Padded(b.rootDirBlock)]
    BY CloseIs DEF Image
  <2>4. DOMAIN b.disk.data = Disk
    BY DEF Formatted
  <2> QED
    BY <1>1, <2>2, <2>3, <2>4
<1>3. /\ Len(b.rootDirBlock) = Len(b.inodes) + 1
      /\ b.rootDirBlock[1] = Entry(0, Dot) /\ b.rootDirBlock[2] = Entry(0, DotDot)
      /\ \A j \in DOMAIN added : b.rootDirBlock[j + 2] = Entry(j, added[j].name)
  BY DEF Formatted, Rooted
<1>4. x \in 0 .. UnitsPerBlock - 1 /\ x < Len(b.rootDirBlock)
  <2> DEFINE count == Len(b.inodes)
             last == Len(b.rootDirBlock)
  <2>1. /\ count \in Nat /\ count + 1 <= UnitsPerBlock /\ UnitsPerBlock \in Nat
        /\ last = count + 1 /\ x \in 0 .. count
    BY <1>1, <1>3
  <2> HIDE DEF count, last
  <2>2. x \in 0 .. UnitsPerBlock - 1 /\ x < last
    BY <2>1
  <2> QED
    BY <2>2 DEF last
<1>5. DiskBlocks[1][x] = b.rootDirBlock[x + 1]
  BY <1>2, <1>4 DEF Padded
<1>6. ASSUME x >= 2 PROVE b.rootDirBlock[x + 1] = Entry(x - 1, added[x - 1].name)
  <2>1. x - 1 \in DOMAIN added /\ (x - 1) + 2 = x + 1
    BY <1>1, <1>6
  <2> QED
    BY <1>3, <2>1
<1> QED
  BY <1>3, <1>5, <1>6

\* The image is finished, and made of what b had.
Finished(b) ==
  /\ stage = "image" /\ Counted(b) /\ Formatted(b, added) /\ d = Close(b)
  /\ added \in Seq(SourceFiles \cup Programs)

LEMMA Shapes ==
  /\ F!Inode = 0 .. NInodes - 1 /\ F!Direct = Places /\ F!Slot = Slots /\ F!Root = 0
  /\ F!Block = 1 .. TotalBlocks - FirstData /\ F!MaxSize = MaxDirect * UnitsPerBlock
  /\ F!FREE = 0 /\ F!FILE = 1 /\ F!DIR = 2 /\ FILE = 1 /\ DIR = 2
  /\ F!Entry = DiskEntries
BY DEF F!Inode, F!Direct, F!Slot, F!Block, F!MaxSize, F!FREE, F!FILE, F!DIR, FILE, DIR, F!Root,
       F!Entry, DiskEntries, Places, Slots

LEMMA EntryIs ==
  ASSUME NEW i, NEW x
  PROVE  /\ F!BlockAt(Inodes[i], x) = Inodes[i].direct[x \div UnitsPerBlock]
         /\ F!EntryAt(i, x) = DiskBlocks[Inodes[i].direct[x \div UnitsPerBlock]][x % UnitsPerBlock]
BY DEF F!EntryAt, F!BlockAt, F!Index, F!Within, DiskBlocks

LEMMA SmallPlace ==
  ASSUME NEW x \in Nat, UnitsPerBlock \in Nat, x < UnitsPerBlock
  PROVE  x \div UnitsPerBlock = 0 /\ x % UnitsPerBlock = x
BY SMT

LEMMA InodesAre ==
  ASSUME NEW b, Finished(b), NEW i \in 0 .. NInodes - 1
  PROVE  /\ i >= Len(b.inodes) => Inodes[i].type = 0 /\ Inodes[i].size = 0
         /\ i = 0 => Inodes[i].type = DIR /\ Inodes[i].size = Len(b.inodes) + 1
         /\ i # 0 /\ i < Len(b.inodes) =>
              /\ i \in DOMAIN added
              /\ Inodes[i].type = (IF added[i].dir THEN DIR ELSE FILE)
              /\ Inodes[i].size = (IF added[i].dir THEN 2 ELSE added[i].size)
<1> USE DEF Finished
<1>1. /\ Len(b.inodes) \in 1 .. NInodes /\ NInodes \in Nat
      /\ DOMAIN added = 1 .. Len(b.inodes) - 1
  BY NumbersAre
<1>2. /\ b.inodes[1].type = DIR /\ b.inodes[1].size = Len(b.inodes) + 1
      /\ \A j \in DOMAIN added :
           /\ b.inodes[j + 1].type = (IF added[j].dir THEN DIR ELSE FILE)
           /\ b.inodes[j + 1].size = (IF added[j].dir THEN 2 ELSE added[j].size)
  BY DEF Formatted, Rooted, Described
<1>3. CASE i >= Len(b.inodes)
  <2>1. Inodes[i] = [type |-> 0, size |-> 0, direct |-> NoPointers]
    BY <1>3, TableIsInodes
  <2>2. i # 0 /\ ~(i < Len(b.inodes))
    BY <1>1, <1>3
  <2> QED
    BY <2>1, <2>2
<1>4. CASE i < Len(b.inodes)
  <2>1. Inodes[i].type = b.inodes[i + 1].type /\ Inodes[i].size = b.inodes[i + 1].size
    BY <1>4, TableIsInodes
  <2>2. i # 0 => i \in DOMAIN added
    BY <1>1, <1>4
  <2>3. ~(i >= Len(b.inodes)) /\ (i = 0 => i + 1 = 1)
    BY <1>1, <1>4
  <2> QED
    BY <1>2, <2>1, <2>2, <2>3
<1> QED
  BY <1>1, <1>3, <1>4

LEMMA LiveIs ==
  ASSUME NEW b, Finished(b)
  PROVE  /\ F!Live = 0 .. Len(b.inodes) - 1
         /\ F!Directories = {i \in 0 .. Len(b.inodes) - 1 : i # 0 => added[i].dir}
<1>1. Len(b.inodes) \in 1 .. NInodes /\ NInodes \in Nat
  BY NumbersAre DEF Finished
<1>2. ASSUME NEW i \in 0 .. NInodes - 1
      PROVE  /\ Inodes[i].type # 0 <=> i \in 0 .. Len(b.inodes) - 1
             /\ i < Len(b.inodes) => (Inodes[i].type = 2 <=> (i # 0 => added[i].dir))
  <2>1. /\ i >= Len(b.inodes) => Inodes[i].type = 0
        /\ i = 0 => Inodes[i].type = DIR
        /\ i # 0 /\ i < Len(b.inodes) => Inodes[i].type = (IF added[i].dir THEN DIR ELSE FILE)
    BY InodesAre
  <2>2. i \in 0 .. Len(b.inodes) - 1 <=> i < Len(b.inodes)
    BY <1>1
  <2>3. i >= Len(b.inodes) <=> ~(i < Len(b.inodes))
    BY <1>1
  <2> QED
    BY <2>1, <2>2, <2>3, Shapes
<1>3. F!Live = {i \in 0 .. NInodes - 1 : Inodes[i].type # 0}
  BY Shapes DEF F!Live
<1>4. F!Live = 0 .. Len(b.inodes) - 1
  <2>1. 0 .. Len(b.inodes) - 1 \subseteq 0 .. NInodes - 1
    BY <1>1
  <2> QED
    BY <1>2, <1>3, <2>1
<1>5. F!Directories = {i \in F!Live : Inodes[i].type = 2}
  BY Shapes DEF F!Directories
<1>6. \A i \in 0 .. Len(b.inodes) - 1 : Inodes[i].type = 2 <=> (i # 0 => added[i].dir)
  BY <1>1, <1>2
<1> QED
  BY <1>4, <1>5, <1>6

\* The entries of the root.
LEMMA RootPlaces ==
  ASSUME NEW b, Finished(b), NEW x \in 0 .. Len(b.inodes)
  PROVE  /\ F!BlockAt(Inodes[0], x) = 1
         /\ x = 0 => F!EntryAt(0, x) = Entry(0, Dot)
         /\ x = 1 => F!EntryAt(0, x) = Entry(0, DotDot)
         /\ x >= 2 => F!EntryAt(0, x) = Entry(x - 1, added[x - 1].name)
<1> USE DEF Finished
<1>1. /\ x \in Nat /\ UnitsPerBlock \in Nat /\ x < UnitsPerBlock /\ 0 \in Places
      /\ 0 \in 0 .. Len(b.inodes) - 1
  <2>0. /\ FirstData \in Nat \ {0} /\ TotalBlocks \in Nat /\ Used(b) \in 1 .. TotalBlocks - FirstData
        /\ Len(b.inodes) \in 1 .. NInodes /\ NInodes \in Nat /\ Len(b.inodes) + 1 <= UnitsPerBlock
        /\ MaxDirect \in Nat \ {0} /\ UnitsPerBlock \in Nat /\ UnitsPerBlock > 2
        /\ DOMAIN added = 1 .. Len(b.inodes) - 1
    BY NumbersAre
  <2> QED
    BY <2>0 DEF Places
<1>2. x \div UnitsPerBlock = 0 /\ x % UnitsPerBlock = x
  BY <1>1, SmallPlace
<1>3. Inodes[0].direct[0] = 1
  BY <1>1, MountedIs
<1>4. F!BlockAt(Inodes[0], x) = 1 /\ F!EntryAt(0, x) = DiskBlocks[1][x]
  BY <1>2, <1>3, EntryIs
<1> QED
  BY <1>4, RootBlock

\* The dots of another directory.
LEMMA DirPlaces ==
  ASSUME NEW b, Finished(b), NEW i \in 1 .. Len(b.inodes) - 1, added[i].dir, NEW x \in {0, 1}
  PROVE  /\ F!BlockAt(Inodes[i], x) \in F!Block
         /\ x = 0 => F!EntryAt(i, x) = Entry(i, Dot)
         /\ x = 1 => F!EntryAt(i, x) = Entry(0, DotDot)
<1> USE DEF Finished
<1>1. /\ UnitsPerBlock \in Nat /\ UnitsPerBlock > 2 /\ 0 \in Places /\ x \in Slots
      /\ i \in 0 .. Len(b.inodes) - 1 /\ i # 0 /\ 0 < Blocks(added[i]) /\ x < UnitsPerBlock /\ x \in Nat
      /\ 2 .. Used(b) \subseteq F!Block
  <2>0. /\ FirstData \in Nat \ {0} /\ TotalBlocks \in Nat /\ Used(b) \in 1 .. TotalBlocks - FirstData
        /\ Len(b.inodes) \in 1 .. NInodes /\ NInodes \in Nat /\ Len(b.inodes) + 1 <= UnitsPerBlock
        /\ MaxDirect \in Nat \ {0} /\ UnitsPerBlock \in Nat /\ UnitsPerBlock > 2
        /\ DOMAIN added = 1 .. Len(b.inodes) - 1
    BY NumbersAre
  <2>1. 2 .. Used(b) \subseteq F!Block
    BY <2>0, Shapes
  <2>2. 0 < Blocks(added[i])
    BY DEF Blocks
  <2> QED
    BY <2>0, <2>1, <2>2 DEF Places, Slots
<1>2. x \div UnitsPerBlock = 0 /\ x % UnitsPerBlock = x
  BY <1>1, SmallPlace
<1>3. Inodes[i].direct[0] \in 2 .. Used(b) /\ DiskBlocks[Inodes[i].direct[0]][x] = Content(added[i], i, 0, x)
  BY <1>1, MountedIs
<1>4. /\ F!BlockAt(Inodes[i], x) = Inodes[i].direct[0]
      /\ F!EntryAt(i, x) = Content(added[i], i, 0, x)
  BY <1>2, <1>3, EntryIs
<1> QED
  BY <1>1, <1>3, <1>4 DEF Content

\* Unit x of a file within its pointers is in block x \div UnitsPerBlock.
LEMMA PlaceInBlocks ==
  ASSUME NEW size \in Nat, NEW x \in 0 .. size - 1, size <= MaxDirect * UnitsPerBlock
  PROVE  /\ x \div UnitsPerBlock \in Places /\ x % UnitsPerBlock \in Slots
         /\ x \div UnitsPerBlock < BlocksFor(size)
         /\ (x \div UnitsPerBlock) * UnitsPerBlock + (x % UnitsPerBlock) = x
<1> DEFINE u == UnitsPerBlock
           k == x \div u
           r == x % u
           y == size + u - 1
           q == y \div u
<1>1. u \in Nat /\ u > 2 /\ MaxDirect \in Nat \ {0} /\ x \in Nat /\ x < size
  BY MkfsAssumption
<1> HIDE DEF u
<1>2. k \in Nat /\ r \in 0 .. u - 1 /\ x = u * k + r
  BY SMT, <1>1
<1>3. y \in Nat /\ y >= x + u
  BY <1>1
<1> HIDE DEF y
<1>4. q \in Nat /\ y < u * (q + 1)
  BY SMT, <1>1, <1>3
<1> HIDE DEF k, r, q
<1>5. u * (k + 1) = u * k + u /\ u * (q + 1) = u * q + u
  BY <1>1, <1>2, <1>4
<1>6. k < q
  <2> SUFFICES ASSUME q <= k PROVE FALSE
    BY <1>2, <1>4
  <2>1. u * q <= u * k
    BY <1>1, <1>2, <1>4
  <2>2. u * q \in Nat /\ u * k \in Nat
    BY <1>1, <1>2, <1>4
  <2> DEFINE uq == u * q
             uk == u * k
  <2>3. uq \in Nat /\ uk \in Nat /\ uq <= uk /\ y < uq + u /\ x = uk + r /\ r \in 0 .. u - 1
    BY <1>2, <1>4, <1>5, <2>1, <2>2
  <2> HIDE DEF uq, uk
  <2> QED
    BY <1>1, <1>3, <2>3
<1>7. k < MaxDirect
  <2> SUFFICES ASSUME MaxDirect <= k PROVE FALSE
    BY <1>1, <1>2
  <2>1. MaxDirect * u <= u * k /\ MaxDirect * u \in Nat /\ u * k \in Nat
    BY <1>1, <1>2
  <2> DEFINE um == MaxDirect * u
             uk == u * k
  <2>2. um \in Nat /\ uk \in Nat /\ um <= uk /\ x = uk + r /\ r \in 0 .. u - 1 /\ size <= um
    BY <1>2, <2>1 DEF u
  <2> HIDE DEF um, uk
  <2> QED
    BY <1>1, <2>2
<1>8. BlocksFor(size) \in {q, MaxDirect}
  <2> DEFINE m == IF q <= MaxDirect THEN q ELSE MaxDirect
  <2>1. m \in {q, MaxDirect} /\ \A z \in {q, MaxDirect} : m <= z
    BY <1>1, <1>4
  <2>2. Min({q, MaxDirect}) \in {q, MaxDirect}
    <3> HIDE DEF m
    <3> QED
      BY <2>1 DEF Min
  <2> QED
    BY <2>2 DEF BlocksFor, q, y, u
<1>9. k * u = u * k
  BY <1>1, <1>2
<1>10. k \in Places /\ r \in Slots /\ k < BlocksFor(size) /\ k * u + r = x
  BY <1>1, <1>2, <1>6, <1>7, <1>8, <1>9 DEF Places, Slots, u
<1> QED
  BY <1>10 DEF k, r, u

\* The units of a file.
LEMMA FilePlaces ==
  ASSUME NEW b, Finished(b), Fits, NEW i \in 1 .. Len(b.inodes) - 1, ~added[i].dir,
         NEW x \in 0 .. added[i].size - 1
  PROVE  /\ F!BlockAt(Inodes[i], x) \in F!Block
         /\ F!EntryAt(i, x) = Unit(added[i].contents, x)
         /\ x \in 0 .. F!MaxSize - 1
<1> USE DEF Finished
<1> DEFINE k == x \div UnitsPerBlock
           s == x % UnitsPerBlock
           f == added[i]
<1>1. /\ i \in 0 .. Len(b.inodes) - 1 /\ i # 0 /\ i \in DOMAIN added /\ f.size \in Nat
      /\ 2 .. Used(b) \subseteq F!Block /\ f.size <= MaxDirect * UnitsPerBlock
      /\ MaxDirect * UnitsPerBlock \in Nat
  <2>0. /\ FirstData \in Nat \ {0} /\ TotalBlocks \in Nat /\ Used(b) \in 1 .. TotalBlocks - FirstData
        /\ Len(b.inodes) \in 1 .. NInodes /\ NInodes \in Nat /\ Len(b.inodes) + 1 <= UnitsPerBlock
        /\ MaxDirect \in Nat \ {0} /\ UnitsPerBlock \in Nat /\ UnitsPerBlock > 2
        /\ DOMAIN added = 1 .. Len(b.inodes) - 1
    BY NumbersAre
  <2>1. /\ i \in 0 .. Len(b.inodes) - 1 /\ i # 0 /\ i \in DOMAIN added
        /\ MaxDirect \in Nat /\ UnitsPerBlock \in Nat
    BY <2>0
  <2>2. f.size \in Nat
    BY <2>1, NumbersAre DEF Added
  <2>3. 2 .. Used(b) \subseteq F!Block
    BY <2>0, Shapes
  <2> QED
    BY <2>1, <2>2, <2>3 DEF Fits
<1>2. /\ k \in Places /\ s \in Slots /\ k < Blocks(f) /\ k * UnitsPerBlock + s = x
  BY <1>1, PlaceInBlocks DEF Blocks
<1>3. x \in 0 .. F!MaxSize - 1 /\ x < f.size
  <2> DEFINE m == MaxDirect * UnitsPerBlock
  <2>1. m \in Nat /\ f.size <= m /\ f.size \in Nat /\ F!MaxSize = m
    BY <1>1, Shapes
  <2> HIDE DEF m, f
  <2>2. x \in 0 .. f.size - 1
    BY DEF f
  <2> QED
    BY <2>1, <2>2
<1> HIDE DEF k, s
<1>4. Inodes[i].direct[k] \in 2 .. Used(b) /\ DiskBlocks[Inodes[i].direct[k]][s] = Content(f, i, k, s)
  BY <1>1, <1>2, MountedIs
<1>5. F!BlockAt(Inodes[i], x) = Inodes[i].direct[k] /\ F!EntryAt(i, x) = Content(f, i, k, s)
  BY <1>4, EntryIs DEF k, s
<1>6. Content(f, i, k, s) = Unit(f.contents, x)
  BY <1>2, <1>3 DEF Content
<1> QED
  BY <1>1, <1>3, <1>4, <1>5, <1>6

\* All that is ever visited.
LEMMA VisitedIs ==
  ASSUME NEW b, Finished(b)
  PROVE  /\ F!Visited(0) = 0 .. Len(b.inodes)
         /\ \A i \in F!Directories \ {0} : F!Visited(i) = {0, 1}
         /\ F!Entries(0) = 2 .. Len(b.inodes)
         /\ \A i \in F!Directories \ {0} : F!Entries(i) = {}
<1>1. Len(b.inodes) \in Nat \ {0} /\ NInodes \in Nat /\ Len(b.inodes) <= NInodes
  <2>1. Len(b.inodes) \in 1 .. NInodes /\ NInodes \in Nat
    BY NumbersAre DEF Finished
  <2> QED
    BY <2>1
<1>2. F!Visited(0) = 0 .. Len(b.inodes)
  <2>1. Inodes[0].size = Len(b.inodes) + 1
    BY <1>1, InodesAre
  <2>2. ASSUME NEW x \in 0 .. Len(b.inodes), NEW y \in 0 .. x
        PROVE  F!BlockAt(Inodes[0], y) \in F!Block
    <3>1. y \in 0 .. Len(b.inodes)
      BY <1>1
    <3>2. F!BlockAt(Inodes[0], y) = 1
      BY <3>1, RootPlaces
    <3>3. 1 \in 1 .. TotalBlocks - FirstData
      BY MkfsAssumption
    <3> QED
      BY <3>2, <3>3, Shapes
  <2>3. Len(b.inodes) + 1 - 1 = Len(b.inodes)
    BY <1>1
  <2>4. F!Visited(0) = {x \in 0 .. Len(b.inodes) :
                          \A y \in 0 .. x : F!BlockAt(Inodes[0], y) \in F!Block}
    BY <2>1, <2>3 DEF F!Visited
  <2> QED
    BY <2>2, <2>4
<1>3. ASSUME NEW i \in F!Directories \ {0} PROVE F!Visited(i) = {0, 1}
  <2>1. i \in 1 .. Len(b.inodes) - 1 /\ added[i].dir
    BY <1>1, LiveIs
  <2>2. i \in 0 .. NInodes - 1 /\ i # 0 /\ i < Len(b.inodes)
    BY <1>1, <2>1
  <2>3. Inodes[i].size = 2
    BY <2>1, <2>2, InodesAre
  <2>4. ASSUME NEW x \in {0, 1}, NEW y \in 0 .. x PROVE F!BlockAt(Inodes[i], y) \in F!Block
    <3>1. y \in {0, 1}
      BY <2>4
    <3> QED
      BY <2>1, <3>1, DirPlaces
  <2>5. 0 .. 2 - 1 = {0, 1}
    OBVIOUS
  <2>6. F!Visited(i) = {x \in {0, 1} : \A y \in 0 .. x : F!BlockAt(Inodes[i], y) \in F!Block}
    BY <2>3, <2>5 DEF F!Visited
  <2> QED
    BY <2>4, <2>6
<1>4. F!Entries(0) = 2 .. Len(b.inodes)
  BY <1>1, <1>2 DEF F!Entries
<1>5. ASSUME NEW i \in F!Directories \ {0} PROVE F!Entries(i) = {}
  BY <1>3 DEF F!Entries
<1> QED
  BY <1>2, <1>3, <1>4, <1>5

LEMMA ImageTyped ==
  ASSUME NEW b, Finished(b), Fits
  PROVE  F!TypeOK
<1> USE DEF Finished
<1> DEFINE count == Len(b.inodes)
           nb == TotalBlocks - FirstData
<1>0. /\ FirstData \in Nat \ {0} /\ TotalBlocks \in Nat /\ nb \in Nat /\ Used(b) \in 1 .. nb
      /\ NInodes \in Nat \ {0} /\ count \in 1 .. NInodes /\ count + 1 <= UnitsPerBlock
      /\ MaxDirect \in Nat \ {0} /\ UnitsPerBlock \in Nat /\ UnitsPerBlock > 2
      /\ DOMAIN b.inodes = 1 .. count /\ DOMAIN added = 1 .. count - 1
  BY NumbersAre
<1>1. \A j \in DOMAIN added : Added(added[j])
  BY NumbersAre
<1>2. [x \in 1 .. nb |-> x + FirstData - 1 \in Image.bitmap] \in [F!Block -> BOOLEAN]
  BY Shapes
<1>3. Image.superblock.free \in Int
  <2>1. Image.superblock.free = TotalBlocks - b.nextFreeBlock /\ b.nextFreeBlock = Used(b) + FirstData
    BY CloseIs, NumbersAre DEF Image
  <2> QED
    BY <1>0, <2>1
<1> HIDE DEF count
<1>4. MaxDirect * UnitsPerBlock \in Nat /\ UnitsPerBlock <= MaxDirect * UnitsPerBlock
  BY <1>0
<1>5. ASSUME NEW i \in F!Inode
      PROVE  Inodes[i] \in F!INodeStruct
  <2> DEFINE max == MaxDirect * UnitsPerBlock
  <2>0. /\ i \in 0 .. NInodes - 1 /\ i \in Nat /\ (i >= count <=> ~(i < count)) /\ count \in Nat
        /\ (i < count => i \in 0 .. count - 1)
    <3>1. i \in 0 .. NInodes - 1 /\ count \in Nat
      BY <1>0, Shapes
    <3> QED
      BY <1>0, <3>1
  <2>1. F!INodeStruct = [type : {0, 1, 2}, size : 0 .. max, direct : [Places -> 1 .. nb \cup {-1, 0}]]
    BY Shapes DEF F!INodeStruct
  <2>2. max \in Nat /\ UnitsPerBlock <= max
    BY <1>4
  <2> HIDE DEF max, nb
  <2>3. CASE i >= count
    <3>1. Inodes[i] = [type |-> 0, size |-> 0, direct |-> NoPointers]
      BY <2>0, <2>3, TableIsInodes DEF count
    <3>2. NoPointers \in [Places -> 1 .. nb \cup {-1, 0}]
      BY DEF NoPointers, Places
    <3>3. 0 \in 0 .. max
      BY <2>2
    <3> QED
      BY <2>1, <3>1, <3>2, <3>3
  <2>4. CASE i < count
    <3>1. /\ Inodes[i] = [type |-> Inodes[i].type, size |-> Inodes[i].size, direct |-> Inodes[i].direct]
          /\ Inodes[i].direct = [k \in Places |-> Mounted(b.inodes[i + 1].direct[k])]
      BY <2>0, <2>4, TableIsInodes DEF count
    <3>2. /\ i = 0 => Inodes[i].type = DIR /\ Inodes[i].size = count + 1
          /\ i # 0 => /\ i \in DOMAIN added
                      /\ Inodes[i].type = (IF added[i].dir THEN DIR ELSE FILE)
                      /\ Inodes[i].size = (IF added[i].dir THEN 2 ELSE added[i].size)
      BY <2>0, <2>4, InodesAre DEF count
    <3>3. Inodes[i].type \in {0, 1, 2}
      BY <3>2, Shapes
    <3>4. Inodes[i].size \in 0 .. max
      <4>1. CASE i = 0
        BY <1>0, <2>2, <3>2, <4>1
      <4>2. CASE i # 0
        <5>1. added[i].size \in Nat /\ added[i].size <= max
          BY <1>1, <3>2, <4>2 DEF Added, Fits, max
        <5> QED
          BY <1>0, <2>2, <3>2, <4>2, <5>1
      <4> QED
        BY <4>1, <4>2
    <3>5. ASSUME NEW k \in Places PROVE Inodes[i].direct[k] \in 1 .. nb \cup {-1, 0}
      <4>1. \/ Inodes[i].direct[k] = 0
            \/ Inodes[i].direct[k] \in 1 .. Used(b)
        BY <2>0, <2>4, MountedIs DEF count
      <4> QED
        BY <1>0, <4>1
    <3>6. Inodes[i].direct \in [Places -> 1 .. nb \cup {-1, 0}]
      BY <3>1, <3>5
    <3> QED
      BY <2>1, <3>1, <3>3, <3>4, <3>6
  <2> QED
    BY <2>0, <2>3, <2>4
<1>6. Inodes \in [F!Inode -> F!INodeStruct]
  <2>1. Inodes = [i \in F!Inode |-> Inodes[i]]
    BY Shapes DEF Inodes
  <2> QED
    BY <1>5, <2>1
<1>7. ASSUME NEW x \in 1 .. nb, NEW s \in Slots
      PROVE  DiskBlocks[x][s] \in DiskUnits
  <2>1. /\ Image.data = [b.disk.data EXCEPT ![FirstData] = Padded(b.rootDirBlock)]
        /\ b.disk.data \in [Disk -> [Slots -> DiskUnits]]
    BY CloseIs DEF Image, Formatted
  <2>2. x + FirstData - 1 \in Disk /\ FirstData \in Disk
    BY <1>0 DEF Disk
  <2>3. DiskBlocks[x] = Image.data[x + FirstData - 1]
    BY DEF DiskBlocks
  <2>4. CASE x + FirstData - 1 # FirstData
    <3>1. DiskBlocks[x] = b.disk.data[x + FirstData - 1]
      BY <2>1, <2>2, <2>3, <2>4
    <3> QED
      BY <2>1, <2>2, <3>1
  <2>5. CASE x + FirstData - 1 = FirstData
    <3>1. DiskBlocks[x] = Padded(b.rootDirBlock)
      BY <2>1, <2>2, <2>3, <2>5
    <3>2. CASE s < Len(b.rootDirBlock)
      <4>1. Len(b.rootDirBlock) = count + 1
        BY DEF Formatted, Rooted, count
      <4>2. s \in Nat /\ s \in 0 .. count /\ x = 1
        BY <1>0, <2>5, <3>2, <4>1 DEF Slots
      <4>3. /\ s = 0 => DiskBlocks[1][s] = Entry(0, Dot)
            /\ s = 1 => DiskBlocks[1][s] = Entry(0, DotDot)
            /\ s >= 2 => DiskBlocks[1][s] = Entry(s - 1, added[s - 1].name)
        BY <4>2, RootBlock DEF count
      <4>4. 0 \in 0 .. NInodes - 1 /\ (s >= 2 => s - 1 \in DOMAIN added /\ s - 1 \in 0 .. NInodes - 1)
        BY <1>0, <4>2
      <4>5. s >= 2 => added[s - 1].name \in Names
        BY <1>1, <4>4 DEF Added
      <4>6. s = 0 \/ s = 1 \/ s >= 2
        BY <4>2
      <4>7. DiskBlocks[1][s] \in DiskEntries
        BY <4>3, <4>4, <4>5, <4>6 DEF Entry, DiskEntries
      <4> QED
        BY <4>2, <4>7 DEF DiskUnits
    <3>3. CASE ~(s < Len(b.rootDirBlock))
      BY <3>1, <3>3 DEF Padded, Slots, DiskUnits
    <3> QED
      BY <3>2, <3>3
  <2> QED
    BY <2>4, <2>5
<1>8. DiskBlocks \in [F!Block -> [F!Slot -> F!Entry \cup Units \cup {Zero}]]
  <2>1. ASSUME NEW x \in 1 .. nb PROVE DiskBlocks[x] \in [Slots -> DiskUnits]
    <3>1. DiskBlocks[x] = Image.data[x + FirstData - 1]
      BY DEF DiskBlocks
    <3>2. Image.data = [b.disk.data EXCEPT ![FirstData] = Padded(b.rootDirBlock)]
          /\ b.disk.data \in [Disk -> [Slots -> DiskUnits]]
      BY CloseIs DEF Image, Formatted
    <3>3. x + FirstData - 1 \in Disk
      BY <1>0 DEF Disk
    <3>4. DiskBlocks[x] = b.disk.data[x + FirstData - 1] \/ DiskBlocks[x] = Padded(b.rootDirBlock)
      BY <3>1, <3>2, <3>3
    <3>5. DiskBlocks[x] = [s \in Slots |-> DiskBlocks[x][s]]
      <4>1. Padded(b.rootDirBlock) = [s \in Slots |-> Padded(b.rootDirBlock)[s]]
        BY DEF Padded, Slots
      <4>2. b.disk.data[x + FirstData - 1] \in [Slots -> DiskUnits]
        BY <3>2, <3>3
      <4> QED
        BY <3>4, <4>1, <4>2
    <3> QED
      BY <1>7, <3>5
  <2>2. DiskBlocks = [x \in 1 .. nb |-> DiskBlocks[x]]
    BY DEF DiskBlocks
  <2>3. DiskBlocks \in [1 .. nb -> [Slots -> DiskUnits]]
    BY <2>1, <2>2
  <2> QED
    BY <2>3, Shapes DEF DiskUnits
<1>9. [type |-> 0, size |-> 0, direct |-> NoPointers] \in F!INodeStruct
  <2> DEFINE max == MaxDirect * UnitsPerBlock
  <2>1. F!INodeStruct = [type : {0, 1, 2}, size : 0 .. max, direct : [Places -> 1 .. nb \cup {-1, 0}]]
    BY Shapes DEF F!INodeStruct
  <2>2. max \in Nat
    BY <1>4
  <2> HIDE DEF max, nb
  <2>3. NoPointers \in [Places -> 1 .. nb \cup {-1, 0}] /\ 0 \in 0 .. max
    BY <2>2 DEF NoPointers, Places
  <2> QED
    BY <2>1, <2>3
<1> QED
  BY <1>2, <1>3, <1>6, <1>8, <1>9 DEF F!TypeOK, F!Typed, DiskBlocks

\* A pointer that leads to a block is that of an inode in use.
LEMMA PointerUsed ==
  ASSUME NEW b, Finished(b), NEW i \in F!Inode, NEW k \in F!Direct, Inodes[i].direct[k] \in F!Block
  PROVE  /\ i + 1 \in DOMAIN b.inodes /\ k \in Places
         /\ b.inodes[i + 1].direct[k] # 0
         /\ b.inodes[i + 1].direct[k] \in FirstData .. b.nextFreeBlock - 1
         /\ Inodes[i].direct[k] = b.inodes[i + 1].direct[k] - (FirstData - 1)
<1> USE DEF Finished
<1>1. /\ i \in 0 .. NInodes - 1 /\ k \in Places /\ Inodes[i].direct[k] \in 1 .. TotalBlocks - FirstData
  BY Shapes
<1>2. Inodes[i].direct[k] # 0
  BY <1>1, MkfsAssumption
<1>3. i < Len(b.inodes)
  <2> SUFFICES ASSUME i >= Len(b.inodes) PROVE FALSE
    BY <1>1, NumbersAre
  <2>1. Inodes[i] = [type |-> 0, size |-> 0, direct |-> NoPointers]
    BY <1>1, TableIsInodes
  <2> QED
    BY <1>1, <1>2, <2>1 DEF NoPointers, Places
<1>4. i \in 0 .. Len(b.inodes) - 1 /\ i + 1 \in DOMAIN b.inodes
  BY <1>1, <1>3, NumbersAre
<1> QED
  BY <1>1, <1>2, <1>4, MountedIs

LEMMA ImageOneOwner ==
  ASSUME NEW b, Finished(b)
  PROVE  F!BlocksHaveOneOwner
<1> USE DEF Finished
<1> DEFINE marks == [x \in 1 .. TotalBlocks - FirstData |-> x + FirstData - 1 \in Image.bitmap]
<1>0. FirstData \in Nat \ {0} /\ b.nextFreeBlock \in Nat
  BY NumbersAre
<1>1. ASSUME NEW i \in F!Inode, NEW j \in F!Inode, NEW k \in F!Direct, NEW l \in F!Direct,
             Inodes[i].direct[k] \in F!Block
      PROVE  /\ marks[Inodes[i].direct[k]]
             /\ Inodes[j].direct[l] = Inodes[i].direct[k] => i = j /\ k = l
  <2> DEFINE x == Inodes[i].direct[k]
             p == b.inodes[i + 1].direct[k]
  <2>1. /\ i + 1 \in DOMAIN b.inodes /\ k \in Places /\ p # 0
        /\ p \in FirstData .. b.nextFreeBlock - 1 /\ x = p - (FirstData - 1)
    BY <1>1, PointerUsed
  <2>2. marks[x]
    <3>1. x + FirstData - 1 = p
      <4> HIDE DEF x, p
      <4> QED
        BY <1>0, <2>1
    <3>2. Image.bitmap = 0 .. b.nextFreeBlock - 1
      BY CloseIs DEF Image, Formatted
    <3>3. p \in Image.bitmap
      <4> HIDE DEF p
      <4> QED
        BY <1>0, <2>1, <3>2
    <3>4. x \in 1 .. TotalBlocks - FirstData
      BY <1>1, Shapes
    <3> HIDE DEF x, p
    <3> QED
      BY <3>1, <3>3, <3>4
  <2>3. ASSUME Inodes[j].direct[l] = x PROVE i = j /\ k = l
    <3> DEFINE q == b.inodes[j + 1].direct[l]
    <3>1. /\ j + 1 \in DOMAIN b.inodes /\ l \in Places
          /\ q \in FirstData .. b.nextFreeBlock - 1 /\ x = q - (FirstData - 1)
      BY <1>1, <2>3, PointerUsed
    <3>2. p = q
      <4> HIDE DEF p, q, x
      <4> QED
        BY <1>0, <2>1, <3>1
    <3>3. i + 1 = j + 1 /\ k = l
      BY <2>1, <3>1, <3>2 DEF Formatted, Apart
    <3>4. i \in Nat /\ j \in Nat
      BY Shapes
    <3> QED
      BY <3>3, <3>4
  <2> QED
    BY <2>2, <2>3
<1> HIDE DEF marks
<1>2. \A i, j \in F!Inode, k, l \in F!Direct :
        Inodes[i].direct[k] \in F!Block =>
          /\ marks[Inodes[i].direct[k]]
          /\ Inodes[j].direct[l] = Inodes[i].direct[k] => i = j /\ k = l
  BY <1>1
<1> QED
  BY <1>2 DEF F!BlocksHaveOneOwner, F!OwnersDiffer, marks

LEMMA ImageFreeCount ==
  ASSUME NEW b, Finished(b)
  PROVE  F!FreeCountMatchesBitmap
<1> USE DEF Finished
<1> DEFINE nb == TotalBlocks - FirstData
           used == Used(b)
<1>1. /\ FirstData \in Nat \ {0} /\ TotalBlocks \in Nat /\ nb \in Nat /\ used \in 1 .. nb
      /\ b.nextFreeBlock = used + FirstData
  BY NumbersAre
<1>2. Image.bitmap = 0 .. b.nextFreeBlock - 1 /\ Image.superblock.free = TotalBlocks - b.nextFreeBlock
  BY CloseIs DEF Image, Formatted
<1>3. F!FreeBlocks = {x \in 1 .. nb : x + FirstData - 1 \notin Image.bitmap}
  BY Shapes DEF F!FreeBlocks
<1>4. Image.superblock.free = nb - used
  BY <1>1, <1>2
<1> HIDE DEF nb, used
<1>5. F!FreeBlocks = used + 1 .. nb
  BY <1>1, <1>2, <1>3
<1>6. Cardinality(used + 1 .. nb) = IF used + 1 > nb THEN 0 ELSE nb - (used + 1) + 1
  BY <1>1, FS_Interval
<1>7. Cardinality(used + 1 .. nb) = nb - used
  BY <1>1, <1>6
<1>8. F!Cardinality(F!FreeBlocks) = Cardinality(F!FreeBlocks)
  BY DEF F!Cardinality, Cardinality
<1> QED
  BY <1>4, <1>5, <1>7, <1>8 DEF F!FreeCountMatchesBitmap, F!CountIsRight

LEMMA ImageNothingLeaked ==
  ASSUME NEW b, Finished(b)
  PROVE  F!Leaked = {}
<1> USE DEF Finished
<1>0. /\ FirstData \in Nat \ {0} /\ b.nextFreeBlock \in Nat /\ TotalBlocks \in Nat
      /\ DOMAIN b.inodes = 1 .. Len(b.inodes) /\ Len(b.inodes) \in 1 .. NInodes /\ NInodes \in Nat
  BY NumbersAre
<1>1. Image.bitmap = 0 .. b.nextFreeBlock - 1
  BY CloseIs DEF Image, Formatted
<1>2. ASSUME NEW x \in 1 .. TotalBlocks - FirstData, x + FirstData - 1 \in Image.bitmap
      PROVE  \E i \in F!Inode : x \in F!BlocksOf(i)
  <2> DEFINE p == x + FirstData - 1
  <2>1. p \in FirstData .. b.nextFreeBlock - 1 /\ p # 0 /\ x = p - (FirstData - 1) /\ x # 0
    BY <1>0, <1>1, <1>2
  <2> HIDE DEF p
  <2>2. PICK i \in DOMAIN b.inodes, k \in Places : b.inodes[i].direct[k] = p
    BY <2>1 DEF Formatted, Covering
  <2>3. i - 1 \in 0 .. Len(b.inodes) - 1 /\ (i - 1) + 1 = i /\ i - 1 \in F!Inode /\ k \in F!Direct
    BY <1>0, Shapes, SMTT(30)
  <2>4. Inodes[i - 1].direct[k] = x
    <3>1. b.inodes[(i - 1) + 1].direct[k] = p
      BY <2>2, <2>3
    <3>2. Inodes[i - 1].direct[k] = p - (FirstData - 1)
      BY <2>1, <2>3, <3>1, MountedIs, SMTT(30)
    <3> QED
      BY <2>1, <3>2
  <2>5. x \in F!BlocksOf(i - 1)
    BY <2>1, <2>3, <2>4 DEF F!BlocksOf
  <2> QED
    BY <2>3, <2>5
<1>3. F!Leaked = {x \in 1 .. TotalBlocks - FirstData :
                    x + FirstData - 1 \in Image.bitmap /\ \A i \in F!Inode : x \notin F!BlocksOf(i)}
  BY Shapes DEF F!Leaked
<1> QED
  BY <1>2, <1>3

LEMMA ImageDirectories ==
  ASSUME NEW b, Finished(b)
  PROVE  F!DirectoriesHoldEntries
<1> USE DEF Finished
<1> DEFINE count == Len(b.inodes)
<1>0. count \in 1 .. NInodes /\ NInodes \in Nat /\ DOMAIN added = 1 .. count - 1
      /\ 1 \in F!Block
  <2>1. count \in 1 .. NInodes /\ NInodes \in Nat /\ DOMAIN added = 1 .. count - 1
    BY NumbersAre
  <2>2. 1 \in 1 .. TotalBlocks - FirstData
    BY MkfsAssumption
  <2> QED
    BY <2>1, <2>2, Shapes
<1>1. \A j \in DOMAIN added : Added(added[j])
  BY NumbersAre
<1>2. ASSUME NEW i \in F!Directories
      PROVE  /\ i \in 0 .. count - 1 /\ i \in 0 .. NInodes - 1 /\ i \in F!Inode /\ i < count
             /\ i # 0 => i \in 1 .. count - 1 /\ added[i].dir
  BY <1>0, LiveIs, Shapes
<1>3. ASSUME NEW ino \in 0 .. NInodes - 1, NEW name \in Names \cup {Dot, DotDot}
      PROVE  Entry(ino, name) \in F!Entry
  BY Shapes DEF Entry, DiskEntries
<1>4. ASSUME NEW i \in F!Directories PROVE -1 \notin F!BlocksOf(i)
  <2>1. ASSUME NEW k \in F!Direct, Inodes[i].direct[k] = -1 PROVE FALSE
    <3>1. k \in Places
      BY Shapes
    <3>2. Inodes[i].direct[k] = 0 \/ Inodes[i].direct[k] \in 1 .. Used(b)
      BY <1>2, <3>1, MountedIs
    <3>3. Used(b) \in Nat
      BY NumbersAre
    <3> QED
      BY <2>1, <3>2, <3>3
  <2> QED
    BY <2>1 DEF F!BlocksOf
<1>5. Inodes[0].size >= 2 /\ F!Whole(0)
  <2>1. Inodes[0].size = count + 1 /\ 0 \in F!Directories
    BY <1>0, InodesAre, LiveIs
  <2>2. ASSUME NEW x \in 0 .. count
        PROVE  F!BlockAt(Inodes[0], x) \in F!Block /\ F!EntryAt(0, x) \in F!Entry
    <3>1. x = 0 \/ x = 1 \/ x >= 2
      BY <1>0
    <3>2. CASE x >= 2
      <4>1. x - 1 \in DOMAIN added /\ x - 1 \in 0 .. NInodes - 1
        BY <1>0, <3>2
      <4>2. added[x - 1].name \in Names
        BY <1>1, <4>1 DEF Added
      <4> QED
        BY <1>0, <1>3, <3>2, <4>1, <4>2, RootPlaces
    <3>3. 0 \in 0 .. NInodes - 1
      BY <1>0
    <3> QED
      BY <1>0, <1>3, <3>1, <3>2, <3>3, RootPlaces
  <2>3. 0 \in 0 .. count /\ 1 \in 0 .. count /\ count + 1 - 1 = count /\ count + 1 >= 2
    BY <1>0
  <2>4. F!EntryAt(0, 0) = Entry(0, Dot) /\ F!EntryAt(0, 1) = Entry(0, DotDot)
    BY <2>3, RootPlaces
  <2> QED
    BY <1>4, <2>1, <2>2, <2>3, <2>4 DEF F!Whole, Entry
<1>6. ASSUME NEW i \in F!Directories, i # 0
      PROVE  Inodes[i].size >= 2 /\ F!Whole(i)
  <2>1. /\ i \in 1 .. count - 1 /\ added[i].dir /\ i \in 0 .. NInodes - 1 /\ i < count
    BY <1>2, <1>6
  <2>2. Inodes[i].size = 2
    BY <1>6, <2>1, InodesAre
  <2>3. /\ F!EntryAt(i, 0) = Entry(i, Dot) /\ F!EntryAt(i, 1) = Entry(0, DotDot)
        /\ \A x \in {0, 1} : F!BlockAt(Inodes[i], x) \in F!Block
    BY <2>1, DirPlaces
  <2>4. F!EntryAt(i, 0) \in F!Entry /\ F!EntryAt(i, 1) \in F!Entry
    <3>1. 0 \in 0 .. NInodes - 1
      BY <1>0
    <3> QED
      BY <1>3, <2>1, <2>3, <3>1
  <2>5. 0 .. 2 - 1 = {0, 1}
    OBVIOUS
  <2> QED
    BY <1>4, <2>2, <2>3, <2>4, <2>5 DEF F!Whole, Entry
<1> QED
  BY <1>5, <1>6 DEF F!DirectoriesHoldEntries, F!DirectoriesWhole

\* Entry x of the root names inode x - 1; no other directory has entries.
LEMMA NamesAre ==
  ASSUME NEW b, Finished(b)
  PROVE  /\ 0 \in F!Directories /\ Len(b.inodes) \in Nat \ {0}
         /\ \A i \in F!Directories : \A x \in F!Entries(i) : i = 0 /\ x \in 2 .. Len(b.inodes)
         /\ F!Entries(0) = 2 .. Len(b.inodes)
         /\ \A x \in 2 .. Len(b.inodes) : /\ F!EntryAt(0, x).ino = x - 1
                                         /\ F!EntryAt(0, x).name = added[x - 1].name
<1>1. Len(b.inodes) \in Nat \ {0}
  <2>1. Len(b.inodes) \in 1 .. NInodes /\ NInodes \in Nat
    BY NumbersAre DEF Finished
  <2> QED
    BY <2>1
<1>2. 0 \in F!Directories
  BY <1>1, LiveIs
<1>3. ASSUME NEW x \in 2 .. Len(b.inodes)
      PROVE  F!EntryAt(0, x).ino = x - 1 /\ F!EntryAt(0, x).name = added[x - 1].name
  <2>1. x \in 0 .. Len(b.inodes) /\ x >= 2
    BY <1>1
  <2>2. F!EntryAt(0, x) = Entry(x - 1, added[x - 1].name)
    BY <2>1, RootPlaces
  <2> QED
    BY <2>2 DEF Entry
<1>4. ASSUME NEW i \in F!Directories, NEW x \in F!Entries(i)
      PROVE  i = 0 /\ x \in 2 .. Len(b.inodes)
  BY <1>4, VisitedIs
<1> QED
  BY <1>1, <1>2, <1>3, <1>4, VisitedIs

LEMMA ImageNamesOnce ==
  ASSUME NEW b, Finished(b)
  PROVE  F!EntriesNameOnce
<1> SUFFICES ASSUME NEW e \in F!Directories, NEW x \in F!Entries(e)
             PROVE  /\ F!EntryAt(e, x).ino \in F!Live \ {F!Root}
                    /\ \A c \in F!Directories : \A y \in F!Entries(c) :
                         F!EntryAt(c, y).ino = F!EntryAt(e, x).ino => c = e /\ y = x
                    /\ Inodes[F!EntryAt(e, x).ino].type = F!DIR
                         /\ 1 \in F!Visited(F!EntryAt(e, x).ino)
                         => F!EntryAt(F!EntryAt(e, x).ino, 1).ino = e
  BY DEF F!EntriesNameOnce, F!NamedOnce
<1> DEFINE count == Len(b.inodes)
           i == F!EntryAt(e, x).ino
<1>1. e = 0 /\ x \in 2 .. count /\ i = x - 1 /\ count \in Nat \ {0}
  BY NamesAre
<1> HIDE DEF i, count
<1>2. i \in 1 .. count - 1 /\ i \in 0 .. count - 1 /\ i # 0
  BY <1>1
<1>3. i \in F!Live \ {F!Root}
  BY <1>2, LiveIs, Shapes DEF count
<1>4. ASSUME NEW c \in F!Directories, NEW y \in F!Entries(c), F!EntryAt(c, y).ino = i
      PROVE  c = e /\ y = x
  <2>1. c = 0 /\ y \in 2 .. count /\ F!EntryAt(c, y).ino = y - 1
    BY NamesAre DEF count
  <2> QED
    BY <1>1, <1>4, <2>1
<1>5. ASSUME Inodes[i].type = F!DIR PROVE F!EntryAt(i, 1).ino = e
  <2>1. i \in F!Directories
    BY <1>3, <1>5 DEF F!Directories
  <2>2. added[i].dir
    BY <1>2, <2>1, LiveIs
  <2>3. F!EntryAt(i, 1) = Entry(0, DotDot)
    BY <1>2, <2>2, DirPlaces DEF count
  <2> QED
    BY <1>1, <2>3 DEF Entry
<1> QED
  BY <1>3, <1>4, <1>5 DEF i

LEMMA ImageNothingNameless ==
  ASSUME NEW b, Finished(b)
  PROVE  F!Orphans = {}
<1> DEFINE count == Len(b.inodes)
<1>1. count \in Nat \ {0} /\ 0 \in F!Directories /\ F!Entries(0) = 2 .. count
      /\ \A x \in 2 .. count : F!EntryAt(0, x).ino = x - 1
  BY NamesAre
<1>2. F!Live = 0 .. count - 1
  BY LiveIs
<1> HIDE DEF count
<1>3. ASSUME NEW i \in F!Live PROVE i \in F!Named
  <2>1. CASE i = 0
    BY <2>1, Shapes DEF F!Named
  <2>2. CASE i # 0
    <3>1. i + 1 \in 2 .. count /\ (i + 1) - 1 = i
      BY <1>1, <1>2, <2>2
    <3>2. i \in {F!EntryAt(0, x).ino : x \in F!Entries(0)}
      BY <1>1, <3>1
    <3> QED
      BY <1>1, <3>2 DEF F!Named
  <2> QED
    BY <2>1, <2>2
<1> QED
  BY <1>3 DEF F!Orphans

LEMMA ImageNames ==
  ASSUME NEW b, Finished(b)
  PROVE  F!NamesIn(0) = {<<added[j].name, j>> : j \in DOMAIN added}
<1> DEFINE count == Len(b.inodes)
<1>1. count \in Nat \ {0} /\ F!Entries(0) = 2 .. count
      /\ \A x \in 2 .. count : F!EntryAt(0, x).ino = x - 1 /\ F!EntryAt(0, x).name = added[x - 1].name
  BY NamesAre
<1>2. DOMAIN added = 1 .. count - 1
  BY NumbersAre DEF Finished
<1> HIDE DEF count
<1>3. F!NamesIn(0) = {<<added[x - 1].name, x - 1>> : x \in 2 .. count}
  BY <1>1 DEF F!NamesIn
<1>4. ASSUME NEW x \in 2 .. count PROVE x - 1 \in DOMAIN added
  BY <1>1, <1>2
<1>5. ASSUME NEW j \in DOMAIN added PROVE j + 1 \in 2 .. count /\ (j + 1) - 1 = j
  BY <1>1, <1>2
<1>6. ASSUME NEW p \in F!NamesIn(0) PROVE p \in {<<added[j].name, j>> : j \in DOMAIN added}
  <2>1. PICK x \in 2 .. count : p = <<added[x - 1].name, x - 1>>
    BY <1>3
  <2> QED
    BY <1>4, <2>1
<1>7. ASSUME NEW j \in DOMAIN added PROVE <<added[j].name, j>> \in F!NamesIn(0)
  BY <1>3, <1>5
<1> QED
  BY <1>6, <1>7

LEMMA ImageTexts ==
  ASSUME NEW b, Finished(b), Fits, NEW j \in DOMAIN added, NEW x \in 0 .. added[j].size - 1, ~added[j].dir
  PROVE  F!Text(j)[x] = Unit(added[j].contents, x)
<1>1. /\ j \in 1 .. Len(b.inodes) - 1 /\ j \in 0 .. NInodes - 1 /\ j # 0 /\ j < Len(b.inodes)
  <2>1. /\ DOMAIN added = 1 .. Len(b.inodes) - 1 /\ Len(b.inodes) \in 1 .. NInodes
        /\ NInodes \in Nat
    BY NumbersAre DEF Finished
  <2> QED
    BY <2>1
<1>2. Inodes[j].type = F!FILE
  BY <1>1, InodesAre, Shapes
<1>3. /\ F!BlockAt(Inodes[j], x) \in F!Block /\ F!EntryAt(j, x) = Unit(added[j].contents, x)
      /\ x \in 0 .. F!MaxSize - 1
  BY <1>1, FilePlaces
<1> QED
  BY <1>2, <1>3 DEF F!Text

LEMMA FilledSound == Built /\ Filled => ImageSound
<1> SUFFICES ASSUME Built, Filled, stage = "image", Fits
             PROVE  /\ F!TypeOK /\ F!BlocksHaveOneOwner /\ F!FreeCountMatchesBitmap
                    /\ F!DirectoriesHoldEntries /\ F!EntriesNameOnce
                    /\ F!Leaked = {} /\ F!Orphans = {}
                    /\ F!NamesIn(0) = {<<added[j].name, j>> : j \in DOMAIN added}
                    /\ \A j \in DOMAIN added : \A x \in 0 .. added[j].size - 1 :
                         ~added[j].dir => F!Text(j)[x] = Unit(added[j].contents, x)
  BY DEF ImageSound, Fits
<1>1. added \in Seq(SourceFiles \cup Programs)
  BY DEF Built
<1>2. PICK b : Counted(b) /\ Formatted(b, added) /\ d = Close(b)
  BY DEF Filled
<1>3. Finished(b)
  BY <1>1, <1>2 DEF Finished
<1> QED
  BY <1>3, ImageTyped, ImageOneOwner, ImageFreeCount, ImageDirectories, ImageNamesOnce,
     ImageNothingLeaked, ImageNothingNameless, ImageNames, ImageTexts

(* An image made of files that fit is a file system the kernel could have made,  *)
(* for every disk, number of inodes and pointers, and any files in any order     *)
(* (BrfsBuilder of tools/mkfs.js, mounted by fs_init).                           *)
THEOREM ImageIsFileSystem == Spec => []ImageSound
<1>1. Built /\ Filled => ImageSound
  BY FilledSound
<1> QED
  BY <1>1, Invariance, FilledInvariant, PTL
=============================================================================
