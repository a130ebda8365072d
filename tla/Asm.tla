-------------------------------- MODULE Asm ---------------------------------
(***************************************************************************)
(* The assembler of tools/asm.js, its ELF writer, the reader and loader of  *)
(* tools/elf.js and the decoders of tools/cpu.js, as operators: lines of     *)
(* source change the state a of one call of assemble(), pass 2 turns it into *)
(* a file, the loader puts the file in memory, the decoders read it back.     *)
(*                                                                          *)
(* What is abstracted: the text of a line and of a number; the operators of   *)
(* the expression language but +; registers, opcodes and the instructions     *)
(* without an expression, which are all "nop".  Bytes are kept in runs: a      *)
(* piece is what one directive or instruction emits.  Addresses and            *)
(* immediates have their real widths.                                         *)
(***************************************************************************)
EXTENDS Integers, Sequences, SequencesExt, FiniteSets, FiniteSetsExt

Sections == {"text", "data", "bss"}

(* An expression is a symbol plus a number, or a number: [sym, k].           *)
Literal(k) == [sym |-> "", k |-> k]

(* What evaluating it gives in JavaScript.  A label has no value until pass  *)
(* 2, so before it reads as undefined, and undefined + k | 0 is 0.            *)
Num(v) == [is |-> "number", v |-> v]
Undefined == [is |-> "undefined", v |-> 0]
Thrown == [is |-> "thrown", v |-> 0]

Eval(e, symbols) ==
  IF e.sym = "" THEN Num(e.k)
  ELSE IF e.sym \notin DOMAIN symbols THEN Thrown
  ELSE LET value == symbols[e.sym].value
       IN IF e.k = 0 THEN value
          ELSE IF value.is = "number" THEN Num(value.v + e.k) ELSE Num(0)

-----------------------------------------------------------------------------
(* Pass 1.  history: mark is the index of the item a label stands before,     *)
(* early tells a value that was computed from an address not known yet.        *)

Begin(base) ==
  [base |-> base, cur |-> "text", symbols |-> <<>>, failed |-> FALSE,
   sections |-> [s \in Sections |-> [items |-> <<>>, size |-> 0]]]

Fail(a) == [a EXCEPT !.failed = TRUE]
Current(a) == a.sections[a.cur]
Early(e, symbols) ==
  e.sym \in DOMAIN symbols /\ (symbols[e.sym].kind = "label" \/ symbols[e.sym].early)

Define(a, name, symbol) ==
  IF name \in DOMAIN a.symbols THEN Fail(a)
  ELSE [a EXCEPT !.symbols = [n \in DOMAIN @ \cup {name} |->
                                IF n = name THEN symbol ELSE @[n]]]

Label(a, name) ==
  Define(a, name, [kind |-> "label", section |-> a.cur, offset |-> Current(a).size,
                   value |-> Undefined, mark |-> Len(Current(a).items) + 1, early |-> FALSE])

Equ(a, name, e) ==
  LET value == Eval(e, a.symbols)
  IN IF value = Thrown THEN Fail(a)
     ELSE Define(a, name, [kind |-> "const", section |-> a.cur, offset |-> 0, value |-> value,
                           mark |-> 0, early |-> Early(e, a.symbols)])

Section(a, s) == [a EXCEPT !.cur = s]

\* hi: the offset of the instruction a pcrel_lo belongs to.
Piece(kind, n, e) ==
  [kind |-> kind, n |-> n, e |-> e, offset |-> 0, hi |-> 0, value |-> 0, early |-> FALSE]

Put(a, piece) ==
  [a EXCEPT !.sections[a.cur] =
     [items |-> Append(@.items, [piece EXCEPT !.offset = Current(a).size]),
      size |-> @.size + piece.n]]

Bytes(a, n) == IF n < 0 THEN Fail(a) ELSE Put(a, Piece("bytes", n, Literal(0)))

\* .byte (n = 1) and .word (n = 4) evaluate their operands token by token, and
\* a sign is a token.
OneToken(e) == IF e.sym = "" THEN e.k >= 0 ELSE e.k = 0

Values(a, n, e) ==
  LET v == Eval(e, a.symbols)
  IN IF v = Thrown \/ ~OneToken(e) \/ (n = 1 /\ v.v \notin -128 .. 255)
     THEN Fail(a)
     ELSE Put(a, [Piece("value", n, e) EXCEPT
                    !.value = IF n = 1 THEN v.v % 256 ELSE v.v, !.early = Early(e, a.symbols)])

AlignUp(v, n) == ((v + n - 1) \div n) * n

\* Mutant: the padding is not counted.
AlignUncounted(a, n) ==
  IF n \notin 0 .. 16 THEN Fail(a)
  ELSE LET pad == AlignUp(Current(a).size, 2 ^ n) - Current(a).size
       IN IF pad = 0 THEN a
          ELSE [a EXCEPT !.sections[a.cur].items = Append(@, Piece("pad", pad, Literal(0)))]

Align(a, n) ==
  IF n \notin 0 .. 16 THEN Fail(a)
  ELSE LET pad == AlignUp(Current(a).size, 2 ^ n) - Current(a).size
       IN IF pad = 0 THEN a ELSE Put(a, Piece("pad", pad, Literal(0)))

\* An instruction of one word; its expression waits for pass 2.
Inst(a, kind, e) == Put(a, Piece(kind, 4, e))

Imm12 == -2048 .. 2047

\* li is one instruction if the value is known and small.
Li(a, e) ==
  LET v == Eval(e, a.symbols)
  IN IF v.is = "number" /\ v.v \in Imm12
     THEN Put(a, [Piece("li", 4, e) EXCEPT !.value = v.v, !.early = Early(e, a.symbols)])
     ELSE Inst(Inst(a, "li_hi", e), "li_lo", e)

La(a, e) ==
  Put(Inst(a, "pcrel_hi", e), [Piece("pcrel_lo", 4, e) EXCEPT !.hi = Current(a).size])

-----------------------------------------------------------------------------
(* Pass 2: bases, addresses of labels, and the fields of the immediates.      *)

SizeOf(a, s) == a.sections[s].size

Bases(a) ==
  LET data == a.base + AlignUp(SizeOf(a, "text"), 4)
  IN [text |-> a.base, data |-> data, bss |-> data + AlignUp(SizeOf(a, "data"), 4)]

Resolved(a) ==
  [n \in DOMAIN a.symbols |->
     LET s == a.symbols[n]
     IN IF s.kind = "label" THEN [s EXCEPT !.value = Num(Bases(a)[s.section] + s.offset)]
        ELSE s]

\* (v + 0x800) >> 12 and v minus that: the high part makes up for a negative low part.
Carry(v) == ((v % 4096) + 2048) \div 4096
Hi(v) == v \div 4096 + Carry(v)
Lo(v) == (v % 4096) - 4096 * Carry(v)

EncI(i) == <<i % 4096>>
EncS(i) == <<(i \div 32) % 128, i % 32>>
EncB(i) == <<(i \div 4096) % 2, (i \div 32) % 64, (i \div 2) % 16, (i \div 2048) % 2>>
EncU(i) == <<i % (2 ^ 20)>>
EncJ(i) == <<(i \div 2 ^ 20) % 2, (i \div 2) % 1024, (i \div 2048) % 2, (i \div 4096) % 256>>

\* An instruction of .bss, too, counts from the base of .data.
AddressOf(a, s, piece) == (IF s = "text" THEN a.base ELSE Bases(a).data) + piece.offset

\* Mutant: the low part is taken from its own address.
PcrelLoOwn(a, piece, v) == Lo(v - (a.base + piece.offset))

PcrelLo(a, piece, v) == Lo(v - (a.base + piece.hi))

Relative == {"b", "j", "pcrel_hi"}

\* What the immediate is computed from, unless undefined made it 0.
Operand(a, s, piece) ==
  LET v == Eval(piece.e, Resolved(a))
  IN IF v.is # "number" THEN 0
     ELSE IF piece.kind \in Relative THEN v.v - AddressOf(a, s, piece) ELSE v.v

Patched == {"i", "s", "b", "j", "u", "li_hi", "li_lo", "pcrel_hi", "pcrel_lo"}
InReach(kind, d) ==
  CASE kind \in {"i", "s"} -> d \in Imm12
    [] kind = "b" -> d >= -4096 /\ d <= 4094 /\ d % 2 = 0
    [] kind = "j" -> d >= -(2 ^ 20) /\ d <= 2 ^ 20 - 2 /\ d % 2 = 0
    [] OTHER -> TRUE

CanPatch(a, s, piece) ==
  piece.kind \in Patched => /\ Eval(piece.e, Resolved(a)) # Thrown
                            /\ InReach(piece.kind, Operand(a, s, piece))

PatchInst(a, s, piece) ==
  LET d == Operand(a, s, piece)
  IN CASE piece.kind = "li" -> EncI(piece.value)
       [] piece.kind = "i" -> EncI(d)
       [] piece.kind = "s" -> EncS(d)
       [] piece.kind = "b" -> EncB(d)
       [] piece.kind = "j" -> EncJ(d)
       [] piece.kind = "u" -> EncU(d)
       [] piece.kind \in {"li_hi", "pcrel_hi"} -> EncU(Hi(d))
       [] piece.kind = "li_lo" -> EncI(Lo(d))
       [] piece.kind = "pcrel_lo" ->
            EncI(IF Eval(piece.e, Resolved(a)) = Undefined THEN 0 ELSE PcrelLo(a, piece, d))
       [] OTHER -> <<>>

Items(a, s) == a.sections[s].items
Assembles(a) ==
  \A s \in Sections : \A i \in DOMAIN Items(a, s) : CanPatch(a, s, Items(a, s)[i])

-----------------------------------------------------------------------------
(* The file.  .bss has a size and no bytes; .data follows .text at once.      *)

SegOff == 256

RenderSection(a, s, off) ==
  {LET p == Items(a, s)[i]
   IN [section |-> s, index |-> i, kind |-> p.kind, e |-> p.e, n |-> p.n, value |-> p.value,
       early |-> p.early, off |-> off + p.offset, code |-> PatchInst(a, s, p)]
     : i \in DOMAIN Items(a, s)}

\* Mutant: the segment has the size of its bytes.
MemSizeOfFile(a) == SizeOf(a, "text") + SizeOf(a, "data")

MemSize(a) == SizeOf(a, "text") + SizeOf(a, "data") + SizeOf(a, "bss")

Labels(a) == {n \in DOMAIN a.symbols : a.symbols[n].kind = "label"}

\* The writer has its own idea of where .bss is.
Symtab(a) ==
  {LET s == a.symbols[n]
   IN [name |-> n, section |-> s.section,
       value |-> s.offset + (IF s.section = "bss" THEN Bases(a).data + SizeOf(a, "data")
                             ELSE Bases(a)[s.section])]
     : n \in Labels(a)}

\* 7 section headers and their names, 16 bytes a symbol, names of one character.
ElfSize(a) ==
  SegOff + SizeOf(a, "text") + SizeOf(a, "data") + 7 * 40 + 44
  + 18 * Cardinality(Labels(a)) + 1

BuildElf(a) ==
  [entry |-> IF "_start" \in DOMAIN a.symbols THEN Resolved(a)["_start"].value.v ELSE 0,
   off |-> SegOff, vaddr |-> a.base,
   filesz |-> SizeOf(a, "text") + SizeOf(a, "data"), memsz |-> MemSize(a),
   bytes |-> RenderSection(a, "text", SegOff)
             \cup RenderSection(a, "data", SegOff + SizeOf(a, "text")),
   symtab |-> Symtab(a), size |-> ElfSize(a)]

\* What the reader takes from the file: entry, segment and the values of the symbols.
ReadElf(elf) ==
  [entry |-> elf.entry,
   segment |-> [off |-> elf.off, vaddr |-> elf.vaddr, filesz |-> elf.filesz,
                memsz |-> elf.memsz],
   symbols |-> [n \in {s.name : s \in elf.symtab} |->
                  (CHOOSE s \in elf.symtab : s.name = n).value]]

\* loadSegments: zeroes the span, then copies the bytes of the segment.
LoadSegments(elf, seg) ==
  [from |-> seg.vaddr, to |-> seg.vaddr + Max({seg.filesz, seg.memsz}),
   pieces |-> {[section |-> p.section, index |-> p.index, kind |-> p.kind, e |-> p.e, n |-> p.n,
                value |-> p.value, early |-> p.early, code |-> p.code,
                at |-> seg.vaddr + p.off - seg.off] :
               p \in {q \in elf.bytes : q.off >= seg.off /\ q.off + q.n <= seg.off + seg.filesz}}]

-----------------------------------------------------------------------------
(* The decoders of the processor.  A word is its upper 20 and lower 12 bits.  *)

Sext(x, bits) == IF x >= 2 ^ (bits - 1) THEN x - 2 ^ bits ELSE x
IImm(f) == Sext(f[1], 12)
SImm(f) == Sext(f[1] * 32 + f[2], 12)
BImm(f) == Sext(f[1] * 4096 + f[4] * 2048 + f[2] * 32 + f[3] * 2, 13)
JImm(f) == Sext(f[1] * 2 ^ 20 + f[4] * 4096 + f[3] * 2048 + f[2] * 2, 21)

Word(v) == <<(v \div 4096) % (2 ^ 20), v % 4096>>
Addi(w, i) == LET low == w[2] + i IN <<(w[1] + low \div 4096) % (2 ^ 20), low % 4096>>
Lui(f) == <<f[1], 0>>
Auipc(f, pc) == <<(Word(pc)[1] + f[1]) % (2 ^ 20), Word(pc)[2]>>
=============================================================================
