-------------------------------- MODULE Build --------------------------------
(***************************************************************************)
(* From source to machine: a program is assembled and loaded (tools/asm.js,   *)
(* tools/elf.js), its file is put in a disk image with others (tools/mkfs.js   *)
(* as tools/bundle.js calls it), and the kernel's BrFS mounts the image.        *)
(* Each action is one line of source, pass 2, the loader, or one file of the    *)
(* image.  The source is any sequence of the lines its scenario allows.         *)
(***************************************************************************)
EXTENDS Asm, Mkfs

CONSTANTS Scenarios,   \* the lines and files of a behaviour, and how many
          UnitBytes,   \* bytes of a unit of the image: 32, scaled
          Hole

(* The lines of source and what they may hold.                               *)
SourceLines == UNION {s.source : s \in Scenarios}
WithExpression == {l \in SourceLines : l.op \in {"equ", "value", "li", "la", "inst"}}
Expressions == {Literal(0)} \cup {l.e : l \in WithExpression}
Instructions == {"i", "s", "b", "j", "u", "nop"}

ASSUME BuildAssumption ==
  /\ UnitBytes \in Nat \ {0}
  /\ \A s \in Scenarios : s.base \in Nat /\ s.lines \in Nat /\ \A f \in s.files : f.size \in Nat

ASSUME LinesAssumption ==
  /\ \A e \in Expressions : e.k \in Int
  /\ \A l \in SourceLines :
       /\ l.op \in {"label", "section", "equ", "bytes", "value", "align", "li", "la", "inst"}
       /\ l.op = "section" => l.name \in Sections
       /\ l.op \in {"bytes", "align"} => l.n \in Int
       /\ l.op = "value" => l.n \in {1, 4}
       /\ l.op = "inst" => l.kind \in Instructions

VARIABLES stage,       \* "lines", "elf", "loaded", "files", "image" or "thrown"
          scenario, a, elf, mem, d,
          added        \* history: the files the image was given

vars == <<stage, scenario, a, elf, mem, d, added>>

NoElf == [size |-> 0]
NoMem == [pieces |-> {}]
NoDisk == [failed |-> FALSE]

-----------------------------------------------------------------------------
(* assemble: the lines one by one, then pass 2.                              *)

Source(l) ==
  CASE l.op = "label" -> Label(a, l.name)
    [] l.op = "section" -> Section(a, l.name)
    [] l.op = "equ" -> Equ(a, l.name, l.e)
    [] l.op = "bytes" -> Bytes(a, l.n)
    [] l.op = "value" -> Values(a, l.n, l.e)
    [] l.op = "align" -> Align(a, l.n)
    [] l.op = "li" -> Li(a, l.e)
    [] l.op = "la" -> La(a, l.e)
    [] l.op = "inst" -> Inst(a, l.kind, l.e)

Lines(sections) == Cardinality(DOMAIN a.symbols) + Len(sections["text"].items)
                   + Len(sections["data"].items) + Len(sections["bss"].items)

\* A line that throws ends the build.
Line(l) ==
  /\ stage = "lines"
  /\ Lines(a.sections) < scenario.lines
  /\ a' = Source(l)
  /\ stage' = IF a'.failed THEN "thrown" ELSE "lines"
  /\ UNCHANGED <<scenario, elf, mem, d, added>>

Pass2 ==
  /\ stage = "lines"
  /\ IF Assembles(a) THEN stage' = "elf" /\ elf' = BuildElf(a)
                     ELSE stage' = "thrown" /\ UNCHANGED elf
  /\ UNCHANGED <<scenario, a, mem, d, added>>

Load ==
  /\ stage = "elf"
  /\ stage' = "loaded" /\ mem' = LoadSegments(elf, ReadElf(elf).segment)
  /\ UNCHANGED <<scenario, a, elf, d, added>>

-----------------------------------------------------------------------------
(* formatDisk: the program first, then what else the scenario has.            *)

Program == [name |-> "sh", contents |-> "sh", dir |-> FALSE,
            size |-> (elf.size + UnitBytes - 1) \div UnitBytes]

Grown(next, f) ==
  /\ d' = next
  /\ added' = Append(added, f)
  /\ stage' = IF next.failed THEN "thrown" ELSE "files"

\* assemble has returned: its variables are gone.
Format ==
  /\ stage = "loaded" /\ scenario.files # {}
  /\ Grown(AddFile(MakeRoot, Program), Program)
  /\ a' = Begin(a.base) /\ elf' = NoElf /\ mem' = NoMem
  /\ UNCHANGED scenario

Add(f) ==
  /\ stage = "files"
  /\ Grown(IF f.dir THEN AddDir(d, f.name) ELSE AddFile(d, f), f)
  /\ UNCHANGED <<scenario, a, elf, mem>>

Finish ==
  /\ stage = "files"
  /\ stage' = "image" /\ d' = Close(d)
  /\ UNCHANGED <<scenario, a, elf, mem, added>>

Init ==
  /\ scenario \in Scenarios
  /\ stage = "lines" /\ a = Begin(scenario.base)
  /\ elf = NoElf /\ mem = NoMem /\ d = NoDisk /\ added = <<>>

Next ==
  \/ \E l \in scenario.source : Line(l)
  \/ Pass2 \/ Load \/ Format \/ Finish
  \/ \E f \in scenario.files : Add(f)

Spec == Init /\ [][Next]_vars

-----------------------------------------------------------------------------
(* What must hold.                                                           *)

\* Where the first i items of a section end.
EndOf(row, i) == IF i = 0 THEN 0 ELSE row[i].offset + row[i].n

(* Sections are gapless rows of what was emitted, counted exactly, and the    *)
(* builder numbers inodes and blocks in order (pass 1 of assemble and          *)
(* BrfsBuilder keep these counters by hand).                                  *)
TypeOK ==
  /\ stage \in {"lines", "elf", "loaded", "files", "image", "thrown"}
  /\ a.failed \in BOOLEAN /\ a.cur \in Sections
  /\ \A s \in Sections :
       LET row == Items(a, s)
       IN /\ \A i \in DOMAIN row : row[i].offset = EndOf(row, i - 1) /\ row[i].n \in Nat
          /\ SizeOf(a, s) = EndOf(row, Len(row))
  /\ stage \in {"files", "image"} =>
       /\ d.nextFreeBlock \in FirstData .. TotalBlocks
       /\ Len(d.inodes) \in 1 .. NInodes /\ Len(added) = Len(d.inodes) - 1

(* What the source says: a label is the place in memory of what follows it.   *)
Marked(s) == {p \in mem.pieces : p.section = s.section /\ p.index = s.mark}
Place(name) ==
  LET s == a.symbols[name]
  IN IF s.kind = "const" \/ Marked(s) = {} THEN Resolved(a)[name].value.v
     ELSE (CHOOSE p \in Marked(s) : TRUE).at
Says(e) == IF e.sym = "" THEN e.k ELSE Place(e.sym) + e.k

After(p) == CHOOSE q \in mem.pieces : q.section = p.section /\ q.index = p.index + 1

\* What the processor makes of a piece, or the pair it begins, is what is said.
Obeys(p) ==
  CASE p.kind = "b" -> p.at + BImm(p.code) = Says(p.e)
    [] p.kind = "j" -> p.at + JImm(p.code) = Says(p.e)
    [] p.kind \in {"i", "li"} -> IImm(p.code) = Says(p.e)
    [] p.kind = "s" -> SImm(p.code) = Says(p.e)
    [] p.kind = "u" -> Says(p.e) \in 0 .. 2 ^ 20 - 1 => p.code = <<Says(p.e)>>
    [] p.kind = "li_hi" -> Addi(Lui(p.code), IImm(After(p).code)) = Word(Says(p.e))
    [] p.kind = "pcrel_hi" ->
         Addi(Auipc(p.code, p.at), IImm(After(p).code)) = Word(Says(p.e))
    [] p.kind = "value" -> p.value % 256 = Says(p.e) % 256
    [] OTHER -> TRUE

\* Values computed in pass 1 from a label, and what is named after one, are not.
Known(p) == ~p.early /\ ~(p.e.sym # "" /\ a.symbols[p.e.sym].early)

(* A program loaded in memory does what its source says: branches and jumps    *)
(* reach the place their label stands at, la and li build its address or the    *)
(* number whatever the carry between their halves, immediates come back with     *)
(* their sign.  For .text of whole words and expressions that do not compute      *)
(* with a label in pass 1 (asm.js evaluates those to 0).                        *)
ProgramMeansSource ==
  stage = "loaded" /\ SizeOf(a, "text") % 4 = 0 =>
    \A p \in mem.pieces :
      Known(p) /\ (p.section = "text" \/ p.kind = "value") => Obeys(p)

(* The one segment holds the program: its pieces do not overlap and lie in it,  *)
(* every label of the symbol table is where the code thinks it is, and .bss is   *)
(* zeroed memory that nothing else uses.  Sections that are not whole words       *)
(* shift what follows by less than a word; the last bytes of .bss can then lie    *)
(* that far beyond the segment.                                                 *)
Slack(s) == AlignUp(SizeOf(a, s), 4) - SizeOf(a, s)
SegmentHoldsSections ==
  stage = "loaded" =>
    LET bss == Bases(a).bss
    IN /\ \A p, q \in mem.pieces :
            p # q => p.at + p.n <= q.at \/ q.at + q.n <= p.at
       /\ \A p \in mem.pieces : p.at >= mem.from /\ p.at + p.n <= bss
       /\ bss + SizeOf(a, "bss") = mem.to + Slack("text") + Slack("data")
       /\ \A n \in Labels(a) :
            LET s == a.symbols[n]
            IN Resolved(a)[n].value.v - ReadElf(elf).symbols[n]
                 = IF s.section = "bss" THEN Slack("data") ELSE 0
       /\ "_start" \in Labels(a) =>
            \/ Slack("text") # 0 \/ a.symbols["_start"].section = "bss"
            \/ ReadElf(elf).entry = Place("_start")
       /\ \A n \in Labels(a) :
            Slack("text") = 0 \/ a.symbols[n].section = "text"
              => Place(n) = Resolved(a)[n].value.v

(* The image as BrFS finds it when it mounts it.                              *)
Image == d.disk
Mounted(b) == IF b = 0 THEN 0 ELSE b - (FirstData - 1)
Inodes ==
  [i \in 0 .. NInodes - 1 |->
     IF stage = "image" /\ i < Len(Image.table)
     THEN [type |-> Image.table[i + 1].type, size |-> Image.table[i + 1].size,
           direct |-> [k \in DOMAIN NoPointers |-> Mounted(Image.table[i + 1].direct[k])]]
     ELSE [type |-> 0, size |-> 0, direct |-> NoPointers]]

Names == {"sh"} \cup {f.name : f \in UNION {s.files : s \in Scenarios}}
Contents == {"sh"} \cup {f.contents : f \in UNION {s.files : s \in Scenarios}}
Units == {Unit(c, x) : c \in Contents, x \in 0 .. MaxDirect * UnitsPerBlock}

F == INSTANCE BrFS WITH
  NBlocks <- TotalBlocks - FirstData,
  Name <- Names,
  Value <- Units,
  Offsets <- {}, Lengths <- {}, Tails <- {},
  bitmap <- [b \in 1 .. TotalBlocks - FirstData |-> b + FirstData - 1 \in Image.bitmap],
  fs_free_blocks <- Image.superblock.free,
  inodes <- Inodes,
  blocks <- [b \in 1 .. TotalBlocks - FirstData |-> Image.data[b + FirstData - 1]],
  fs_inode_buf <- [type |-> 0, size |-> 0, direct |-> NoPointers],
  ret <- 0,
  damaged <- FALSE

(* An image of files that fit their pointers is a file system the kernel's      *)
(* BrFS could have made itself: its invariants hold, nothing is leaked or         *)
(* nameless, the files are under their names and read back unit for unit.         *)
ImageSound ==
  stage = "image" /\ (\A j \in DOMAIN added : added[j].size <= MaxDirect * UnitsPerBlock) =>
    /\ F!TypeOK /\ F!BlocksHaveOneOwner /\ F!FreeCountMatchesBitmap
    /\ F!DirectoriesHoldEntries /\ F!EntriesNameOnce
    /\ F!Leaked = {} /\ F!Orphans = {}
    /\ F!NamesIn(0) = {<<added[j].name, j>> : j \in DOMAIN added}
    /\ \A j \in DOMAIN added : \A x \in 0 .. added[j].size - 1 :
         ~added[j].dir => F!Text(j)[x] = Unit(added[j].contents, x)
=============================================================================
