------------------------------ MODULE Devices -------------------------------
(***************************************************************************)
(* The bus of tools/mem.js and the devices of tools/devices.js, as operators *)
(* on the state m of a machine: its RAM, the UART, the block device and the   *)
(* BrowGPU.                                                                 *)
(*                                                                          *)
(* What is abstracted: memory is counted in words and a sector is             *)
(* SectorWords of them; the UART registers that only store a value (IER, LCR,  *)
(* MCR, SCR) and the identification registers of the GPU are left out; a pixel *)
(* is any value, and a picture a compute kernel draws is Art in every pixel.   *)
(* A machine that has thrown a RangeError has m.thrown set: the operations     *)
(* that follow in the same JavaScript call do not happen.                     *)
(***************************************************************************)
EXTENDS Sequences, SequencesExt, Loops

CONSTANTS RamWords,       \* words of RAM
          Windows,        \* word addresses of devices that have no write8
          Sectors, SectorWords,
          FbWidth, FbHeight,  \* the screen at boot
          MaxPixels,      \* the largest framebuffer the host can allocate
          PresentMax,     \* pixels copied to the guest on present: 320 * 240
          Art

ASSUME DevicesAssumption ==
  /\ RamWords \in Nat \ {0} /\ Sectors \in Nat \ {0} /\ SectorWords \in Nat \ {0}
  /\ FbWidth \in Nat \ {0} /\ FbHeight \in Nat \ {0}
  /\ MaxPixels \in Nat /\ FbWidth * FbHeight <= MaxPixels
  /\ PresentMax \in Nat /\ Art \in Int

Ram == [0 .. RamWords - 1 -> Int]
Disk == [0 .. Sectors * SectorWords - 1 -> Int]
Blk == [status : 0 .. 3, sector : Nat, dma : Nat]
Gpu == [status : 1 .. 2, w : Nat, h : Nat, fbAddr : Nat, cmd : Nat, len : Nat,
        fb : Seq(Int)]
Machines == [ram : Ram, rx : Seq(Nat), disk : Disk, blk : Blk, gpu : Gpu,
             thrown : BOOLEAN, halted : BOOLEAN]

Machine(ram, disk) ==
  [ram |-> ram, rx |-> <<>>, disk |-> disk,
   blk |-> [status |-> 0, sector |-> 0, dma |-> 0],
   gpu |-> [status |-> 1, w |-> FbWidth, h |-> FbHeight, fbAddr |-> 0, cmd |-> 0,
            len |-> 0, fb |-> [i \in 1 .. FbWidth * FbHeight |-> 0]],
   thrown |-> FALSE, halted |-> FALSE]

Below(a, b) == IF a < b THEN a ELSE b
Above(a, b) == IF a > b THEN a ELSE b

-----------------------------------------------------------------------------
(* The bus: a device window shadows RAM, and an access outside both throws.  *)

InRam(a) == a \in 0 .. RamWords - 1 /\ a \notin Windows

BusWrite(m, a, v) ==
  IF m.thrown \/ a \in Windows THEN m
  ELSE IF InRam(a) THEN [m EXCEPT !.ram[a] = v] ELSE [m EXCEPT !.thrown = TRUE]

\* What a read yields where it does not throw; a device register reads as 0.
BusRead(m, a) == IF InRam(a) THEN m.ram[a] ELSE 0
Throws(a) == ~InRam(a) /\ a \notin Windows
Faulted(m, a) == [m EXCEPT !.thrown = @ \/ Throws(a)]

-----------------------------------------------------------------------------
(* The UART.                                                                *)

PushRx(m, bytes) == [m EXCEPT !.rx = @ \o bytes]

\* Mutant: the byte read last comes first.
PopRxNewest(m) == IF m.rx = <<>> THEN m ELSE [m EXCEPT !.rx = Front(@)]

\* Reading RBR takes the oldest byte.
PopRx(m) == IF m.rx = <<>> THEN m ELSE [m EXCEPT !.rx = Tail(@)]

ClearRx(m) == [m EXCEPT !.rx = <<>>]

-----------------------------------------------------------------------------
(* The block device.  A command runs to its end inside the store that starts  *)
(* it, word by word.                                                        *)

\* Mutant: the sector number is not scaled.
ReadWordUnscaled(m, i) ==
  BusWrite(m, m.blk.dma + i, m.disk[m.blk.sector + i])

ReadWord(m, i) ==
  BusWrite(m, m.blk.dma + i, m.disk[m.blk.sector * SectorWords + i])

WriteWord(m, i) ==
  LET f == Faulted(m, m.blk.dma + i)
  IN  IF f.thrown THEN f
      ELSE [m EXCEPT !.disk[m.blk.sector * SectorWords + i] = BusRead(m, m.blk.dma + i)]

\* The status a transfer leaves: busy for ever if it threw.
Moved(m) == IF m.thrown THEN m ELSE [m EXCEPT !.blk.status = 2]

Transfer(m, cmd) ==
  LET word(n, i) == IF cmd = 1 THEN ReadWord(n, i) ELSE WriteWord(n, i)
  IN  Moved(Loop(word, [m EXCEPT !.blk.status = 1], SectorWords))

BlkExec(m, cmd) ==
  IF m.blk.sector >= Sectors THEN [m EXCEPT !.blk.status = 3]
  ELSE IF cmd \in {1, 2} THEN Transfer(m, cmd)
  ELSE [m EXCEPT !.blk.status = 3]

-----------------------------------------------------------------------------
(* The GPU.                                                                 *)

\* A framebuffer the host cannot allocate is a RangeError that leaves the new
\* width or height beside the old framebuffer.
Resized(m) ==
  LET n == m.gpu.w * m.gpu.h
  IN  IF Len(m.gpu.fb) = n THEN m
      ELSE IF n > MaxPixels THEN [m EXCEPT !.thrown = TRUE]
           ELSE [m EXCEPT !.gpu.fb = [i \in 1 .. n |-> 0]]

Present(m) ==
  LET copy(n, i) == BusWrite(n, n.gpu.fbAddr + i, n.gpu.fb[i + 1])
  IN  IF m.gpu.fbAddr = 0 THEN m
      ELSE Loop(copy, m, Below(Len(m.gpu.fb), PresentMax))

\* The pixels of columns xs and rows ys; one outside the framebuffer is not stored
\* (a typed array ignores it).
Pixels(m, xs, ys, c) ==
  [m EXCEPT !.gpu.fb =
     [i \in 1 .. Len(@) |->
        IF (i - 1) % m.gpu.w \in xs /\ (i - 1) \div m.gpu.w \in ys THEN c ELSE @[i]]]

\* Mutant: the far edge is drawn too.
DrawRectWide(m, x, y, w, h, c) ==
  Pixels(m, x .. x + w, y .. y + h - 1, c)

\* _drawRect: the part of the rectangle that lies on the screen.
DrawRect(m, x, y, w, h, c) ==
  Pixels(m, Above(0, x) .. Below(m.gpu.w, x + w) - 1,
            Above(0, y) .. Below(m.gpu.h, y + h) - 1, c)

\* One pixel of _blit, the i-th of the source; those off the screen are not read.
BlitPixel(m, i, src, x, y, w) ==
  LET px == x + (i % w)
      py == y + (i \div w)
      f == Faulted(m, src + i)
  IN  IF px \notin 0 .. m.gpu.w - 1 \/ py \notin 0 .. m.gpu.h - 1 THEN m
      ELSE IF f.thrown THEN f
           ELSE [m EXCEPT !.gpu.fb =
                   [@ EXCEPT ![py * m.gpu.w + px + 1] = BusRead(m, src + i)]]

Blit(m, src, x, y, w, h) ==
  LET pixel(n, i) == IF n.thrown THEN n ELSE BlitPixel(n, i, src, x, y, w)
  IN  Loop(pixel, m, Above(0, w) * Above(0, h))

FillAll(m, c) == [m EXCEPT !.gpu.fb = [i \in 1 .. Len(@) |-> c]]

DispatchCompute(m, kernel) == IF kernel \in {1, 2} THEN FillAll(m, Art) ELSE m

\* The words a command takes beside its opcode.
Operands == <<1, 5, 5, 4, 0>>

\* One command of the buffer: d is the machine, the offset in words, and
\* whether the loop goes on.  Operands past the end of the buffer are read.
Command(d) ==
  LET m == d.m
      a == m.gpu.cmd + d.at
      op == BusRead(m, a)
      p(i) == BusRead(m, a + i)
      n == IF op \in DOMAIN Operands THEN Operands[op] ELSE 0
      after == CASE op = 1 -> FillAll(m, p(1))
                 [] op = 2 -> DrawRect(m, p(1), p(2), p(3), p(4), p(5))
                 [] op = 3 -> Blit(m, p(1), p(2), p(3), p(4), p(5))
                 [] op = 4 -> DispatchCompute(m, p(1))
                 [] op = 5 -> Present(m)
                 [] OTHER -> m
  IN  IF \E i \in 0 .. n : Throws(a + i)
      THEN [d EXCEPT !.m.thrown = TRUE, !.on = FALSE]
      ELSE [m |-> after, at |-> d.at + 1 + n,
            on |-> op \in DOMAIN Operands /\ ~after.thrown]

\* _execCommandBuffer: at most one command a word.
Submit(m) ==
  IF m.gpu.len < 1 THEN m
  ELSE LET next(d, i) == IF d.on /\ d.at < m.gpu.len THEN Command(d) ELSE d
           start == [m |-> [m EXCEPT !.gpu.status = 2], at |-> 0, on |-> TRUE]
           end == Loop(next, start, m.gpu.len)
       IN  IF end.m.thrown THEN end.m ELSE [end.m EXCEPT !.gpu.status = 1]

Registers == {"fcr", "sector", "dma", "command", "width", "height", "fbAddr", "cmdAddr",
              "cmdLen", "submit", "present"}

\* Bit 1 of FCR clears the FIFO.
Clears(r, v) == r = "fcr" /\ v % 4 \in {2, 3}

\* A store to a device register.
StoreReg(m, r, v) ==
  CASE r = "fcr"     -> IF Clears(r, v) THEN ClearRx(m) ELSE m
    [] r = "sector"  -> [m EXCEPT !.blk.sector = v]
    [] r = "dma"     -> [m EXCEPT !.blk.dma = v]
    [] r = "command" -> BlkExec(m, v)
    [] r = "width"   -> Resized([m EXCEPT !.gpu.w = v])
    [] r = "height"  -> Resized([m EXCEPT !.gpu.h = v])
    [] r = "fbAddr"  -> [m EXCEPT !.gpu.fbAddr = v]
    [] r = "cmdAddr" -> [m EXCEPT !.gpu.cmd = v]
    [] r = "cmdLen"  -> [m EXCEPT !.gpu.len = v]
    [] r = "submit"  -> IF v = 1 THEN Submit(m) ELSE m
    [] r = "present" -> IF v = 1 THEN Present(m) ELSE m

\* The framebuffer has the size of the registers unless the host could not
\* allocate it.
MachineType(m) ==
  /\ m \in Machines
  /\ m.gpu.w * m.gpu.h <= MaxPixels => Len(m.gpu.fb) = m.gpu.w * m.gpu.h
  /\ Len(m.gpu.fb) <= MaxPixels
=============================================================================
