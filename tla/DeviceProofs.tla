---------------------------- MODULE DeviceProofs ----------------------------
(* Lemmas about the machine of Devices, for every size of memory, disk and     *)
(* framebuffer: its operations keep its type, a transfer moves its words and   *)
(* the GPU draws where it is told.                                          *)
EXTENDS Devices, LoopTheorems, SequenceTheorems

\* What no access but a store to its register changes: the bytes received, the
\* block to transfer, the size of the screen and of the framebuffer.
Alike(m0) ==
  {n \in Machines :
     /\ n.rx = m0.rx /\ n.blk.sector = m0.blk.sector /\ n.blk.dma = m0.blk.dma
     /\ n.gpu.w = m0.gpu.w /\ n.gpu.h = m0.gpu.h /\ Len(n.gpu.fb) = Len(m0.gpu.fb)}

LEMMA Fields ==
  ASSUME NEW n \in Machines
  PROVE  /\ n.ram \in Ram /\ n.rx \in Seq(Nat) /\ n.disk \in Disk /\ n.blk \in Blk
         /\ n.gpu \in Gpu /\ n.thrown \in BOOLEAN /\ n.halted \in BOOLEAN
         /\ n.blk.sector \in Nat /\ n.blk.dma \in Nat
         /\ n.gpu.w \in Nat /\ n.gpu.h \in Nat /\ n.gpu.fbAddr \in Nat
         /\ n.gpu.cmd \in Nat /\ n.gpu.len \in Nat /\ n.gpu.fb \in Seq(Int)
         /\ Len(n.gpu.fb) \in Nat
<1>1. n.gpu \in Gpu /\ n.blk \in Blk
  BY DEF Machines
<1>2. n.gpu.fb \in Seq(Int)
  BY <1>1 DEF Gpu
<1> QED
  BY <1>1, <1>2 DEF Machines, Gpu, Blk

LEMMA AlikeTrans ==
  ASSUME NEW m0 \in Machines, NEW n \in Alike(m0), NEW u \in Alike(n)
  PROVE  u \in Alike(m0)
BY DEF Alike

LEMMA AlikeSelf ==
  ASSUME NEW m0 \in Machines
  PROVE  m0 \in Alike(m0)
BY DEF Alike

LEMMA AlikeType ==
  ASSUME NEW m0, MachineType(m0), NEW n \in Alike(m0)
  PROVE  MachineType(n) /\ n.rx = m0.rx
BY DEF MachineType, Alike

\* Changes that leave a machine alike.
LEMMA Thrown ==
  ASSUME NEW n \in Machines, NEW x \in BOOLEAN
  PROVE  [n EXCEPT !.thrown = x] \in Alike(n)
BY DEF Alike, Machines

LEMMA Halted ==
  ASSUME NEW n \in Machines, NEW x \in BOOLEAN
  PROVE  [n EXCEPT !.halted = x] \in Alike(n)
BY DEF Alike, Machines

LEMMA RamSet ==
  ASSUME NEW n \in Machines, NEW x \in Ram
  PROVE  [n EXCEPT !.ram = x] \in Alike(n)
BY DEF Alike, Machines

LEMMA DiskSet ==
  ASSUME NEW n \in Machines, NEW x \in Disk
  PROVE  [n EXCEPT !.disk = x] \in Alike(n)
BY DEF Alike, Machines

LEMMA BlkStatus ==
  ASSUME NEW n \in Machines, NEW x \in 0 .. 3
  PROVE  [n EXCEPT !.blk.status = x] \in Alike(n)
BY DEF Alike, Machines, Blk

LEMMA GpuStatus ==
  ASSUME NEW n \in Machines, NEW x \in 1 .. 2
  PROVE  [n EXCEPT !.gpu.status = x] \in Alike(n)
<1> DEFINE g == [n.gpu EXCEPT !.status = x]
<1>1. g \in Gpu /\ g.w = n.gpu.w /\ g.h = n.gpu.h /\ g.fb = n.gpu.fb
  BY Fields DEF Gpu
<1>2. [n EXCEPT !.gpu.status = x] = [n EXCEPT !.gpu = g]
  OBVIOUS
<1> HIDE DEF g
<1>3. [n EXCEPT !.gpu = g] \in Machines
  BY <1>1 DEF Machines
<1>4. [n EXCEPT !.gpu = g].gpu = g
  BY DEF Machines
<1> QED
  BY <1>1, <1>2, <1>3, <1>4 DEF Alike, Machines

LEMMA FbSet ==
  ASSUME NEW n \in Machines, NEW x \in Seq(Int), Len(x) = Len(n.gpu.fb)
  PROVE  [n EXCEPT !.gpu.fb = x] \in Alike(n)
<1> DEFINE g == [n.gpu EXCEPT !.fb = x]
<1>1. g \in Gpu /\ g.w = n.gpu.w /\ g.h = n.gpu.h /\ g.fb = x
  BY Fields DEF Gpu
<1>2. [n EXCEPT !.gpu.fb = x] = [n EXCEPT !.gpu = g]
  OBVIOUS
<1> HIDE DEF g
<1>3. [n EXCEPT !.gpu = g] \in Machines
  BY <1>1 DEF Machines
<1>4. [n EXCEPT !.gpu = g].gpu = g
  BY DEF Machines
<1> QED
  BY <1>1, <1>2, <1>3, <1>4 DEF Alike, Machines

LEMMA BusWriteAlike ==
  ASSUME NEW n \in Machines, NEW a \in Int, NEW v \in Int
  PROVE  BusWrite(n, a, v) \in Alike(n)
<1>1. CASE n.thrown \/ a \in Windows
  BY <1>1, AlikeSelf DEF BusWrite
<1>2. CASE ~(n.thrown \/ a \in Windows) /\ InRam(a)
  <2> DEFINE x == [n.ram EXCEPT ![a] = v]
  <2>1. x \in Ram
    BY Fields DEF Ram
  <2>2. BusWrite(n, a, v) = [n EXCEPT !.ram = x]
    BY <1>2 DEF BusWrite
  <2> HIDE DEF x
  <2> QED
    BY <2>1, <2>2, RamSet
<1>3. CASE ~(n.thrown \/ a \in Windows) /\ ~InRam(a)
  BY <1>3, Thrown DEF BusWrite
<1> QED
  BY <1>1, <1>2, <1>3

LEMMA BusReadType ==
  ASSUME NEW n \in Machines, NEW a \in Int
  PROVE  BusRead(n, a) \in Int
<1>1. CASE InRam(a)
  <2>1. n.ram \in Ram /\ a \in 0 .. RamWords - 1
    BY <1>1, Fields DEF InRam
  <2> QED
    BY <1>1, <2>1 DEF BusRead, Ram
<1>2. CASE ~InRam(a)
  BY <1>2 DEF BusRead
<1> QED
  BY <1>1, <1>2

LEMMA FaultedAlike ==
  ASSUME NEW n \in Machines, NEW a
  PROVE  Faulted(n, a) \in Alike(n)
<1>1. (n.thrown \/ Throws(a)) \in BOOLEAN
  BY DEF Throws
<1>2. Faulted(n, a) = [n EXCEPT !.thrown = n.thrown \/ Throws(a)]
  BY DEF Faulted
<1> QED
  BY <1>1, <1>2, Thrown, Zenon

\* Changing one element of a framebuffer, inside or outside it.
LEMMA FbExcept ==
  ASSUME NEW f \in Seq(Int), NEW k, NEW v \in Int
  PROVE  [f EXCEPT ![k] = v] \in Seq(Int) /\ Len([f EXCEPT ![k] = v]) = Len(f)
<1>1. CASE k \in 1 .. Len(f)
  BY <1>1, ExceptSeq
<1>2. CASE k \notin 1 .. Len(f)
  <2>1. f \in [1 .. Len(f) -> Int]
    BY LenProperties
  <2>2. [f EXCEPT ![k] = v] = f
    BY <1>2, <2>1
  <2> QED
    BY <2>2
<1> QED
  BY <1>1, <1>2

\* A framebuffer that a function fills.
LEMMA FbFill ==
  ASSUME NEW k \in Nat, NEW f \in [1 .. k -> Int]
  PROVE  f \in Seq(Int) /\ Len(f) = k
OBVIOUS
-----------------------------------------------------------------------------
(* The block device.                                                        *)

\* The words of a sector that exists are on the disk, and no two of them are one.
LEMMA SectorWord ==
  ASSUME NEW b \in Nat, b < Sectors, NEW i \in 0 .. SectorWords - 1
  PROVE  b * SectorWords + i \in 0 .. Sectors * SectorWords - 1
<1>1. Sectors \in Nat /\ SectorWords \in Nat
  BY DevicesAssumption
<1>2. \A s, w \in Nat : b < s => b * w + w <= s * w
  <2> SUFFICES ASSUME NEW s \in Nat, NEW w \in Nat, b < s PROVE b * w + w <= s * w
    OBVIOUS
  <2>1. (s - b - 1) * w >= 0
    BY SMT
  <2>2. (s - b - 1) * w = s * w - b * w - w
    BY SMT
  <2>3. s * w \in Int /\ b * w \in Int
    BY SMT
  <2> QED
    BY <2>1, <2>2, <2>3
<1>3. b * SectorWords + SectorWords <= Sectors * SectorWords
  BY <1>1, <1>2
<1>4. b * SectorWords \in Nat /\ Sectors * SectorWords \in Nat
  BY <1>1
<1> QED
  BY <1>1, <1>3, <1>4

LEMMA ReadWordAlike ==
  ASSUME NEW n \in Machines, n.blk.sector < Sectors, NEW i \in 0 .. SectorWords - 1
  PROVE  ReadWord(n, i) \in Alike(n)
<1>1. n.disk[n.blk.sector * SectorWords + i] \in Int
  <2>1. n.disk \in Disk /\ n.blk.sector \in Nat
    BY Fields
  <2>2. n.blk.sector * SectorWords + i \in 0 .. Sectors * SectorWords - 1
    BY <2>1, SectorWord
  <2> QED
    BY <2>1, <2>2 DEF Disk
<1>2. n.blk.dma + i \in Int
  BY Fields
<1> QED
  BY <1>1, <1>2, BusWriteAlike DEF ReadWord

LEMMA WriteWordAlike ==
  ASSUME NEW n \in Machines, n.blk.sector < Sectors, NEW i \in 0 .. SectorWords - 1
  PROVE  WriteWord(n, i) \in Alike(n)
<1> DEFINE f == Faulted(n, n.blk.dma + i)
           v == BusRead(n, n.blk.dma + i)
           x == [n.disk EXCEPT ![n.blk.sector * SectorWords + i] = v]
<1>1. CASE f.thrown
  BY <1>1, FaultedAlike DEF WriteWord
<1>2. CASE ~f.thrown
  <2>1. WriteWord(n, i) = [n EXCEPT !.disk = x]
    BY <1>2 DEF WriteWord
  <2>2. v \in Int
    BY Fields, BusReadType, SMTT(30)
  <2>3. x \in Disk
    <3> HIDE DEF v
    <3> QED
      BY <2>2, Fields DEF Disk
  <2> HIDE DEF x
  <2> QED
    BY <2>1, <2>3, DiskSet
<1> QED
  BY <1>1, <1>2
\* A word leaves the device as it is.
LEMMA WordBlk ==
  ASSUME NEW n \in Machines, NEW i
  PROVE  ReadWord(n, i).blk = n.blk /\ WriteWord(n, i).blk = n.blk
<1>1. ReadWord(n, i).blk = n.blk
  BY DEF ReadWord, BusWrite, Machines
<1>2. WriteWord(n, i).blk = n.blk
  BY DEF WriteWord, Faulted, Machines
<1> QED
  BY <1>1, <1>2

\* A transfer is a run over the words of the sector, the device being busy.
Busy(m0) == {n \in Alike(m0) : n.blk.status = 1}
Passes(m0, cmd) ==
  {g \in [0 .. SectorWords -> Busy(m0)] :
     /\ g[0] = [m0 EXCEPT !.blk.status = 1]
     /\ \A k \in 0 .. SectorWords - 1 :
          g[k + 1] = IF cmd = 1 THEN ReadWord(g[k], k) ELSE WriteWord(g[k], k)}

LEMMA TransferRuns ==
  ASSUME NEW m0 \in Machines, m0.blk.sector < Sectors, NEW cmd
  PROVE  \E g \in Passes(m0, cmd) : Transfer(m0, cmd) = Moved(g[SectorWords])
<1> DEFINE n == SectorWords
           b == [m0 EXCEPT !.blk.status = 1]
           S == Busy(m0)
           step(u, i) == IF cmd = 1 THEN ReadWord(u, i) ELSE WriteWord(u, i)
           F == [i \in Nat |-> [u \in S |-> IF i < n THEN step(u, i) ELSE u]]
           Is(f) == f = [k \in 0 .. n |-> IF k = 0 THEN b ELSE step(f[k - 1], k - 1)]
           after == CHOOSE f : Is(f)
<1>1. b \in S /\ n \in Nat
  <2>1. [m0 EXCEPT !.blk.status = 1].blk.status = 1
    BY Fields DEF Machines, Blk
  <2> QED
    BY <2>1, BlkStatus, DevicesAssumption, 1 \in 0 .. 3 DEF Busy
<1>2. \A u \in S, i \in 0 .. n - 1 : step(u, i) \in S
  <2> SUFFICES ASSUME NEW u \in S, NEW i \in 0 .. n - 1 PROVE step(u, i) \in S
    OBVIOUS
  <2>1. u \in Machines /\ u.blk.sector < Sectors
    BY DEF Alike, Busy
  <2>2. step(u, i) \in Alike(u) /\ step(u, i).blk = u.blk
    BY <2>1, ReadWordAlike, WriteWordAlike, WordBlk
  <2> HIDE DEF step
  <2> QED
    BY <2>2, AlikeTrans DEF Busy
<1>3. F \in [Nat -> [S -> S]]
  <2> HIDE DEF step, S, n
  <2> QED
    BY <1>1, <1>2
<1>4. PICK g : g \in Runs(S, F, b, n)
  <2> HIDE DEF F, n, b, S
  <2> QED
    BY <1>1, <1>3, RunsExist
<1>5. Is(g)
  <2> HIDE DEF step, n, b, S
  <2>1. ASSUME NEW k \in 1 .. n PROVE g[k] = step(g[k - 1], k - 1)
    <3>1. k - 1 \in 0 .. n - 1 /\ (k - 1) + 1 = k /\ k - 1 < n
      BY <1>1
    <3>2. g[k] = F[k - 1][g[k - 1]] /\ g[k - 1] \in S
      <4> HIDE DEF F
      <4> QED
        BY <1>1, <1>4, <3>1 DEF Runs
    <3> QED
      BY <3>1, <3>2
  <2>2. g \in [0 .. n -> S] /\ g[0] = b
    BY <1>4 DEF Runs
  <2> QED
    BY <1>1, <2>1, <2>2
<1>6. Is(after)
  <2> HIDE DEF Is
  <2> QED
    BY <1>5
<1>7. Transfer(m0, cmd) = Moved(after[n])
  BY Zenon DEF Transfer, Loop
<1>8. /\ after \in [0 .. n -> S] /\ after[0] = b
      /\ \A k \in 0 .. n - 1 : after[k + 1] = step(after[k], k)
  <2> DEFINE T == {k \in 0 .. n : after[k] \in S}
  <2> HIDE DEF after, step, n, b, S
  <2>1. after[0] = b /\ \A k \in 1 .. n : after[k] = step(after[k - 1], k - 1)
    BY <1>1, <1>6
  <2>2. 0 \in T
    BY <1>1, <2>1
  <2>3. ASSUME NEW k \in 0 .. n - 1 PROVE after[k + 1] = step(after[k], k)
    <3>1. k + 1 \in 1 .. n /\ (k + 1) - 1 = k
      BY <1>1
    <3> QED
      BY <2>1, <3>1
  <2>4. ASSUME NEW k \in 0 .. n - 1, k \in T PROVE k + 1 \in T
    BY <1>1, <1>2, <2>3, <2>4
  <2>5. \A k \in 0 .. n : k \in T
    <3> HIDE DEF T
    <3> QED
      BY <1>1, <2>2, <2>4, Induct
  <2>6. DOMAIN after = 0 .. n /\ after = [k \in 0 .. n |-> after[k]]
    BY <1>6
  <2> QED
    BY <2>1, <2>3, <2>5, <2>6
<1> HIDE DEF after
<1>9. after \in Passes(m0, cmd)
  BY <1>8 DEF Passes
<1> QED
  BY <1>7, <1>9
LEMMA TransferAlike ==
  ASSUME NEW m0 \in Machines, m0.blk.sector < Sectors, NEW cmd
  PROVE  Transfer(m0, cmd) \in Alike(m0)
<1>1. PICK g \in Passes(m0, cmd) : Transfer(m0, cmd) = Moved(g[SectorWords])
  BY TransferRuns
<1> DEFINE n == g[SectorWords]
<1>2. n \in Alike(m0) /\ n \in Machines
  BY DevicesAssumption DEF Passes, Busy, Alike
<1>3. [n EXCEPT !.blk.status = 2] \in Alike(n)
  BY <1>2, BlkStatus, 2 \in 0 .. 3
<1> HIDE DEF n
<1>4. Moved(n) \in Alike(m0)
  BY <1>2, <1>3, AlikeTrans DEF Moved
<1> QED
  BY <1>1, <1>4 DEF n

\* One word of a transfer outside the device windows: u is what it makes of n.
WordRead(n, i, u) ==
  /\ u.disk = n.disk /\ u.blk = n.blk
  /\ ~u.thrown =>
       /\ ~n.thrown /\ n.blk.dma + i \in 0 .. RamWords - 1
       /\ u.ram = [n.ram EXCEPT ![n.blk.dma + i] = n.disk[n.blk.sector * SectorWords + i]]
WordWritten(n, i, u) ==
  /\ u.ram = n.ram /\ u.blk = n.blk
  /\ ~u.thrown =>
       /\ ~n.thrown /\ n.blk.dma + i \in 0 .. RamWords - 1
       /\ u.disk = [n.disk EXCEPT ![n.blk.sector * SectorWords + i] = n.ram[n.blk.dma + i]]

LEMMA ReadWordIs ==
  ASSUME NEW n \in Machines, n.blk.sector < Sectors, NEW i \in 0 .. SectorWords - 1,
         n.blk.dma + i \notin Windows
  PROVE  WordRead(n, i, ReadWord(n, i))
<1> DEFINE u == ReadWord(n, i)
           a == n.blk.dma + i
           v == n.disk[n.blk.sector * SectorWords + i]
<1> SUFFICES WordRead(n, i, u)
  OBVIOUS
<1>1. u = IF n.thrown THEN n
          ELSE IF InRam(a) THEN [n EXCEPT !.ram[a] = v] ELSE [n EXCEPT !.thrown = TRUE]
  BY DEF ReadWord, BusWrite
<1> HIDE DEF u, v
<1>2. CASE n.thrown
  BY <1>1, <1>2 DEF WordRead
<1>3. CASE ~n.thrown /\ InRam(a)
  <2> DEFINE x == [n.ram EXCEPT ![a] = v]
  <2>1. u = [n EXCEPT !.ram = x]
    BY <1>1, <1>3
  <2>2. a \in 0 .. RamWords - 1
    BY <1>3 DEF InRam
  <2> HIDE DEF x
  <2>3. u.disk = n.disk /\ u.blk = n.blk /\ u.ram = x
    BY <2>1 DEF Machines
  <2> QED
    BY <1>3, <2>2, <2>3 DEF WordRead, x, v
<1>4. CASE ~n.thrown /\ ~InRam(a)
  BY <1>1, <1>4 DEF WordRead, Machines
<1> QED
  BY <1>2, <1>3, <1>4

LEMMA WriteWordIs ==
  ASSUME NEW n \in Machines, n.blk.sector < Sectors, NEW i \in 0 .. SectorWords - 1,
         n.blk.dma + i \notin Windows
  PROVE  WordWritten(n, i, WriteWord(n, i))
<1> DEFINE u == WriteWord(n, i)
           a == n.blk.dma + i
           f == Faulted(n, a)
           x == [n.disk EXCEPT ![n.blk.sector * SectorWords + i] = BusRead(n, a)]
<1> SUFFICES WordWritten(n, i, u)
  OBVIOUS
<1>1. u = IF f.thrown THEN f ELSE [n EXCEPT !.disk = x]
  BY DEF WriteWord
<1>2. f.ram = n.ram /\ f.blk = n.blk /\ (f.thrown <=> n.thrown \/ ~InRam(a))
  BY DEF Faulted, Throws, Machines
<1>3. InRam(a) => a \in 0 .. RamWords - 1 /\ BusRead(n, a) = n.ram[a]
  BY DEF InRam, BusRead
<1> HIDE DEF u, f
<1>4. CASE f.thrown
  BY <1>1, <1>2, <1>4 DEF WordWritten
<1>5. CASE ~f.thrown
  <2>1. x = [n.disk EXCEPT ![n.blk.sector * SectorWords + i] = n.ram[a]]
    BY <1>2, <1>3, <1>5
  <2> HIDE DEF x
  <2>2. u.ram = n.ram /\ u.blk = n.blk /\ u.disk = x
    BY <1>1, <1>5 DEF Machines
  <2> QED
    BY <1>2, <1>3, <1>5, <2>1, <2>2 DEF WordWritten
<1> QED
  BY <1>4, <1>5

\* A transfer that does not throw has moved every word of the sector and no other.
LEMMA ReadWhole ==
  ASSUME NEW m0 \in Machines, m0.blk.sector < Sectors,
         \A i \in 0 .. SectorWords - 1 : m0.blk.dma + i \notin Windows,
         NEW u, u = Transfer(m0, 1), u.blk.status = 2
  PROVE  /\ u.disk = m0.disk
         /\ \A i \in 0 .. SectorWords - 1 :
              u.ram[m0.blk.dma + i] = m0.disk[m0.blk.sector * SectorWords + i]
         /\ \A a \in 0 .. RamWords - 1 :
              (\A i \in 0 .. SectorWords - 1 : a # m0.blk.dma + i) => u.ram[a] = m0.ram[a]
<1> DEFINE base == m0.blk.sector * SectorWords
           dma == m0.blk.dma
           Done(n, k) ==
             /\ \A i \in 0 .. k - 1 : /\ dma + i \in 0 .. RamWords - 1
                                     /\ n.ram[dma + i] = m0.disk[base + i]
             /\ \A a \in 0 .. RamWords - 1 :
                  (\A i \in 0 .. k - 1 : a # dma + i) => n.ram[a] = m0.ram[a]
           Good(n, k) == n.disk = m0.disk /\ n.blk.status = 1 /\ (n.thrown \/ Done(n, k))
<1>1. PICK g \in Passes(m0, 1) : Transfer(m0, 1) = Moved(g[SectorWords])
  BY TransferRuns
<1>2. /\ SectorWords \in Nat /\ dma \in Nat
      /\ \A k \in 0 .. SectorWords : /\ g[k] \in Machines /\ g[k].blk.sector = m0.blk.sector
                                     /\ g[k].blk.dma = dma
  BY <1>1, Fields, DevicesAssumption DEF Passes, Busy, Alike
<1>3. g[0] = [m0 EXCEPT !.blk.status = 1]
      /\ \A k \in 0 .. SectorWords - 1 : g[k + 1] = ReadWord(g[k], k)
  BY <1>1 DEF Passes
<1> DEFINE T == {k \in 0 .. SectorWords : Good(g[k], k)}
<1>4. 0 \in T
  <2>1. g[0].disk = m0.disk /\ g[0].ram = m0.ram /\ g[0].blk.status = 1
    BY <1>3 DEF Machines, Blk
  <2> QED
    BY <1>2, <2>1
<1>5. ASSUME NEW k \in 0 .. SectorWords - 1, k \in T PROVE k + 1 \in T
  <2> DEFINE n == g[k]
             v == g[k + 1]
  <2>1. n \in Machines /\ n.blk.sector = m0.blk.sector /\ n.blk.dma = dma
        /\ k \in 0 .. SectorWords /\ k + 1 \in 0 .. SectorWords
    BY <1>2
  <2>2. Good(n, k)
    BY <1>5
  <2>3. v = ReadWord(n, k)
    BY <1>3
  <2> HIDE DEF n, v
  <2>4. /\ v.disk = n.disk /\ v.blk = n.blk
        /\ ~v.thrown => /\ ~n.thrown /\ dma + k \in 0 .. RamWords - 1
                        /\ v.ram = [n.ram EXCEPT ![dma + k] = n.disk[base + k]]
    <3>1. n.blk.dma + k \notin Windows /\ n.blk.sector < Sectors
      BY <2>1
    <3>2. /\ v.disk = n.disk /\ v.blk = n.blk
          /\ ~v.thrown =>
               /\ ~n.thrown /\ n.blk.dma + k \in 0 .. RamWords - 1
               /\ v.ram = [n.ram EXCEPT ![n.blk.dma + k] = n.disk[n.blk.sector * SectorWords + k]]
      BY <2>1, <2>3, <3>1, ReadWordIs DEF WordRead
    <3> QED
      BY <2>1, <3>2
  <2>5. n.disk = m0.disk /\ n.blk.status = 1 /\ (n.thrown \/ Done(n, k))
    BY <2>2
  <2>6. ASSUME ~v.thrown PROVE Done(v, k + 1)
    <3>1. /\ dma + k \in 0 .. RamWords - 1
          /\ v.ram = [n.ram EXCEPT ![dma + k] = m0.disk[base + k]]
      BY <2>4, <2>5, <2>6
    <3>2. /\ \A i \in 0 .. k - 1 : /\ dma + i \in 0 .. RamWords - 1
                                  /\ n.ram[dma + i] = m0.disk[base + i]
          /\ \A a \in 0 .. RamWords - 1 :
               (\A i \in 0 .. k - 1 : a # dma + i) => n.ram[a] = m0.ram[a]
      BY <2>4, <2>5, <2>6
    <3>3. DOMAIN n.ram = 0 .. RamWords - 1
      BY <2>1, Fields DEF Ram
    <3> HIDE DEF base, dma
    <3>4. dma \in Nat
      BY <1>2
    <3>5. ASSUME NEW i \in 0 .. (k + 1) - 1
          PROVE  dma + i \in 0 .. RamWords - 1 /\ v.ram[dma + i] = m0.disk[base + i]
      <4>1. CASE i = k
        BY <3>1, <3>3, <4>1
      <4>2. CASE i \in 0 .. k - 1
        <5>1. dma + i # dma + k
          BY <3>4, <4>2
        <5> QED
          BY <3>1, <3>2, <3>3, <4>2, <5>1
      <4> QED
        BY <4>1, <4>2
    <3>6. ASSUME NEW a \in 0 .. RamWords - 1, \A i \in 0 .. (k + 1) - 1 : a # dma + i
          PROVE  v.ram[a] = m0.ram[a]
      <4>1. a # dma + k /\ \A i \in 0 .. k - 1 : a # dma + i
        BY <3>6
      <4> QED
        BY <3>1, <3>2, <3>3, <4>1
    <3> QED
      BY <3>5, <3>6
  <2>7. Good(v, k + 1)
    <3> HIDE DEF Done
    <3> QED
      BY <2>4, <2>5, <2>6
  <2> QED
    BY <2>1, <2>7 DEF v
<1>6. SectorWords \in T
  <2>1. \A k \in 0 .. SectorWords : k \in T
    <3> HIDE DEF T
    <3> QED
      BY <1>2, <1>4, <1>5, Induct
  <2> QED
    BY <1>2, <2>1
<1> DEFINE n == g[SectorWords]
<1>7. Good(n, SectorWords) /\ n \in Machines
  BY <1>2, <1>6
<1> HIDE DEF n, Done, base, dma
<1>8. u = Moved(n)
  BY <1>1 DEF n
<1>9. ~n.thrown
  BY <1>7, <1>8 DEF Moved
<1>10. u.disk = n.disk /\ u.ram = n.ram
  BY <1>7, <1>8 DEF Moved, Machines
<1>11. n.disk = m0.disk /\ Done(n, SectorWords)
  BY <1>7, <1>9
<1> QED
  BY <1>10, <1>11 DEF Done, base, dma

LEMMA WriteWhole ==
  ASSUME NEW m0 \in Machines, m0.blk.sector < Sectors,
         \A i \in 0 .. SectorWords - 1 : m0.blk.dma + i \notin Windows,
         NEW u, u = Transfer(m0, 2), u.blk.status = 2
  PROVE  /\ u.ram = m0.ram
         /\ \A i \in 0 .. SectorWords - 1 :
              u.disk[m0.blk.sector * SectorWords + i] = m0.ram[m0.blk.dma + i]
         /\ \A a \in 0 .. Sectors * SectorWords - 1 :
              (\A i \in 0 .. SectorWords - 1 : a # m0.blk.sector * SectorWords + i) =>
                u.disk[a] = m0.disk[a]
<1> DEFINE base == m0.blk.sector * SectorWords
           dma == m0.blk.dma
           Done(n, k) ==
             /\ \A i \in 0 .. k - 1 : n.disk[base + i] = m0.ram[dma + i]
             /\ \A a \in 0 .. Sectors * SectorWords - 1 :
                  (\A i \in 0 .. k - 1 : a # base + i) => n.disk[a] = m0.disk[a]
           Good(n, k) == n.ram = m0.ram /\ n.blk.status = 1 /\ (n.thrown \/ Done(n, k))
<1>1. PICK g \in Passes(m0, 2) : Transfer(m0, 2) = Moved(g[SectorWords])
  BY TransferRuns
<1>2. /\ SectorWords \in Nat /\ dma \in Nat
      /\ \A k \in 0 .. SectorWords : /\ g[k] \in Machines /\ g[k].blk.sector = m0.blk.sector
                                     /\ g[k].blk.dma = dma
  BY <1>1, Fields, DevicesAssumption DEF Passes, Busy, Alike
<1>3. g[0] = [m0 EXCEPT !.blk.status = 1]
      /\ \A k \in 0 .. SectorWords - 1 : g[k + 1] = WriteWord(g[k], k)
  BY <1>1 DEF Passes
<1> DEFINE T == {k \in 0 .. SectorWords : Good(g[k], k)}
<1>4. 0 \in T
  <2>1. g[0].disk = m0.disk /\ g[0].ram = m0.ram /\ g[0].blk.status = 1
    BY <1>3 DEF Machines, Blk
  <2> QED
    BY <1>2, <2>1
<1>5. ASSUME NEW k \in 0 .. SectorWords - 1, k \in T PROVE k + 1 \in T
  <2> DEFINE n == g[k]
             v == g[k + 1]
  <2>1. n \in Machines /\ n.blk.sector = m0.blk.sector /\ n.blk.dma = dma
        /\ k \in 0 .. SectorWords /\ k + 1 \in 0 .. SectorWords
    BY <1>2
  <2>2. Good(n, k)
    BY <1>5
  <2>3. v = WriteWord(n, k)
    BY <1>3
  <2> HIDE DEF n, v
  <2>4. /\ v.ram = n.ram /\ v.blk = n.blk
        /\ ~v.thrown => /\ ~n.thrown
                        /\ v.disk = [n.disk EXCEPT ![base + k] = n.ram[dma + k]]
    <3>1. n.blk.dma + k \notin Windows /\ n.blk.sector < Sectors
      BY <2>1
    <3>2. /\ v.ram = n.ram /\ v.blk = n.blk
          /\ ~v.thrown =>
               /\ ~n.thrown /\ n.blk.dma + k \in 0 .. RamWords - 1
               /\ v.disk = [n.disk EXCEPT ![n.blk.sector * SectorWords + k] = n.ram[n.blk.dma + k]]
      BY <2>1, <2>3, <3>1, WriteWordIs DEF WordWritten
    <3> QED
      BY <2>1, <3>2
  <2>5. n.ram = m0.ram /\ n.blk.status = 1 /\ (n.thrown \/ Done(n, k))
    BY <2>2
  <2>6. ASSUME ~v.thrown PROVE Done(v, k + 1)
    <3>1. v.disk = [n.disk EXCEPT ![base + k] = m0.ram[dma + k]]
      BY <2>4, <2>5, <2>6
    <3>2. /\ \A i \in 0 .. k - 1 : n.disk[base + i] = m0.ram[dma + i]
          /\ \A a \in 0 .. Sectors * SectorWords - 1 :
               (\A i \in 0 .. k - 1 : a # base + i) => n.disk[a] = m0.disk[a]
      BY <2>4, <2>5, <2>6
    <3>3. DOMAIN n.disk = 0 .. Sectors * SectorWords - 1
      BY <2>1, Fields DEF Disk
    <3>4. base + k \in 0 .. Sectors * SectorWords - 1 /\ base \in Int
      <4>1. \A p, q \in Nat : p * q \in Nat
        OBVIOUS
      <4>2. m0.blk.sector \in Nat
        BY Fields
      <4>3. base + k \in 0 .. Sectors * SectorWords - 1
        BY <4>2, SectorWord
      <4> QED
        BY <1>2, <4>1, <4>2, <4>3
    <3> HIDE DEF base, dma
    <3>5. ASSUME NEW i \in 0 .. (k + 1) - 1 PROVE v.disk[base + i] = m0.ram[dma + i]
      <4>1. CASE i = k
        BY <3>1, <3>3, <3>4, <4>1
      <4>2. CASE i \in 0 .. k - 1
        <5>1. base + i # base + k
          BY <3>4, <4>2
        <5> QED
          BY <3>1, <3>2, <4>2, <5>1
      <4> QED
        BY <4>1, <4>2
    <3>6. ASSUME NEW a \in 0 .. Sectors * SectorWords - 1, \A i \in 0 .. (k + 1) - 1 : a # base + i
          PROVE  v.disk[a] = m0.disk[a]
      <4>1. a # base + k /\ \A i \in 0 .. k - 1 : a # base + i
        BY <3>6
      <4> QED
        BY <3>1, <3>2, <4>1
    <3> QED
      BY <3>5, <3>6
  <2>7. Good(v, k + 1)
    <3> HIDE DEF Done
    <3> QED
      BY <2>4, <2>5, <2>6
  <2> QED
    BY <2>1, <2>7 DEF v
<1>6. SectorWords \in T
  <2>1. \A k \in 0 .. SectorWords : k \in T
    <3> HIDE DEF T
    <3> QED
      BY <1>2, <1>4, <1>5, Induct
  <2> QED
    BY <1>2, <2>1
<1> DEFINE n == g[SectorWords]
<1>7. Good(n, SectorWords) /\ n \in Machines
  BY <1>2, <1>6
<1> HIDE DEF n, Done, base, dma
<1>8. u = Moved(n)
  BY <1>1 DEF n
<1>9. ~n.thrown
  BY <1>7, <1>8 DEF Moved
<1>10. u.disk = n.disk /\ u.ram = n.ram
  BY <1>7, <1>8 DEF Moved, Machines
<1>11. n.ram = m0.ram /\ Done(n, SectorWords)
  BY <1>7, <1>9
<1> QED
  BY <1>10, <1>11 DEF Done, base, dma

\* What a command leaves: an error and nothing moved, or a transfer that is done
\* unless it threw.
LEMMA TransferStatus ==
  ASSUME NEW m0 \in Machines, m0.blk.sector < Sectors, NEW cmd
  PROVE  Transfer(m0, cmd).blk.status \in {1, 2}
<1>1. PICK g \in Passes(m0, cmd) : Transfer(m0, cmd) = Moved(g[SectorWords])
  BY TransferRuns
<1> DEFINE n == g[SectorWords]
<1>2. n \in Machines /\ n.blk.status = 1
  BY DevicesAssumption DEF Passes, Busy, Alike
<1> HIDE DEF n
<1>3. Moved(n).blk.status \in {1, 2}
  BY <1>2 DEF Moved, Machines, Blk
<1> QED
  BY <1>1, <1>3 DEF n

LEMMA BlkExecIs ==
  ASSUME NEW m0 \in Machines, NEW cmd
  PROVE  \/ BlkExec(m0, cmd) = [m0 EXCEPT !.blk.status = 3]
         \/ m0.blk.sector < Sectors /\ cmd \in {1, 2} /\ BlkExec(m0, cmd) = Transfer(m0, cmd)
<1>1. m0.blk.sector >= Sectors \/ m0.blk.sector < Sectors
  BY Fields, DevicesAssumption
<1> QED
  BY <1>1, Zenon DEF BlkExec

LEMMA BlkExecAlike ==
  ASSUME NEW m0 \in Machines, NEW cmd
  PROVE  BlkExec(m0, cmd) \in Alike(m0)
<1>1. [m0 EXCEPT !.blk.status = 3] \in Alike(m0)
  BY BlkStatus, 3 \in 0 .. 3
<1>2. CASE m0.blk.sector >= Sectors \/ cmd \notin {1, 2}
  BY <1>1, <1>2 DEF BlkExec
<1>3. CASE ~(m0.blk.sector >= Sectors) /\ cmd \in {1, 2}
  <2>1. m0.blk.sector < Sectors
    BY <1>3, Fields, DevicesAssumption
  <2>2. BlkExec(m0, cmd) = Transfer(m0, cmd)
    BY <1>3, Zenon DEF BlkExec
  <2> QED
    BY <2>1, <2>2, TransferAlike
<1> QED
  BY <1>2, <1>3

-----------------------------------------------------------------------------
(* The GPU.                                                                 *)

LEMMA ResizedType ==
  ASSUME NEW n \in Machines, Len(n.gpu.fb) <= MaxPixels
  PROVE  MachineType(Resized(n)) /\ Resized(n).rx = n.rx
<1> DEFINE k == n.gpu.w * n.gpu.h
<1>1. k \in Nat /\ MaxPixels \in Nat /\ Len(n.gpu.fb) \in Nat
  <2>1. \A a, b \in Nat : a * b \in Nat
    OBVIOUS
  <2> QED
    BY <2>1, Fields, DevicesAssumption
<1>2. k = n.gpu.w * n.gpu.h
  OBVIOUS
<1>3. Resized(n) = IF Len(n.gpu.fb) = k THEN n
                   ELSE IF k > MaxPixels THEN [n EXCEPT !.thrown = TRUE]
                        ELSE [n EXCEPT !.gpu.fb = [i \in 1 .. k |-> 0]]
  BY DEF Resized
<1> HIDE DEF k
<1>4. CASE Len(n.gpu.fb) = k
  BY <1>2, <1>3, <1>4 DEF MachineType
<1>5. CASE Len(n.gpu.fb) # k /\ k > MaxPixels
  <2>1. Resized(n) = [n EXCEPT !.thrown = TRUE]
    BY <1>3, <1>5
  <2>2. Resized(n) \in Alike(n)
    BY <2>1, Thrown
  <2>3. ~(k <= MaxPixels)
    BY <1>1, <1>5
  <2> QED
    BY <1>2, <2>2, <2>3 DEF Alike, MachineType
<1>6. CASE Len(n.gpu.fb) # k /\ ~(k > MaxPixels)
  <2> DEFINE x == [i \in 1 .. k |-> 0]
             g == [n.gpu EXCEPT !.fb = x]
             u == [n EXCEPT !.gpu = g]
  <2>1. x \in Seq(Int) /\ Len(x) = k
    <3>1. x \in [1 .. k -> Int]
      OBVIOUS
    <3> HIDE DEF x
    <3> QED
      BY <1>1, <3>1, FbFill
  <2>2. Resized(n) = [n EXCEPT !.gpu.fb = x]
    BY <1>3, <1>6
  <2> HIDE DEF x
  <2>3. Resized(n) = u
    BY <2>2
  <2>4. g \in Gpu /\ g.w = n.gpu.w /\ g.h = n.gpu.h /\ g.fb = x
    BY <2>1, Fields DEF Gpu
  <2> HIDE DEF g
  <2>5. u \in Machines /\ u.gpu = g /\ u.rx = n.rx
    BY <2>4 DEF Machines
  <2> HIDE DEF u
  <2>6. k <= MaxPixels
    BY <1>1, <1>6
  <2>7. Len(u.gpu.fb) = k /\ u.gpu.w * u.gpu.h = k
    BY <1>2, <2>1, <2>4, <2>5
  <2> QED
    BY <2>3, <2>5, <2>6, <2>7 DEF MachineType
<1> QED
  BY <1>4, <1>5, <1>6

LEMMA PixelsAlike ==
  ASSUME NEW n \in Machines, NEW xs, NEW ys, NEW c \in Int
  PROVE  Pixels(n, xs, ys, c) \in Alike(n)
<1> DEFINE in(i) == (i - 1) % n.gpu.w \in xs /\ (i - 1) \div n.gpu.w \in ys
           x == [i \in 1 .. Len(n.gpu.fb) |-> IF in(i) THEN c ELSE n.gpu.fb[i]]
<1>1. Pixels(n, xs, ys, c) = [n EXCEPT !.gpu.fb = x]
  BY DEF Pixels
<1> HIDE DEF in
<1>2. x \in [1 .. Len(n.gpu.fb) -> Int]
  BY Fields
<1> HIDE DEF x
<1> QED
  BY <1>1, <1>2, Fields, FbFill, FbSet

LEMMA FillAllAlike ==
  ASSUME NEW n \in Machines, NEW c \in Int
  PROVE  FillAll(n, c) \in Alike(n)
<1> DEFINE x == [i \in 1 .. Len(n.gpu.fb) |-> c]
<1>1. FillAll(n, c) = [n EXCEPT !.gpu.fb = x]
  BY DEF FillAll
<1>2. x \in [1 .. Len(n.gpu.fb) -> Int]
  OBVIOUS
<1> HIDE DEF x
<1> QED
  BY <1>1, <1>2, Fields, FbFill, FbSet

LEMMA BlitPixelAlike ==
  ASSUME NEW n \in Machines, NEW i \in Int, NEW src \in Int, NEW x, NEW y, NEW w
  PROVE  BlitPixel(n, i, src, x, y, w) \in Alike(n)
<1> DEFINE px == x + (i % w)
           py == y + (i \div w)
           f == Faulted(n, src + i)
           v == BusRead(n, src + i)
           k == py * n.gpu.w + px + 1
           fb == [n.gpu.fb EXCEPT ![k] = v]
           off == px \notin 0 .. n.gpu.w - 1 \/ py \notin 0 .. n.gpu.h - 1
<1>1. BlitPixel(n, i, src, x, y, w) =
        IF off THEN n ELSE IF f.thrown THEN f ELSE [n EXCEPT !.gpu.fb = fb]
  BY DEF BlitPixel
<1>2. f \in Alike(n)
  BY FaultedAlike
<1>3. v \in Int
  BY BusReadType
<1> HIDE DEF k, v, f, off
<1>4. fb \in Seq(Int) /\ Len(fb) = Len(n.gpu.fb)
  BY <1>3, Fields, FbExcept
<1> HIDE DEF fb
<1>5. [n EXCEPT !.gpu.fb = fb] \in Alike(n)
  BY <1>4, FbSet
<1> QED
  BY <1>1, <1>2, <1>5, AlikeSelf

LEMMA BelowNat ==
  ASSUME NEW a \in Nat, NEW b \in Nat
  PROVE  Below(a, b) \in Nat /\ Below(a, b) <= a
BY DEF Below

\* Copying the framebuffer to the guest, word by word.
LEMMA PresentAlike ==
  ASSUME NEW m0 \in Machines
  PROVE  Present(m0) \in Alike(m0)
<1> DEFINE n == Below(Len(m0.gpu.fb), PresentMax)
           b == m0
           S == Alike(m0)
           step(u, i) == BusWrite(u, u.gpu.fbAddr + i, u.gpu.fb[i + 1])
           F == [i \in Nat |-> [u \in S |-> IF i < n THEN step(u, i) ELSE u]]
           Is(f) == f = [k \in 0 .. n |-> IF k = 0 THEN b ELSE step(f[k - 1], k - 1)]
           after == CHOOSE f : Is(f)
<1>1. b \in S /\ n \in Nat /\ n <= Len(m0.gpu.fb)
  BY AlikeSelf, Fields, DevicesAssumption, BelowNat
<1>2. \A u \in S, i \in 0 .. n - 1 : step(u, i) \in S
  <2> SUFFICES ASSUME NEW u \in S, NEW i \in 0 .. n - 1 PROVE step(u, i) \in S
    OBVIOUS
  <2>1. u \in Machines /\ Len(u.gpu.fb) = Len(m0.gpu.fb)
    BY DEF Alike
  <2>2. u.gpu.fb \in Seq(Int) /\ u.gpu.fbAddr \in Nat /\ Len(u.gpu.fb) \in Nat
    BY <2>1, Fields
  <2>3. i \in Nat /\ i + 1 \in 1 .. Len(u.gpu.fb)
    <3> HIDE DEF n
    <3> QED
      BY <1>1, <2>1, <2>2
  <2>4. u.gpu.fb[i + 1] \in Int /\ u.gpu.fbAddr + i \in Int
    BY <2>2, <2>3, SMTT(30)
  <2> QED
    BY <2>1, <2>4, BusWriteAlike, AlikeTrans
<1>3. F \in [Nat -> [S -> S]]
  <2> HIDE DEF step, S, n
  <2> QED
    BY <1>1, <1>2
<1>4. PICK g : g \in Runs(S, F, b, n)
  <2> HIDE DEF F, n, b, S
  <2> QED
    BY <1>1, <1>3, RunsExist
<1>5. Is(g)
  <2> HIDE DEF step, n, b, S
  <2>1. ASSUME NEW k \in 1 .. n PROVE g[k] = step(g[k - 1], k - 1)
    <3>1. k - 1 \in 0 .. n - 1 /\ (k - 1) + 1 = k /\ k - 1 < n
      BY <1>1
    <3>2. g[k] = F[k - 1][g[k - 1]] /\ g[k - 1] \in S
      <4> HIDE DEF F
      <4> QED
        BY <1>1, <1>4, <3>1 DEF Runs
    <3> QED
      BY <3>1, <3>2
  <2>2. g \in [0 .. n -> S] /\ g[0] = b
    BY <1>4 DEF Runs
  <2> QED
    BY <1>1, <2>1, <2>2
<1>6. Is(after)
  <2> HIDE DEF Is
  <2> QED
    BY <1>5
<1>7. Present(m0) = IF m0.gpu.fbAddr = 0 THEN m0 ELSE after[n]
  BY Zenon DEF Present, Loop
<1>8. /\ after \in [0 .. n -> S] /\ after[0] = b
      /\ \A k \in 0 .. n - 1 : after[k + 1] = step(after[k], k)
  <2> DEFINE T == {k \in 0 .. n : after[k] \in S}
  <2> HIDE DEF after, step, n, b, S
  <2>1. after[0] = b /\ \A k \in 1 .. n : after[k] = step(after[k - 1], k - 1)
    BY <1>1, <1>6
  <2>2. 0 \in T
    BY <1>1, <2>1
  <2>3. ASSUME NEW k \in 0 .. n - 1 PROVE after[k + 1] = step(after[k], k)
    <3>1. k + 1 \in 1 .. n /\ (k + 1) - 1 = k
      BY <1>1
    <3> QED
      BY <2>1, <3>1
  <2>4. ASSUME NEW k \in 0 .. n - 1, k \in T PROVE k + 1 \in T
    BY <1>1, <1>2, <2>3, <2>4
  <2>5. \A k \in 0 .. n : k \in T
    <3> HIDE DEF T
    <3> QED
      BY <1>1, <2>2, <2>4, Induct
  <2>6. DOMAIN after = 0 .. n /\ after = [k \in 0 .. n |-> after[k]]
    BY <1>6
  <2> QED
    BY <2>1, <2>3, <2>5, <2>6
<1> HIDE DEF after, n
<1> QED
  BY <1>1, <1>7, <1>8

\* Drawing a picture, pixel by pixel.
BlitPasses(m0, src, x, y, w, n) ==
  {g \in [0 .. n -> Alike(m0)] :
     /\ g[0] = m0
     /\ \A k \in 0 .. n - 1 :
          g[k + 1] = IF g[k].thrown THEN g[k] ELSE BlitPixel(g[k], k, src, x, y, w)}

LEMMA BlitRuns ==
  ASSUME NEW m0 \in Machines, NEW src \in Int, NEW x, NEW y, NEW w \in Int, NEW h \in Int,
         NEW n, n = Above(0, w) * Above(0, h)
  PROVE  n \in Nat /\ \E g \in BlitPasses(m0, src, x, y, w, n) : Blit(m0, src, x, y, w, h) = g[n]
<1> DEFINE b == m0
           S == Alike(m0)
           step(u, i) == IF u.thrown THEN u ELSE BlitPixel(u, i, src, x, y, w)
           F == [i \in Nat |-> [u \in S |-> IF i < n THEN step(u, i) ELSE u]]
           Is(f) == f = [k \in 0 .. n |-> IF k = 0 THEN b ELSE step(f[k - 1], k - 1)]
           after == CHOOSE f : Is(f)
<1>1. b \in S /\ n \in Nat
  <2>1. Above(0, w) \in Nat /\ Above(0, h) \in Nat
    BY DEF Above
  <2>2. \A p, q \in Nat : p * q \in Nat
    OBVIOUS
  <2> QED
    BY <2>1, <2>2, AlikeSelf
<1>2. \A u \in S, i \in 0 .. n - 1 : step(u, i) \in S
  <2> SUFFICES ASSUME NEW u \in S, NEW i \in 0 .. n - 1 PROVE step(u, i) \in S
    OBVIOUS
  <2>1. u \in Machines
    BY DEF Alike
  <2>2. i \in Int
    OBVIOUS
  <2>3. BlitPixel(u, i, src, x, y, w) \in Alike(u)
    BY <2>1, <2>2, BlitPixelAlike
  <2> QED
    BY <2>3, AlikeTrans
<1>3. F \in [Nat -> [S -> S]]
  <2> HIDE DEF step, S
  <2> QED
    BY <1>1, <1>2
<1>4. PICK g : g \in Runs(S, F, b, n)
  <2> HIDE DEF F, b, S
  <2> QED
    BY <1>1, <1>3, RunsExist
<1>5. Is(g)
  <2> HIDE DEF step, b, S
  <2>1. ASSUME NEW k \in 1 .. n PROVE g[k] = step(g[k - 1], k - 1)
    <3>1. k - 1 \in 0 .. n - 1 /\ (k - 1) + 1 = k /\ k - 1 < n
      BY <1>1
    <3>2. g[k] = F[k - 1][g[k - 1]] /\ g[k - 1] \in S
      <4> HIDE DEF F
      <4> QED
        BY <1>1, <1>4, <3>1 DEF Runs
    <3> QED
      BY <3>1, <3>2
  <2>2. g \in [0 .. n -> S] /\ g[0] = b
    BY <1>4 DEF Runs
  <2> QED
    BY <1>1, <2>1, <2>2
<1>6. Is(after)
  <2> HIDE DEF Is
  <2> QED
    BY <1>5
<1>7. Blit(m0, src, x, y, w, h) = after[n]
  BY Zenon DEF Blit, Loop
<1>8. /\ after \in [0 .. n -> S] /\ after[0] = b
      /\ \A k \in 0 .. n - 1 : after[k + 1] = step(after[k], k)
  <2> DEFINE T == {k \in 0 .. n : after[k] \in S}
  <2> HIDE DEF after, step, b, S
  <2>1. after[0] = b /\ \A k \in 1 .. n : after[k] = step(after[k - 1], k - 1)
    BY <1>1, <1>6
  <2>2. 0 \in T
    BY <1>1, <2>1
  <2>3. ASSUME NEW k \in 0 .. n - 1 PROVE after[k + 1] = step(after[k], k)
    <3>1. k + 1 \in 1 .. n /\ (k + 1) - 1 = k
      BY <1>1
    <3> QED
      BY <2>1, <3>1
  <2>4. ASSUME NEW k \in 0 .. n - 1, k \in T PROVE k + 1 \in T
    BY <1>1, <1>2, <2>3, <2>4
  <2>5. \A k \in 0 .. n : k \in T
    <3> HIDE DEF T
    <3> QED
      BY <1>1, <2>2, <2>4, Induct
  <2>6. DOMAIN after = 0 .. n /\ after = [k \in 0 .. n |-> after[k]]
    BY <1>6
  <2> QED
    BY <2>1, <2>3, <2>5, <2>6
<1>9. after \in BlitPasses(m0, src, x, y, w, n)
  <2> HIDE DEF after
  <2> QED
    BY <1>8 DEF BlitPasses
<1> QED
  BY <1>1, <1>7, <1>9

LEMMA BlitAlike ==
  ASSUME NEW m0 \in Machines, NEW src \in Int, NEW x, NEW y, NEW w \in Int, NEW h \in Int
  PROVE  Blit(m0, src, x, y, w, h) \in Alike(m0)
<1> DEFINE n == Above(0, w) * Above(0, h)
<1>0. n = Above(0, w) * Above(0, h)
  OBVIOUS
<1> HIDE DEF n
<1>1. n \in Nat /\ \E g \in BlitPasses(m0, src, x, y, w, n) : Blit(m0, src, x, y, w, h) = g[n]
  BY <1>0, BlitRuns
<1> QED
  BY <1>1 DEF BlitPasses

\* The states of a command buffer that is being executed.
Runners(m0) == [m : Alike(m0), at : Nat, on : BOOLEAN]

LEMMA RunnerSet ==
  ASSUME NEW m0 \in Machines, NEW d \in Runners(m0), NEW u \in Alike(m0)
  PROVE  [d EXCEPT !.m = u, !.on = FALSE] \in Runners(m0)
BY DEF Runners

LEMMA CommandType ==
  ASSUME NEW m0 \in Machines, NEW d \in Runners(m0)
  PROVE  Command(d) \in Runners(m0)
<1> DEFINE n == d.m
           a == n.gpu.cmd + d.at
           op == BusRead(n, a)
           p(i) == BusRead(n, a + i)
           k == IF op \in DOMAIN Operands THEN Operands[op] ELSE 0
           after == CASE op = 1 -> FillAll(n, p(1))
                      [] op = 2 -> DrawRect(n, p(1), p(2), p(3), p(4), p(5))
                      [] op = 3 -> Blit(n, p(1), p(2), p(3), p(4), p(5))
                      [] op = 4 -> DispatchCompute(n, p(1))
                      [] op = 5 -> Present(n)
                      [] OTHER -> n
           on == op \in DOMAIN Operands /\ ~after.thrown
<1>1. n \in Alike(m0) /\ n \in Machines /\ d.at \in Nat /\ n.gpu.cmd \in Nat
  <2>1. n \in Alike(m0) /\ d.at \in Nat
    BY DEF Runners
  <2>2. n \in Machines
    BY <2>1 DEF Alike
  <2> QED
    BY <2>1, <2>2, Fields
<1>2. a \in Nat
  BY <1>1
<1>3. op \in Int /\ \A i \in 1 .. 5 : p(i) \in Int
  <2> HIDE DEF a, n
  <2> QED
    BY <1>1, <1>2, BusReadType
<1>4. k \in Nat
  <2> HIDE DEF op
  <2> QED
    BY <1>3 DEF Operands
<1>5. Command(d) = IF \E i \in 0 .. k : Throws(a + i)
                   THEN [d EXCEPT !.m.thrown = TRUE, !.on = FALSE]
                   ELSE [m |-> after, at |-> d.at + 1 + k, on |-> on]
  BY DEF Command
<1>6. after \in Alike(m0)
  <2> HIDE DEF op, p, n
  <2>1. CASE op = 1
    BY <1>1, <1>3, <2>1, FillAllAlike, AlikeTrans
  <2>2. CASE op = 2
    BY <1>1, <1>3, <2>2, PixelsAlike, AlikeTrans DEF DrawRect
  <2>3. CASE op = 3
    BY <1>1, <1>3, <2>3, BlitAlike, AlikeTrans
  <2>4. CASE op = 4
    <3>1. Art \in Int
      BY DevicesAssumption
    <3> QED
      BY <1>1, <1>3, <2>4, <3>1, FillAllAlike, AlikeTrans DEF DispatchCompute
  <2>5. CASE op = 5
    BY <1>1, <1>3, <2>5, PresentAlike, AlikeTrans
  <2>6. CASE op \notin {1, 2, 3, 4, 5}
    BY <1>1, <2>6
  <2> QED
    BY <2>1, <2>2, <2>3, <2>4, <2>5, <2>6
<1>7. [n EXCEPT !.thrown = TRUE] \in Alike(m0)
  BY <1>1, Thrown, AlikeTrans
<1>8. [d EXCEPT !.m.thrown = TRUE, !.on = FALSE] \in Runners(m0)
  <2> DEFINE u == [n EXCEPT !.thrown = TRUE]
  <2>1. [d EXCEPT !.m.thrown = TRUE, !.on = FALSE] = [d EXCEPT !.m = u, !.on = FALSE]
    OBVIOUS
  <2>2. u \in Alike(m0)
    BY <1>7
  <2> HIDE DEF u
  <2> QED
    BY <2>1, <2>2, RunnerSet
<1>9. on \in BOOLEAN
  OBVIOUS
<1> HIDE DEF after, k, a, on
<1>10. d.at + 1 + k \in Nat
  BY <1>1, <1>4
<1> DEFINE failed == [d EXCEPT !.m.thrown = TRUE, !.on = FALSE]
<1>11. Command(d) = IF \E i \in 0 .. k : Throws(a + i) THEN failed
                    ELSE [m |-> after, at |-> d.at + 1 + k, on |-> on]
  BY <1>5
<1>12. failed \in Runners(m0)
  BY <1>8
<1> HIDE DEF n, failed
<1> QED
  BY <1>6, <1>9, <1>10, <1>11, <1>12 DEF Runners

\* The command buffer, at most one command a word.
SubmitPasses(m0) ==
  {g \in [0 .. m0.gpu.len -> Runners(m0)] :
     /\ g[0] = [m |-> [m0 EXCEPT !.gpu.status = 2], at |-> 0, on |-> TRUE]
     /\ \A k \in 0 .. m0.gpu.len - 1 :
          g[k + 1] = IF g[k].on /\ g[k].at < m0.gpu.len THEN Command(g[k]) ELSE g[k]}

LEMMA SubmitRuns ==
  ASSUME NEW m0 \in Machines
  PROVE  /\ m0.gpu.len \in Nat
         /\ \E g \in SubmitPasses(m0) :
              Submit(m0) = IF m0.gpu.len < 1 THEN m0
                           ELSE IF g[m0.gpu.len].m.thrown THEN g[m0.gpu.len].m
                                ELSE [g[m0.gpu.len].m EXCEPT !.gpu.status = 1]
<1> DEFINE n == m0.gpu.len
           b == [m |-> [m0 EXCEPT !.gpu.status = 2], at |-> 0, on |-> TRUE]
           S == Runners(m0)
           step(u, i) == IF u.on /\ u.at < m0.gpu.len THEN Command(u) ELSE u
           F == [i \in Nat |-> [u \in S |-> IF i < n THEN step(u, i) ELSE u]]
           Is(f) == f = [k \in 0 .. n |-> IF k = 0 THEN b ELSE step(f[k - 1], k - 1)]
           after == CHOOSE f : Is(f)
<1>1. b \in S /\ n \in Nat
  <2>1. [m0 EXCEPT !.gpu.status = 2] \in Alike(m0)
    BY GpuStatus, 2 \in 1 .. 2
  <2> QED
    BY <2>1, Fields DEF Runners
<1>2. \A u \in S, i \in 0 .. n - 1 : step(u, i) \in S
  BY CommandType
<1>3. F \in [Nat -> [S -> S]]
  <2> HIDE DEF step, S, n
  <2> QED
    BY <1>1, <1>2
<1>4. PICK g : g \in Runs(S, F, b, n)
  <2> HIDE DEF F, n, b, S
  <2> QED
    BY <1>1, <1>3, RunsExist
<1>5. Is(g)
  <2> HIDE DEF step, n, b, S
  <2>1. ASSUME NEW k \in 1 .. n PROVE g[k] = step(g[k - 1], k - 1)
    <3>1. k - 1 \in 0 .. n - 1 /\ (k - 1) + 1 = k /\ k - 1 < n
      BY <1>1
    <3>2. g[k] = F[k - 1][g[k - 1]] /\ g[k - 1] \in S
      <4> HIDE DEF F
      <4> QED
        BY <1>1, <1>4, <3>1 DEF Runs
    <3> QED
      BY <3>1, <3>2
  <2>2. g \in [0 .. n -> S] /\ g[0] = b
    BY <1>4 DEF Runs
  <2> QED
    BY <1>1, <2>1, <2>2
<1>6. Is(after)
  <2> HIDE DEF Is
  <2> QED
    BY <1>5
<1>7. Submit(m0) = IF m0.gpu.len < 1 THEN m0
                 ELSE IF after[n].m.thrown THEN after[n].m
                      ELSE [after[n].m EXCEPT !.gpu.status = 1]
  BY Zenon DEF Submit, Loop
<1>8. /\ after \in [0 .. n -> S] /\ after[0] = b
      /\ \A k \in 0 .. n - 1 : after[k + 1] = step(after[k], k)
  <2> DEFINE T == {k \in 0 .. n : after[k] \in S}
  <2> HIDE DEF after, step, n, b, S
  <2>1. after[0] = b /\ \A k \in 1 .. n : after[k] = step(after[k - 1], k - 1)
    BY <1>1, <1>6
  <2>2. 0 \in T
    BY <1>1, <2>1
  <2>3. ASSUME NEW k \in 0 .. n - 1 PROVE after[k + 1] = step(after[k], k)
    <3>1. k + 1 \in 1 .. n /\ (k + 1) - 1 = k
      BY <1>1
    <3> QED
      BY <2>1, <3>1
  <2>4. ASSUME NEW k \in 0 .. n - 1, k \in T PROVE k + 1 \in T
    BY <1>1, <1>2, <2>3, <2>4
  <2>5. \A k \in 0 .. n : k \in T
    <3> HIDE DEF T
    <3> QED
      BY <1>1, <2>2, <2>4, Induct
  <2>6. DOMAIN after = 0 .. n /\ after = [k \in 0 .. n |-> after[k]]
    BY <1>6
  <2> QED
    BY <2>1, <2>3, <2>5, <2>6
<1> HIDE DEF after
<1>9. after \in SubmitPasses(m0)
  BY <1>8 DEF SubmitPasses
<1> QED
  BY <1>1, <1>7, <1>9

LEMMA SubmitAlike ==
  ASSUME NEW m0 \in Machines
  PROVE  Submit(m0) \in Alike(m0)
<1> DEFINE n == m0.gpu.len
<1>1. PICK g \in SubmitPasses(m0) :
        Submit(m0) = IF n < 1 THEN m0
                     ELSE IF g[n].m.thrown THEN g[n].m ELSE [g[n].m EXCEPT !.gpu.status = 1]
  BY SubmitRuns
<1>2. n \in Nat
  BY Fields
<1>3. g[n] \in Runners(m0)
  BY <1>1, <1>2 DEF SubmitPasses
<1> HIDE DEF n
<1>4. g[n].m \in Alike(m0) /\ g[n].m \in Machines
  BY <1>3 DEF Runners, Alike
<1>5. [g[n].m EXCEPT !.gpu.status = 1] \in Alike(m0)
  BY <1>4, GpuStatus, AlikeTrans, 1 \in 1 .. 2
<1> QED
  BY <1>1, <1>4, <1>5, AlikeSelf

-----------------------------------------------------------------------------
(* The machine.                                                             *)

LEMMA MachineIs ==
  ASSUME NEW ram \in Ram, NEW disk \in Disk
  PROVE  MachineType(Machine(ram, disk)) /\ ~Machine(ram, disk).thrown
         /\ Machine(ram, disk).rx = <<>>
<1> DEFINE k == FbWidth * FbHeight
           x == [i \in 1 .. k |-> 0]
           g == [status |-> 1, w |-> FbWidth, h |-> FbHeight, fbAddr |-> 0, cmd |-> 0,
                 len |-> 0, fb |-> x]
<1>1. k \in Nat /\ k <= MaxPixels /\ FbWidth \in Nat /\ FbHeight \in Nat
  <2>1. \A a, b \in Nat : a * b \in Nat
    OBVIOUS
  <2> QED
    BY <2>1, DevicesAssumption
<1>2. x \in [1 .. k -> Int]
  OBVIOUS
<1>3. k = FbWidth * FbHeight
  OBVIOUS
<1> HIDE DEF x, k
<1>4. x \in Seq(Int) /\ Len(x) = k
  BY <1>1, <1>2, FbFill
<1>5. g \in Gpu /\ g.fb = x /\ g.w = FbWidth /\ g.h = FbHeight
  BY <1>1, <1>4 DEF Gpu
<1>6. Machine(ram, disk) =
        [ram |-> ram, rx |-> <<>>, disk |-> disk,
         blk |-> [status |-> 0, sector |-> 0, dma |-> 0], gpu |-> g,
         thrown |-> FALSE, halted |-> FALSE]
  BY DEF Machine, x, k
<1>7. [status |-> 0, sector |-> 0, dma |-> 0] \in Blk
  BY DEF Blk
<1> HIDE DEF g
<1>8. Machine(ram, disk) \in Machines /\ Machine(ram, disk).gpu = g
      /\ ~Machine(ram, disk).thrown /\ Machine(ram, disk).rx = <<>>
  BY <1>5, <1>6, <1>7 DEF Machines
<1> QED
  BY <1>1, <1>3, <1>4, <1>5, <1>8 DEF MachineType

\* The size registers; the framebuffer follows.
LEMMA SizeType ==
  ASSUME NEW n, MachineType(n), NEW v \in Nat,
         NEW u \in {[n EXCEPT !.gpu.w = v], [n EXCEPT !.gpu.h = v]}
  PROVE  u \in Machines /\ u.rx = n.rx /\ Len(u.gpu.fb) <= MaxPixels
<1>1. n \in Machines /\ n.gpu \in Gpu /\ Len(n.gpu.fb) <= MaxPixels
  BY Fields DEF MachineType
<1> DEFINE g == u.gpu
<1>2. CASE u = [n EXCEPT !.gpu.w = v]
  <2> DEFINE x == [n.gpu EXCEPT !.w = v]
  <2>1. x \in Gpu /\ x.fb = n.gpu.fb
    BY <1>1 DEF Gpu
  <2>2. u = [n EXCEPT !.gpu = x]
    BY <1>2
  <2> HIDE DEF x
  <2>3. u \in Machines /\ u.gpu = x /\ u.rx = n.rx
    BY <1>1, <2>1, <2>2 DEF Machines
  <2> QED
    BY <1>1, <2>1, <2>3
<1>3. CASE u = [n EXCEPT !.gpu.h = v]
  <2> DEFINE x == [n.gpu EXCEPT !.h = v]
  <2>1. x \in Gpu /\ x.fb = n.gpu.fb
    BY <1>1 DEF Gpu
  <2>2. u = [n EXCEPT !.gpu = x]
    BY <1>3
  <2> HIDE DEF x
  <2>3. u \in Machines /\ u.gpu = x /\ u.rx = n.rx
    BY <1>1, <2>1, <2>2 DEF Machines
  <2> QED
    BY <1>1, <2>1, <2>3
<1> QED
  BY <1>2, <1>3

\* Registers that are only stored.
LEMMA GpuWord ==
  ASSUME NEW n, MachineType(n), NEW g \in Gpu,
         g.w = n.gpu.w, g.h = n.gpu.h, g.fb = n.gpu.fb
  PROVE  MachineType([n EXCEPT !.gpu = g]) /\ [n EXCEPT !.gpu = g].rx = n.rx
<1> DEFINE u == [n EXCEPT !.gpu = g]
<1>1. u \in Machines /\ u.gpu = g /\ u.rx = n.rx
  BY DEF MachineType, Machines
<1> HIDE DEF u
<1>2. MachineType(u) /\ u.rx = n.rx
  BY <1>1 DEF MachineType
<1> QED
  BY <1>2 DEF u

LEMMA BlkWord ==
  ASSUME NEW n, MachineType(n), NEW b \in Blk
  PROVE  MachineType([n EXCEPT !.blk = b]) /\ [n EXCEPT !.blk = b].rx = n.rx
<1> DEFINE u == [n EXCEPT !.blk = b]
<1>1. u \in Machines /\ u.gpu = n.gpu /\ u.rx = n.rx
  BY DEF MachineType, Machines
<1> HIDE DEF u
<1>2. MachineType(u) /\ u.rx = n.rx
  BY <1>1 DEF MachineType
<1> QED
  BY <1>2 DEF u

LEMMA RxSet ==
  ASSUME NEW n, MachineType(n), NEW bytes \in Seq(Nat)
  PROVE  MachineType([n EXCEPT !.rx = bytes]) /\ [n EXCEPT !.rx = bytes].rx = bytes
         /\ [n EXCEPT !.rx = bytes].thrown = n.thrown
<1> DEFINE u == [n EXCEPT !.rx = bytes]
<1>1. u \in Machines /\ u.gpu = n.gpu /\ u.rx = bytes /\ u.thrown = n.thrown
  BY DEF MachineType, Machines
<1> HIDE DEF u
<1>2. MachineType(u) /\ u.rx = bytes /\ u.thrown = n.thrown
  BY <1>1 DEF MachineType
<1> QED
  BY <1>2 DEF u

\* A store to a register keeps the machine's type, and only clearing the FIFO
\* touches the bytes received.
LEMMA StoreRegType ==
  ASSUME NEW n, MachineType(n), NEW r \in Registers, NEW v \in Nat
  PROVE  /\ MachineType(StoreReg(n, r, v))
         /\ StoreReg(n, r, v).rx = IF Clears(r, v) THEN <<>> ELSE n.rx
<1>1. n \in Machines /\ n.gpu \in Gpu /\ n.blk \in Blk
  BY Fields DEF MachineType
<1>0. r # "fcr" => ~Clears(r, v)
  BY DEF Clears
<1>2. CASE Clears(r, v)
  <2>1. StoreReg(n, r, v) = [n EXCEPT !.rx = <<>>]
    BY <1>2 DEF StoreReg, Clears, ClearRx
  <2>2. <<>> \in Seq(Nat)
    OBVIOUS
  <2>3. MachineType([n EXCEPT !.rx = <<>>]) /\ [n EXCEPT !.rx = <<>>].rx = <<>>
    BY <2>2, RxSet
  <2> QED
    BY <1>2, <2>1, <2>3
<1>3. CASE r \in {"sector", "dma"}
  <2> DEFINE b == IF r = "sector" THEN [n.blk EXCEPT !.sector = v] ELSE [n.blk EXCEPT !.dma = v]
  <2>1. b \in Blk
    BY <1>1 DEF Blk
  <2>2. StoreReg(n, r, v) = [n EXCEPT !.blk = b]
    BY <1>3 DEF StoreReg
  <2> HIDE DEF b
  <2> QED
    BY <1>0, <1>3, <2>1, <2>2, BlkWord
<1>4. CASE r = "command"
  <2>1. StoreReg(n, r, v) = BlkExec(n, v)
    BY <1>4 DEF StoreReg
  <2> QED
    BY <1>0, <1>1, <1>4, <2>1, BlkExecAlike, AlikeType
<1>5. CASE r = "width"
  <2>1. StoreReg(n, r, v) = Resized([n EXCEPT !.gpu.w = v])
    BY <1>5 DEF StoreReg
  <2> DEFINE u == [n EXCEPT !.gpu.w = v]
  <2>2. u \in Machines /\ u.rx = n.rx /\ Len(u.gpu.fb) <= MaxPixels
    BY SizeType
  <2> HIDE DEF u
  <2>3. MachineType(Resized(u)) /\ Resized(u).rx = n.rx
    BY <2>2, ResizedType
  <2> QED
    BY <1>0, <1>5, <2>1, <2>3 DEF u
<1>6. CASE r = "height"
  <2>1. StoreReg(n, r, v) = Resized([n EXCEPT !.gpu.h = v])
    BY <1>6 DEF StoreReg
  <2> DEFINE u == [n EXCEPT !.gpu.h = v]
  <2>2. u \in Machines /\ u.rx = n.rx /\ Len(u.gpu.fb) <= MaxPixels
    BY SizeType
  <2> HIDE DEF u
  <2>3. MachineType(Resized(u)) /\ Resized(u).rx = n.rx
    BY <2>2, ResizedType
  <2> QED
    BY <1>0, <1>6, <2>1, <2>3 DEF u
<1>7. CASE r \in {"fbAddr", "cmdAddr", "cmdLen"}
  <2> DEFINE g == CASE r = "fbAddr" -> [n.gpu EXCEPT !.fbAddr = v]
                    [] r = "cmdAddr" -> [n.gpu EXCEPT !.cmd = v]
                    [] r = "cmdLen" -> [n.gpu EXCEPT !.len = v]
  <2>1. g \in Gpu /\ g.w = n.gpu.w /\ g.h = n.gpu.h /\ g.fb = n.gpu.fb
    BY <1>1, <1>7 DEF Gpu
  <2>2. StoreReg(n, r, v) = [n EXCEPT !.gpu = g]
    BY <1>7 DEF StoreReg
  <2> HIDE DEF g
  <2> QED
    BY <1>0, <1>7, <2>1, <2>2, GpuWord
<1>8. CASE r \in {"submit", "present"}
  <2>1. StoreReg(n, r, v) \in {n, Submit(n), Present(n)}
    BY <1>8 DEF StoreReg
  <2>2. StoreReg(n, r, v) \in Alike(n)
    BY <1>1, <2>1, SubmitAlike, PresentAlike, AlikeSelf
  <2> QED
    BY <1>0, <1>8, <2>2, AlikeType
<1>9. CASE r = "fcr" /\ ~Clears(r, v)
  BY <1>9 DEF StoreReg
<1> QED
  BY <1>2, <1>3, <1>4, <1>5, <1>6, <1>7, <1>8, <1>9 DEF Registers, Clears

LEMMA BusWriteType ==
  ASSUME NEW n, MachineType(n), NEW a \in Int, NEW v \in Int
  PROVE  MachineType(BusWrite(n, a, v)) /\ BusWrite(n, a, v).rx = n.rx
<1>1. n \in Machines
  BY DEF MachineType
<1> QED
  BY <1>1, BusWriteAlike, AlikeType

-----------------------------------------------------------------------------
(* What the GPU draws.  The framebuffer is a table of w columns; a cell of it  *)
(* and its number determine one another.                                    *)

LEMMA CellNumber ==
  ASSUME NEW w \in Nat \ {0}, NEW x \in 0 .. w - 1, NEW y \in Nat
  PROVE  /\ y * w + x \in Nat /\ (y * w + x) % w = x /\ (y * w + x) \div w = y
OBVIOUS

LEMMA NumberBelow ==
  ASSUME NEW w \in Nat, NEW h \in Nat, NEW x \in 0 .. w - 1, NEW y \in 0 .. h - 1
  PROVE  y * w + x \in 0 .. w * h - 1
OBVIOUS

LEMMA CellOf ==
  ASSUME NEW w \in Nat \ {0}, NEW i \in Nat
  PROVE  /\ i % w \in 0 .. w - 1 /\ i \div w \in Nat
         /\ (i \div w) * w + (i % w) = i
OBVIOUS

LEMMA CellBelow ==
  ASSUME NEW w \in Nat \ {0}, NEW h \in Nat, NEW i \in 0 .. w * h - 1
  PROVE  i \div w \in 0 .. h - 1
OBVIOUS

Column(n, i) == (i - 1) % n.gpu.w
Line(n, i) == (i - 1) \div n.gpu.w
WholeScreen(n) == n.gpu.w * n.gpu.h = Len(n.gpu.fb)

LEMMA PixelCell ==
  ASSUME NEW n \in Machines, WholeScreen(n), NEW i \in 1 .. Len(n.gpu.fb)
  PROVE  /\ Column(n, i) \in 0 .. n.gpu.w - 1 /\ Line(n, i) \in 0 .. n.gpu.h - 1
         /\ Line(n, i) * n.gpu.w + Column(n, i) + 1 = i
<1> DEFINE w == n.gpu.w
           h == n.gpu.h
<1>1. w \in Nat /\ h \in Nat /\ w * h = Len(n.gpu.fb)
  BY Fields DEF WholeScreen
<1>2. Column(n, i) = (i - 1) % w /\ Line(n, i) = (i - 1) \div w
  BY DEF Column, Line
<1> HIDE DEF w, h
<1>3. w # 0
  <2>1. \A k \in Nat : 0 * k = 0
    OBVIOUS
  <2> QED
    BY <1>1, <2>1
<1>4. i - 1 \in 0 .. w * h - 1 /\ i - 1 \in Nat /\ i \in Nat
  BY <1>1
<1>5. (i - 1) % w \in 0 .. w - 1 /\ ((i - 1) \div w) * w + ((i - 1) % w) = i - 1
  BY <1>1, <1>3, <1>4, CellOf
<1>6. (i - 1) \div w \in 0 .. h - 1
  BY <1>1, <1>3, <1>4, CellBelow
<1> DEFINE x == (i - 1) % w
           y == (i - 1) \div w
           p == y * w
<1>7. p \in Int /\ x \in Int /\ p + x = i - 1
  <2>1. \A b, c \in Int : b * c \in Int
    OBVIOUS
  <2> QED
    BY <1>1, <1>5, <1>6, <2>1
<1>8. p + x + 1 = i
  <2> HIDE DEF p, x
  <2> QED
    BY <1>4, <1>7
<1> QED
  BY <1>2, <1>5, <1>6, <1>8 DEF w, h

LEMMA CellPixel ==
  ASSUME NEW n \in Machines, WholeScreen(n), NEW x \in 0 .. n.gpu.w - 1,
         NEW y \in 0 .. n.gpu.h - 1, NEW k, k = y * n.gpu.w + x + 1
  PROVE  k \in 1 .. Len(n.gpu.fb) /\ Column(n, k) = x /\ Line(n, k) = y
<1> DEFINE w == n.gpu.w
           h == n.gpu.h
<1>1. w \in Nat \ {0} /\ h \in Nat /\ w * h = Len(n.gpu.fb) /\ Len(n.gpu.fb) \in Nat
  BY Fields DEF WholeScreen
<1>2. Column(n, k) = (k - 1) % w /\ Line(n, k) = (k - 1) \div w
  BY DEF Column, Line
<1>3. x \in 0 .. w - 1 /\ y \in 0 .. h - 1 /\ y \in Nat /\ k = y * w + x + 1
  BY <1>1
<1> HIDE DEF w, h
<1>4. y * w + x \in 0 .. w * h - 1
  BY <1>1, <1>3, NumberBelow
<1>5. y * w + x \in Nat /\ (y * w + x) % w = x /\ (y * w + x) \div w = y
  BY <1>1, <1>3, CellNumber
<1> DEFINE p == y * w + x
<1>6. k = p + 1 /\ p \in 0 .. w * h - 1 /\ p \in Nat /\ p % w = x /\ p \div w = y
  BY <1>3, <1>4, <1>5
<1> HIDE DEF p
<1>7. k - 1 = p /\ k \in 1 .. Len(n.gpu.fb)
  BY <1>1, <1>6
<1> QED
  BY <1>2, <1>6, <1>7

\* The machines that differ from n in what their framebuffer shows (and in the
\* status of the GPU).
Paints(n) ==
  {u \in Alike(n) : /\ u.ram = n.ram /\ u.thrown = n.thrown
                    /\ u.gpu.cmd = n.gpu.cmd /\ u.gpu.len = n.gpu.len}

LEMMA PaintsTrans ==
  ASSUME NEW m0 \in Machines, NEW n \in Paints(m0), NEW u \in Paints(n)
  PROVE  u \in Paints(m0)
BY AlikeTrans DEF Paints

LEMMA PaintsSelf ==
  ASSUME NEW m0 \in Machines
  PROVE  m0 \in Paints(m0)
BY AlikeSelf DEF Paints

LEMMA PaintsScreen ==
  ASSUME NEW m0 \in Machines, NEW n \in Paints(m0)
  PROVE  /\ n \in Machines /\ n.gpu.w = m0.gpu.w /\ n.gpu.h = m0.gpu.h
         /\ Len(n.gpu.fb) = Len(m0.gpu.fb)
         /\ n.ram = m0.ram /\ n.thrown = m0.thrown
         /\ n.gpu.cmd = m0.gpu.cmd /\ n.gpu.len = m0.gpu.len
         /\ \A i : Column(n, i) = Column(m0, i) /\ Line(n, i) = Line(m0, i)
         /\ WholeScreen(m0) => WholeScreen(n)
<1>1. /\ n \in Machines /\ n.gpu.w = m0.gpu.w /\ n.gpu.h = m0.gpu.h
      /\ Len(n.gpu.fb) = Len(m0.gpu.fb)
      /\ n.ram = m0.ram /\ n.thrown = m0.thrown
      /\ n.gpu.cmd = m0.gpu.cmd /\ n.gpu.len = m0.gpu.len
  BY DEF Paints, Alike
<1> QED
  BY <1>1 DEF Column, Line, WholeScreen

LEMMA FbPaints ==
  ASSUME NEW n \in Machines, NEW x \in Seq(Int), Len(x) = Len(n.gpu.fb)
  PROVE  [n EXCEPT !.gpu.fb = x] \in Paints(n) /\ [n EXCEPT !.gpu.fb = x].gpu.fb = x
<1> DEFINE u == [n EXCEPT !.gpu.fb = x]
<1>1. u \in Alike(n)
  BY FbSet
<1>2. u.ram = n.ram /\ u.thrown = n.thrown
  BY DEF Machines
<1>3. u.gpu = [n.gpu EXCEPT !.fb = x]
  BY DEF Machines
<1>4. u.gpu.cmd = n.gpu.cmd /\ u.gpu.len = n.gpu.len /\ u.gpu.fb = x
  BY <1>3, Fields DEF Gpu
<1> QED
  BY <1>1, <1>2, <1>4 DEF Paints

LEMMA FillPaints ==
  ASSUME NEW n \in Machines, NEW c \in Int
  PROVE  /\ FillAll(n, c) \in Paints(n)
         /\ \A i \in 1 .. Len(n.gpu.fb) : FillAll(n, c).gpu.fb[i] = c
<1> DEFINE x == [i \in 1 .. Len(n.gpu.fb) |-> c]
<1>1. FillAll(n, c) = [n EXCEPT !.gpu.fb = x]
  BY DEF FillAll
<1>2. x \in [1 .. Len(n.gpu.fb) -> Int] /\ \A i \in 1 .. Len(n.gpu.fb) : x[i] = c
  OBVIOUS
<1> HIDE DEF x
<1>3. x \in Seq(Int) /\ Len(x) = Len(n.gpu.fb)
  BY <1>2, Fields, FbFill
<1>4. FillAll(n, c) \in Paints(n) /\ FillAll(n, c).gpu.fb = x
  BY <1>1, <1>3, FbPaints
<1> QED
  BY <1>2, <1>4

\* A rectangle is drawn where it lies on the screen, and nothing beside it.
LEMMA RectPaints ==
  ASSUME NEW n \in Machines, WholeScreen(n), NEW c \in Int,
         NEW x \in Int, NEW y \in Int, NEW w \in Int, NEW h \in Int
  PROVE  /\ DrawRect(n, x, y, w, h, c) \in Paints(n)
         /\ \A i \in 1 .. Len(n.gpu.fb) :
              DrawRect(n, x, y, w, h, c).gpu.fb[i] =
                IF /\ x <= Column(n, i) /\ Column(n, i) < x + w
                   /\ y <= Line(n, i) /\ Line(n, i) < y + h
                THEN c ELSE n.gpu.fb[i]
<1> DEFINE xs == Above(0, x) .. Below(n.gpu.w, x + w) - 1
           ys == Above(0, y) .. Below(n.gpu.h, y + h) - 1
           z == [i \in 1 .. Len(n.gpu.fb) |->
                   IF Column(n, i) \in xs /\ Line(n, i) \in ys THEN c ELSE n.gpu.fb[i]]
<1>1. DrawRect(n, x, y, w, h, c) = [n EXCEPT !.gpu.fb = z]
  BY DEF DrawRect, Pixels, Column, Line
<1>2. /\ z \in [1 .. Len(n.gpu.fb) -> Int]
      /\ \A i \in 1 .. Len(n.gpu.fb) :
           z[i] = IF Column(n, i) \in xs /\ Line(n, i) \in ys THEN c ELSE n.gpu.fb[i]
  <2> HIDE DEF xs, ys
  <2> QED
    BY Fields
<1> HIDE DEF z
<1>3. \A i \in 1 .. Len(n.gpu.fb) :
        /\ Column(n, i) \in xs <=> x <= Column(n, i) /\ Column(n, i) < x + w
        /\ Line(n, i) \in ys <=> y <= Line(n, i) /\ Line(n, i) < y + h
  <2> SUFFICES ASSUME NEW i \in 1 .. Len(n.gpu.fb)
               PROVE /\ Column(n, i) \in xs <=> x <= Column(n, i) /\ Column(n, i) < x + w
                     /\ Line(n, i) \in ys <=> y <= Line(n, i) /\ Line(n, i) < y + h
    OBVIOUS
  <2>1. /\ Column(n, i) \in 0 .. n.gpu.w - 1 /\ Line(n, i) \in 0 .. n.gpu.h - 1
        /\ n.gpu.w \in Nat /\ n.gpu.h \in Nat
    BY PixelCell, Fields
  <2> DEFINE p == Column(n, i)
             q == Line(n, i)
             W == n.gpu.w
             H == n.gpu.h
  <2>2. p \in 0 .. W - 1 /\ q \in 0 .. H - 1 /\ W \in Nat /\ H \in Nat
    BY <2>1
  <2> HIDE DEF p, q, W, H
  <2>3. p \in Above(0, x) .. Below(W, x + w) - 1 <=> x <= p /\ p < x + w
    BY <2>2 DEF Above, Below
  <2>4. q \in Above(0, y) .. Below(H, y + h) - 1 <=> y <= q /\ q < y + h
    BY <2>2 DEF Above, Below
  <2> QED
    BY <2>3, <2>4 DEF p, q, W, H
<1> HIDE DEF xs, ys
<1>4. z \in Seq(Int) /\ Len(z) = Len(n.gpu.fb)
  BY <1>2, Fields, FbFill
<1>5. DrawRect(n, x, y, w, h, c) \in Paints(n) /\ DrawRect(n, x, y, w, h, c).gpu.fb = z
  BY <1>1, <1>4, FbPaints
<1> QED
  BY <1>2, <1>3, <1>5

LEMMA PixelNat ==
  ASSUME NEW n \in Machines, WholeScreen(n), NEW i \in 1 .. Len(n.gpu.fb)
  PROVE  Column(n, i) \in Nat /\ Line(n, i) \in Nat
<1>1. Column(n, i) \in 0 .. n.gpu.w - 1 /\ Line(n, i) \in 0 .. n.gpu.h - 1
  BY PixelCell
<1>2. n.gpu.w \in Nat /\ n.gpu.h \in Nat
  BY Fields
<1> QED
  BY <1>1, <1>2

\* The pixel i lies in the picture of w columns and h rows drawn at x, y; it is the
\* Place-th of the picture's.
InPicture(n, i, x, y, w, h) ==
  x <= Column(n, i) /\ Column(n, i) < x + w /\ y <= Line(n, i) /\ Line(n, i) < y + h
Place(n, i, x, y, w) == (Line(n, i) - y) * w + (Column(n, i) - x)

LEMMA PlaceIs ==
  ASSUME NEW n \in Machines, WholeScreen(n), NEW i \in 1 .. Len(n.gpu.fb),
         NEW x \in Int, NEW y \in Int, NEW w \in Nat \ {0}, NEW h \in Nat \ {0},
         InPicture(n, i, x, y, w, h)
  PROVE  /\ Place(n, i, x, y, w) \in 0 .. w * h - 1
         /\ Place(n, i, x, y, w) % w = Column(n, i) - x
         /\ Place(n, i, x, y, w) \div w = Line(n, i) - y
<1> DEFINE dx == Column(n, i) - x
           dy == Line(n, i) - y
<1>1. Column(n, i) \in Nat /\ Line(n, i) \in Nat
  BY PixelNat
<1>2. dx \in 0 .. w - 1 /\ dy \in 0 .. h - 1
  <2> DEFINE p == Column(n, i)
             q == Line(n, i)
  <2>1. p \in Nat /\ q \in Nat /\ x <= p /\ p < x + w /\ y <= q /\ q < y + h
    BY <1>1 DEF InPicture
  <2> HIDE DEF p, q
  <2>2. p - x \in 0 .. w - 1 /\ q - y \in 0 .. h - 1
    BY <2>1
  <2> QED
    BY <2>2 DEF p, q
<1>3. Place(n, i, x, y, w) = dy * w + dx
  BY DEF Place
<1> HIDE DEF dx, dy
<1>4. dy \in Nat
  BY <1>2
<1>5. dy * w + dx \in 0 .. w * h - 1 /\ (dy * w + dx) % w = dx /\ (dy * w + dx) \div w = dy
  BY <1>2, <1>4, CellNumber, NumberBelow
<1> QED
  BY <1>3, <1>5 DEF dx, dy

Area(w, h) == 0 .. w * h - 1
Readable(src, k) == InRam(src + k)

\* u is n with the k-th pixel of the picture drawn.
PixelDrawn(n, u, k, src, x, y, w, h) ==
  /\ u \in Paints(n)
  /\ \A i \in 1 .. Len(n.gpu.fb) :
       u.gpu.fb[i] = IF InPicture(n, i, x, y, w, h) /\ Place(n, i, x, y, w) = k
                     THEN n.ram[src + k] ELSE n.gpu.fb[i]

LEMMA BlitPixelPaints ==
  ASSUME NEW n \in Machines, WholeScreen(n), ~n.thrown, NEW src \in Int,
         NEW x \in Int, NEW y \in Int, NEW w \in Nat \ {0}, NEW h \in Nat \ {0},
         NEW k \in Area(w, h), Readable(src, k)
  PROVE  PixelDrawn(n, BlitPixel(n, k, src, x, y, w), k, src, x, y, w, h)
<1> DEFINE dx == k % w
           dy == k \div w
           px == x + dx
           py == y + dy
           j == py * n.gpu.w + px + 1
           v == n.ram[src + k]
           fb == [n.gpu.fb EXCEPT ![j] = v]
           off == px \notin 0 .. n.gpu.w - 1 \/ py \notin 0 .. n.gpu.h - 1
           u == BlitPixel(n, k, src, x, y, w)
<1>0. k \in 0 .. w * h - 1 /\ InRam(src + k)
  BY DEF Area, Readable
<1>1. k \in Nat /\ n.gpu.w \in Nat /\ n.gpu.h \in Nat /\ n.gpu.fb \in Seq(Int)
      /\ Len(n.gpu.fb) \in Nat
  <2>1. w * h \in Int
    OBVIOUS
  <2> QED
    BY <1>0, <2>1, Fields
<1>2. dx \in 0 .. w - 1 /\ dy \in 0 .. h - 1 /\ dy * w + dx = k
  BY <1>0, <1>1, CellOf, CellBelow
<1>3. Faulted(n, src + k).thrown = FALSE /\ BusRead(n, src + k) = v
  BY <1>0, Fields DEF Faulted, Throws, BusRead, Machines
<1>4. u = IF off THEN n ELSE [n EXCEPT !.gpu.fb = fb]
  BY <1>3 DEF BlitPixel
<1>5. v \in Int
  BY <1>0, Fields DEF InRam, Ram
\* A pixel that is the k-th of the picture lies where the k-th is drawn.
<1>6. ASSUME NEW i \in 1 .. Len(n.gpu.fb), InPicture(n, i, x, y, w, h),
             Place(n, i, x, y, w) = k
      PROVE  Column(n, i) = px /\ Line(n, i) = py
  <2>1. dx = Column(n, i) - x /\ dy = Line(n, i) - y
    <3>1. /\ Place(n, i, x, y, w) % w = Column(n, i) - x
          /\ Place(n, i, x, y, w) \div w = Line(n, i) - y
      BY <1>6, PlaceIs, SMTT(40)
    <3> QED
      BY <1>6, <3>1
  <2>2. Column(n, i) \in Nat /\ Line(n, i) \in Nat
    BY PixelNat
  <2> DEFINE p == Column(n, i)
             q == Line(n, i)
  <2> HIDE DEF dx, dy, p, q
  <2>3. p \in Nat /\ q \in Nat /\ dx = p - x /\ dy = q - y
    BY <2>1, <2>2 DEF p, q
  <2>4. p = x + dx /\ q = y + dy
    BY <2>3
  <2> QED
    BY <2>4 DEF p, q
<1>7. px \in Int /\ py \in Int
  <2> HIDE DEF dx, dy
  <2> QED
    BY <1>2
<1>8. CASE off
  <2>1. u = n
    BY <1>4, <1>8
  <2>2. \A i \in 1 .. Len(n.gpu.fb) :
          ~(InPicture(n, i, x, y, w, h) /\ Place(n, i, x, y, w) = k)
    <3> HIDE DEF px, py
    <3> QED
      BY <1>6, <1>8, PixelCell
  <2>3. n \in Paints(n)
    BY PaintsSelf
  <2> HIDE DEF u
  <2> QED
    BY <2>1, <2>2, <2>3 DEF u, PixelDrawn
<1>9. CASE ~off
  <2>1. px \in 0 .. n.gpu.w - 1 /\ py \in 0 .. n.gpu.h - 1
    BY <1>9
  <2>2. j \in 1 .. Len(n.gpu.fb) /\ Column(n, j) = px /\ Line(n, j) = py
    <3>1. j = py * n.gpu.w + px + 1
      OBVIOUS
    <3> HIDE DEF j, px, py
    <3> QED
      BY <2>1, <3>1, CellPixel
  <2>3. InPicture(n, j, x, y, w, h) /\ Place(n, j, x, y, w) = k
    <3>1. px - x = dx /\ py - y = dy /\ x <= px /\ px < x + w /\ y <= py /\ py < y + h
      <4> HIDE DEF dx, dy
      <4> QED
        BY <1>2
    <3> HIDE DEF px, py, j
    <3> QED
      BY <1>2, <2>2, <3>1 DEF InPicture, Place
  <2>4. ASSUME NEW i \in 1 .. Len(n.gpu.fb), InPicture(n, i, x, y, w, h),
               Place(n, i, x, y, w) = k
        PROVE  i = j
    <3>1. Line(n, i) * n.gpu.w + Column(n, i) + 1 = i
      BY PixelCell
    <3>2. Column(n, i) = px /\ Line(n, i) = py
      BY <1>6, <2>4
    <3> HIDE DEF px, py
    <3> QED
      BY <3>1, <3>2
  <2> HIDE DEF j, v, off, u
  <2>5. fb \in Seq(Int) /\ Len(fb) = Len(n.gpu.fb)
    BY <1>1, <1>5, FbExcept
  <2>6. \A i \in 1 .. Len(n.gpu.fb) : fb[i] = IF i = j THEN v ELSE n.gpu.fb[i]
    <3>1. DOMAIN n.gpu.fb = 1 .. Len(n.gpu.fb)
      BY <1>1
    <3> QED
      BY <3>1
  <2> HIDE DEF fb
  <2>7. u \in Paints(n) /\ u.gpu.fb = fb
    BY <1>4, <1>9, <2>5, FbPaints
  <2>8. \A i \in 1 .. Len(n.gpu.fb) :
          i = j <=> InPicture(n, i, x, y, w, h) /\ Place(n, i, x, y, w) = k
    BY <2>3, <2>4
  <2>9. \A i \in 1 .. Len(n.gpu.fb) :
          u.gpu.fb[i] = IF InPicture(n, i, x, y, w, h) /\ Place(n, i, x, y, w) = k
                        THEN v ELSE n.gpu.fb[i]
    BY <2>6, <2>7, <2>8
  <2> QED
    BY <2>7, <2>9 DEF u, v, PixelDrawn
<1> QED
  BY <1>8, <1>9

\* A picture is drawn where it lies on the screen, and nothing beside it.
LEMMA BlitPaints ==
  ASSUME NEW m0 \in Machines, WholeScreen(m0), ~m0.thrown, NEW src \in Int,
         NEW x \in Int, NEW y \in Int, NEW w \in Int, NEW h \in Int,
         \A k \in 0 .. Above(0, w) * Above(0, h) - 1 : InRam(src + k)
  PROVE  /\ Blit(m0, src, x, y, w, h) \in Paints(m0)
         /\ \A i \in 1 .. Len(m0.gpu.fb) :
              Blit(m0, src, x, y, w, h).gpu.fb[i] =
                IF InPicture(m0, i, x, y, w, h)
                THEN m0.ram[src + Place(m0, i, x, y, w)] ELSE m0.gpu.fb[i]
<1> DEFINE n == Above(0, w) * Above(0, h)
           in(i) == InPicture(m0, i, x, y, w, h)
           place(i) == Place(m0, i, x, y, w)
           v(i) == m0.ram[src + place(i)]
           Is(u, k) == /\ u \in Paints(m0)
                       /\ \A i \in 1 .. Len(m0.gpu.fb) :
                            u.gpu.fb[i] = IF in(i) /\ place(i) < k THEN v(i) ELSE m0.gpu.fb[i]
<1>1. n = Above(0, w) * Above(0, h)
  OBVIOUS
<1>2. \A k \in 0 .. n - 1 : InRam(src + k)
  OBVIOUS
<1> HIDE DEF n
<1>3. n \in Nat /\ \E g \in BlitPasses(m0, src, x, y, w, n) : Blit(m0, src, x, y, w, h) = g[n]
  BY <1>1, BlitRuns, SMTT(30)
<1>4. PICK g \in BlitPasses(m0, src, x, y, w, n) : Blit(m0, src, x, y, w, h) = g[n]
  BY <1>3
<1>5. g[0] = m0 /\ \A k \in 0 .. n - 1 :
        g[k + 1] = IF g[k].thrown THEN g[k] ELSE BlitPixel(g[k], k, src, x, y, w)
  BY <1>4 DEF BlitPasses
<1>6. ASSUME NEW i \in 1 .. Len(m0.gpu.fb), in(i)
      PROVE  w \in Nat \ {0} /\ h \in Nat \ {0} /\ n = w * h /\ place(i) \in 0 .. n - 1
  <2>1. w > 0 /\ h > 0
    <3> DEFINE p == Column(m0, i)
               q == Line(m0, i)
    <3>1. p \in Nat /\ q \in Nat /\ x <= p /\ p < x + w /\ y <= q /\ q < y + h
      BY <1>6, PixelNat DEF InPicture
    <3> HIDE DEF p, q
    <3> QED
      BY <3>1
  <2>2. w \in Nat \ {0} /\ h \in Nat \ {0} /\ Above(0, w) = w /\ Above(0, h) = h
    BY <2>1 DEF Above
  <2>3. n = w * h
    BY <1>1, <2>2
  <2>4. Place(m0, i, x, y, w) \in 0 .. w * h - 1
    BY <1>6, <2>2, PlaceIs
  <2> QED
    BY <2>2, <2>3, <2>4
<1>7. ASSUME NEW k \in 0 .. n - 1
      PROVE  w \in Nat \ {0} /\ h \in Nat \ {0} /\ k \in 0 .. w * h - 1
  <2>1. \A a \in Nat : 0 * a = 0 /\ a * 0 = 0
    OBVIOUS
  <2>2. Above(0, w) \in Nat /\ Above(0, h) \in Nat
    BY DEF Above
  <2>3. n # 0
    BY <1>3
  <2>4. Above(0, w) # 0 /\ Above(0, h) # 0
    BY <1>1, <2>1, <2>2, <2>3
  <2>5. w \in Nat \ {0} /\ h \in Nat \ {0} /\ Above(0, w) = w /\ Above(0, h) = h
    BY <2>4 DEF Above
  <2>6. n = w * h
    BY <1>1, <2>5
  <2> QED
    BY <2>5, <2>6
<1> DEFINE T == {k \in 0 .. n : Is(g[k], k)}
<1>8. 0 \in T
  <2>1. \A i \in 1 .. Len(m0.gpu.fb) : in(i) => ~(place(i) < 0)
    <3> SUFFICES ASSUME NEW i \in 1 .. Len(m0.gpu.fb), in(i) PROVE ~(place(i) < 0)
      OBVIOUS
    <3>1. place(i) \in 0 .. n - 1
      BY <1>6
    <3> HIDE DEF place
    <3> QED
      BY <1>3, <3>1
  <2>2. m0 \in Paints(m0)
    BY PaintsSelf
  <2> HIDE DEF in, place, v
  <2>3. Is(m0, 0)
    BY <2>1, <2>2
  <2> QED
    BY <1>3, <1>5, <2>3
<1>9. ASSUME NEW k \in 0 .. n - 1, k \in T PROVE k + 1 \in T
  <2> DEFINE u == g[k]
             z == BlitPixel(u, k, src, x, y, w)
  <2>1. u \in Paints(m0) /\ \A i \in 1 .. Len(m0.gpu.fb) :
          u.gpu.fb[i] = IF in(i) /\ place(i) < k THEN v(i) ELSE m0.gpu.fb[i]
    BY <1>9
  <2> HIDE DEF u
  <2>2. /\ u \in Machines /\ Len(u.gpu.fb) = Len(m0.gpu.fb)
        /\ u.ram = m0.ram /\ u.thrown = m0.thrown
        /\ \A i : Column(u, i) = Column(m0, i) /\ Line(u, i) = Line(m0, i)
        /\ WholeScreen(u)
    BY <2>1, PaintsScreen
  <2>3. g[k + 1] = z
    <3>1. g[k + 1] = IF u.thrown THEN u ELSE z
      BY <1>5 DEF u
    <3> HIDE DEF z
    <3> QED
      BY <2>2, <3>1
  <2>4. /\ z \in Paints(u)
        /\ \A i \in 1 .. Len(u.gpu.fb) :
             z.gpu.fb[i] = IF InPicture(u, i, x, y, w, h) /\ Place(u, i, x, y, w) = k
                           THEN u.ram[src + k] ELSE u.gpu.fb[i]
    <3>1. w \in Nat \ {0} /\ h \in Nat \ {0} /\ k \in 0 .. w * h - 1
      BY <1>7
    <3>2. InRam(src + k) /\ ~u.thrown
      BY <1>2, <2>2
    <3>3. u \in Machines /\ WholeScreen(u)
      BY <2>2
    <3>4. k \in Area(w, h) /\ Readable(src, k)
      BY <3>1, <3>2 DEF Area, Readable
    <3>5. PixelDrawn(u, BlitPixel(u, k, src, x, y, w), k, src, x, y, w, h)
      BY <3>1, <3>2, <3>3, <3>4, BlitPixelPaints
    <3> QED
      BY <3>5 DEF PixelDrawn
  <2>5. \A i : InPicture(u, i, x, y, w, h) = in(i) /\ Place(u, i, x, y, w) = place(i)
    BY <2>2 DEF InPicture, Place
  <2> HIDE DEF z
  <2>6. z \in Paints(m0)
    BY <2>1, <2>4, PaintsTrans
  <2>7. ASSUME NEW i \in 1 .. Len(m0.gpu.fb)
        PROVE  z.gpu.fb[i] = IF in(i) /\ place(i) < k + 1 THEN v(i) ELSE m0.gpu.fb[i]
    <3>1. z.gpu.fb[i] = IF in(i) /\ place(i) = k THEN m0.ram[src + k] ELSE u.gpu.fb[i]
      BY <2>2, <2>4, <2>5
    <3>2. u.gpu.fb[i] = IF in(i) /\ place(i) < k THEN v(i) ELSE m0.gpu.fb[i]
      BY <2>1
    <3>3. in(i) => place(i) \in 0 .. n - 1
      BY <1>6
    <3>4. place(i) = k => v(i) = m0.ram[src + k]
      OBVIOUS
    <3> HIDE DEF in, place, v
    <3>5. in(i) => (place(i) < k + 1 <=> place(i) = k \/ place(i) < k)
      BY <1>3, <3>3
    <3> QED
      BY <3>1, <3>2, <3>4, <3>5
  <2>8. Is(z, k + 1)
    BY <2>6, <2>7
  <2>9. k + 1 \in 0 .. n
    BY <1>3
  <2> HIDE DEF Is
  <2> QED
    BY <2>3, <2>8, <2>9
<1>10. n \in T
  <2>1. \A k \in 0 .. n : k \in T
    <3> HIDE DEF T
    <3> QED
      BY <1>3, <1>8, <1>9, Induct
  <2> QED
    BY <1>3, <2>1
<1>11. Is(g[n], n)
  BY <1>10
<1>12. \A i \in 1 .. Len(m0.gpu.fb) : in(i) => place(i) < n
  <2> SUFFICES ASSUME NEW i \in 1 .. Len(m0.gpu.fb), in(i) PROVE place(i) < n
    OBVIOUS
  <2>1. place(i) \in 0 .. n - 1
    BY <1>6
  <2> HIDE DEF place
  <2> QED
    BY <1>3, <2>1
<1>13. g[n] \in Paints(m0)
  BY <1>11
<1>14. \A i \in 1 .. Len(m0.gpu.fb) : g[n].gpu.fb[i] = IF in(i) THEN v(i) ELSE m0.gpu.fb[i]
  <2> HIDE DEF in, place, v
  <2> QED
    BY <1>11, <1>12
<1> QED
  BY <1>4, <1>13, <1>14
=============================================================================
