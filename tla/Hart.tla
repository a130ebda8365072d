-------------------------------- MODULE Hart --------------------------------
(***************************************************************************)
(* The emulated processor of tools/cpu.js with the CLINT of tools/mem.js:   *)
(* privilege levels, traps and their delegation, interrupts, the CSRs that  *)
(* steer them, and Sv32 translation through the TLB.                        *)
(*                                                                          *)
(* What is kept: every guard of step, trap, pendingInterrupt, translate,    *)
(* flushTlb, csrWrite and system, in the order of the code.  What is        *)
(* abstracted: registers (an instruction carries the value it would read),  *)
(* tval, sub-word and misaligned accesses; of cycle and instret what was    *)
(* written to them last, not that they count on from there.  Addresses      *)
(* count words; a page holds Entries words, as one table does in Sv32,      *)
(* where Entries is 1024.  The instructions a guest may execute are the     *)
(* constant Guests: a behaviour belongs to one guest.                       *)
(***************************************************************************)
EXTENDS Integers

CONSTANTS Entries,      \* page table entries in a table, words in a page
          Frames,       \* RAM frames; frame numbers from Frames on are not RAM
          Half,         \* values of one half of mtime and mtimecmp (2^32)
          MaxTime,      \* bound on mtime: the maxSteps of run()
          Guests        \* the programs: [insts, boot CSRs, ram, satp]

ASSUME HartAssumption ==
  /\ Entries \in Nat \ {0} /\ Half \in Nat \ {0}
  /\ Frames \in 1 .. Entries * Entries
  /\ MaxTime \in Nat /\ MaxTime < Half * Half

U == 0
S == 1
M == 3
Priv == {U, S, M}

\* Interrupt numbers, exception causes.
Irq == {1, 3, 5, 7, 9, 11}
SIrq == {1, 5, 9}
DeviceIrq == {3, 7}
MisalignedFetch == 0
Illegal == 2
Breakpoint == 3
EcallFrom == [p \in Priv |-> CASE p = U -> 8 [] p = S -> 9 [] p = M -> 11]
PageFault == [fetch |-> 12, load |-> 13, store |-> 15]
Exception == {0, 2, 3, 8, 9, 11, 12, 13, 15}

Flag == {"V", "R", "W", "X", "U", "G", "A", "D"}
Addr == 0 .. Entries * Entries * Entries - 1
Vpn == 0 .. Entries * Entries - 1
Page(va) == va \div Entries
Wrapped(va) == va % (Entries * Entries * Entries)
RamWords == 0 .. Frames * Entries - 1
\* A physical address keeps 32 bits: of the 2^22 frame numbers of a PTE the
\* last 2^20 count (>>> 0).
Frame(ppn) == ppn % (Entries * Entries)
Pte == [flags : SUBSET Flag, ppn : Nat]

Tvec == [base : Addr, vectored : BOOLEAN]
Unset == [base |-> 0, vectored |-> FALSE]
Cause == [irq : BOOLEAN, code : Irq \cup Exception]
NoCause == [irq |-> FALSE, code |-> 0]
None == -1
NoContext == [l \in {S, M} |-> {}]

Mstatus == [sie : BOOLEAN, mie : BOOLEAN, spie : BOOLEAN, mpie : BOOLEAN,
            spp : {U, S}, mpp : Priv, mprv : BOOLEAN, sum : BOOLEAN,
            mxr : BOOLEAN, tvm : BOOLEAN, tsr : BOOLEAN]
Satp == [sv32 : BOOLEAN, asid : Nat, ppn : Nat]
CsrFile == [mie : SUBSET Irq, mip : SUBSET (Irq \ DeviceIrq),
            medeleg : SUBSET Exception, mideleg : SUBSET Irq,
            stvec : Tvec, mtvec : Tvec, sepc : Addr, mepc : Addr,
            scause : Cause, mcause : Cause]
ClintRegs == [msip : {0, 1}, lo : 0 .. Half - 1, hi : 0 .. Half - 1,
              cmpLo : 0 .. Half - 1, cmpHi : 0 .. Half - 1]
Context == [pc : Addr, priv : Priv, ie : BOOLEAN]
TlbEntry == [ppn : Nat, flags : SUBSET Flag, asid : Nat, global : BOOLEAN]

\* The CSRs of user level (0x001, 0x002, 0x003, 0xC00, 0xC80, 0xC02, 0xC82),
\* one of the numbers of that level nothing implements, which just stores what
\* it is given, and the names the counters have for machine code.
UserCsr == {"fflags", "frm", "fcsr", "cycle", "cycleh", "instret", "instreth", "0x800"}
MachineCounter == {"mcycle", "mcycleh", "minstret", "minstreth"}
Counter(r) ==
  CASE r = "mcycle" -> "cycle"     [] r = "mcycleh" -> "cycleh"
    [] r = "minstret" -> "instret" [] r = "minstreth" -> "instreth"

\* What a CSR instruction may carry.  A set of bits can be written, set and
\* cleared; a write of mstatus names a privilege that exists.
IsCsrOperand(i) ==
  CASE i.csr \in {"mie", "mip", "sie", "sip", "mideleg"} ->
         i.form \in {"rw", "rs", "rc"} /\ i.val \in SUBSET Irq
    [] i.csr = "medeleg" -> i.form \in {"rw", "rs", "rc"} /\ i.val \in SUBSET Exception
    [] i.csr \in {"stvec", "mtvec"} -> i.form = "rw" /\ i.val \in Tvec
    [] i.csr \in {"sepc", "mepc"} -> i.form = "rw" /\ i.val \in Addr
    [] i.csr \in {"scause", "mcause"} -> i.form = "rw" /\ i.val \in Cause
    [] i.csr \in {"mstatus", "sstatus"} -> i.form = "rw" /\ i.val \in Mstatus
    [] i.csr = "satp" -> i.form = "rw" /\ i.val \in Satp
    [] i.csr = "mhartid" -> i.form = "rw"
    [] i.csr \in UserCsr \cup MachineCounter -> i.form = "rw" /\ i.val \in Nat
    [] OTHER -> FALSE

IsInst(i) ==
  CASE i.op \in {"nop", "ecall", "ebreak", "illegal", "sret", "mret"} -> TRUE
    [] i.op = "jump"   -> i.to \in Addr /\ i.aligned \in BOOLEAN
    [] i.op = "load"   -> i.va \in Addr
    [] i.op = "store"  -> i.va \in Addr /\ i.val \in Pte
    [] i.op = "clint"  -> \/ i.reg = "msip" /\ i.val \in Nat
                          \/ i.reg \in {"cmpLo", "cmpHi", "mtime"} /\ i.val \in 0 .. Half - 1
    [] i.op = "sfence" -> i.vpn \in Vpn \cup {None} /\ i.asid \in Nat \cup {None}
    [] i.op = "csr"    -> IsCsrOperand(i)
    [] OTHER -> FALSE

ASSUME GuestsAssumption ==
  \A g \in Guests :
    /\ g.medeleg \in SUBSET Exception /\ g.mideleg \in SUBSET Irq
    /\ g.stvec \in Tvec /\ g.mtvec \in Tvec
    /\ g.ram \in [RamWords -> Pte]
    /\ \A i \in g.insts : IsInst(i)

VARIABLES pc, priv, mstatus, csr, satp,
          user,    \* the CSRs of user level
          tlb, ram, clint, halted, guest,
          stale,   \* history: pages whose translation changed since a fence
          ctx      \* history: per level, the context its open trap has saved

hart == <<pc, priv, mstatus, csr, satp, user>>
vars == <<hart, tlb, ram, clint, halted, guest, stale, ctx>>

-----------------------------------------------------------------------------
(* The CLINT.                                                               *)

\* Mutant: the low half is not kept to its width.
TickedUnwrapped(c) == [c EXCEPT !.lo = @ + 1]

\* One tick of mtime: the low half carries into the high half.
Ticked(c) ==
  LET lo == (c.lo + 1) % Half
  IN  [c EXCEPT !.lo = lo, !.hi = IF lo = 0 THEN (@ + 1) % Half ELSE @]

\* Mutant: the halves are compared one by one.
TimeFiredHalves(c) == c.hi >= c.cmpHi /\ c.lo >= c.cmpLo

TimeFired(c) == c.hi > c.cmpHi \/ (c.hi = c.cmpHi /\ c.lo >= c.cmpLo)

\* Stores to msip and to the two halves of mtimecmp; mtime ignores stores.
ClintWrite(c, r, v) ==
  CASE r = "msip"  -> [c EXCEPT !.msip = v % 2]
    [] r = "cmpLo" -> [c EXCEPT !.cmpLo = v]
    [] r = "cmpHi" -> [c EXCEPT !.cmpHi = v]
    [] r = "mtime" -> c

-----------------------------------------------------------------------------
(* Interrupts.                                                              *)

\* mip as read: the software bits, and the device bits live from the CLINT.
MipPending(c) ==
  (csr.mip \ DeviceIrq) \cup (IF c.msip # 0 THEN {3} ELSE {})
                        \cup (IF TimeFired(c) THEN {7} ELSE {})

\* Mutant: SIE is not asked for.
EligibleNested(i) ==
  IF i \in csr.mideleg THEN i \in csr.mie \cap SIrq /\ priv <= S
  ELSE i \in csr.mie /\ (priv = M => mstatus.mie)

Eligible(i) ==
  IF i \in csr.mideleg
  THEN /\ i \in csr.mie \cap SIrq
       /\ priv = S => mstatus.sie
       /\ priv <= S
  ELSE /\ i \in csr.mie
       /\ priv = M => mstatus.mie

Rank == [i \in Irq |-> CASE i = 11 -> 1 [] i = 3 -> 2 [] i = 7 -> 3
                         [] i = 9 -> 4 [] i = 1 -> 5 [] i = 5 -> 6]

\* The interrupt the next step takes, or None.
PendingInterrupt(c) ==
  LET ready == {i \in MipPending(c) \cap Irq : Eligible(i)}
  IN  IF ready = {} THEN None
      ELSE CHOOSE i \in ready : \A j \in ready : Rank[i] <= Rank[j]

-----------------------------------------------------------------------------
(* Traps.                                                                   *)

\* Mutant: the two delegation registers are swapped.
TrapTargetSwapped(code, irq) ==
  IF priv # M /\ code \in (IF irq THEN csr.medeleg ELSE csr.mideleg)
  THEN S ELSE M

TrapTarget(code, irq) ==
  IF priv # M /\ code \in (IF irq THEN csr.mideleg ELSE csr.medeleg)
  THEN S ELSE M

VectorTarget(tvec, irq, code) ==
  IF tvec.vectored /\ irq THEN Wrapped(tvec.base + code) ELSE tvec.base

TrapStatus(to) ==
  IF to = S
  THEN [mstatus EXCEPT !.sie = FALSE, !.spie = mstatus.sie, !.spp = priv]
  ELSE [mstatus EXCEPT !.mie = FALSE, !.mpie = mstatus.mie, !.mpp = priv]

\* History: a trap opens a context at its level.  An exception inside a handler
\* replaces the context that was open, an interrupt must not.
Opened(to, irq) ==
  IF irq /\ ctx[to] # {} THEN ctx
  ELSE [ctx EXCEPT ![to] =
          {[pc |-> pc, priv |-> priv,
            ie |-> IF to = S THEN mstatus.sie ELSE mstatus.mie]}]

Trap(code, irq) ==
  LET to == TrapTarget(code, irq)
      tvec == IF to = S THEN csr.stvec ELSE csr.mtvec
      cause == [irq |-> irq, code |-> code]
  IN  /\ csr' = IF to = S THEN [csr EXCEPT !.sepc = pc, !.scause = cause]
                ELSE [csr EXCEPT !.mepc = pc, !.mcause = cause]
      /\ mstatus' = TrapStatus(to)
      /\ priv' = to
      /\ halted' = (tvec = Unset)
      /\ pc' = IF tvec = Unset THEN pc ELSE VectorTarget(tvec, irq, code)
      /\ ctx' = Opened(to, irq)
      /\ UNCHANGED <<satp, user, ram, guest, stale>>

-----------------------------------------------------------------------------
(* Sv32.                                                                    *)

EffectivePriv(acc) ==
  IF acc # "fetch" /\ priv = M /\ mstatus.mprv THEN mstatus.mpp ELSE priv

Bare(acc) == EffectivePriv(acc) = M \/ ~satp.sv32

\* Mutant: U mode may use the pages of the supervisor.
DeniedNoUser(flags, acc) ==
  \/ EffectivePriv(acc) = S /\ "U" \in flags /\ (~mstatus.sum \/ acc = "fetch")
  \/ acc = "fetch" /\ "X" \notin flags
  \/ acc = "load" /\ "R" \notin flags /\ ~(mstatus.mxr /\ "X" \in flags)
  \/ acc = "store" /\ {"W", "D"} \ flags # {}
  \/ "A" \notin flags

\* The permission checks, the same on a TLB hit and after a walk.
Denied(flags, acc) ==
  \/ EffectivePriv(acc) = U /\ "U" \notin flags
  \/ EffectivePriv(acc) = S /\ "U" \in flags /\ (~mstatus.sum \/ acc = "fetch")
  \/ acc = "fetch" /\ "X" \notin flags
  \/ acc = "load" /\ "R" \notin flags /\ ~(mstatus.mxr /\ "X" \in flags)
  \/ acc = "store" /\ {"W", "D"} \ flags # {}
  \/ "A" \notin flags

BadPte(p) == "V" \notin p.flags \/ ("R" \notin p.flags /\ "W" \in p.flags)
IsPointer(p) == p.flags \cap {"R", "X"} = {}

\* The walk reads a table where there is no RAM: the bus throws.
WalkThrows(mem, root, vpn) ==
  \/ Frame(root) >= Frames
  \/ LET pte1 == mem[Frame(root) * Entries + vpn \div Entries]
     IN  ~BadPte(pte1) /\ IsPointer(pte1) /\ Frame(pte1.ppn) >= Frames

\* The walk of the two tables: {} on a page fault or where it throws, else the
\* leaf.  A superpage must be aligned and yields the frame of the page asked for.
Walk(mem, root, vpn) ==
  LET vpn1 == vpn \div Entries
      vpn0 == vpn % Entries
      pte1 == mem[Frame(root) * Entries + vpn1]
      pte0 == mem[Frame(pte1.ppn) * Entries + vpn0]
      leaf(p, f) == {[ppn |-> f, flags |-> p.flags]}
  IN  IF WalkThrows(mem, root, vpn) \/ BadPte(pte1) THEN {}
      ELSE IF IsPointer(pte1)
           THEN IF BadPte(pte0) \/ IsPointer(pte0) THEN {} ELSE leaf(pte0, pte0.ppn)
           ELSE IF pte1.ppn % Entries # 0 THEN {} ELSE leaf(pte1, pte1.ppn + vpn0)

Hit(vpn) == {e \in tlb[vpn] : e.global \/ e.asid = satp.asid}

Cached(leaf) ==
  [ppn |-> leaf.ppn, flags |-> leaf.flags, asid |-> satp.asid,
   global |-> "G" \in leaf.flags]

\* translate(): {} for a page fault or a throw, else the physical word; a hit
\* asks the TLB only, a walk that permits the access fills it.
Translate(va, acc) ==
  LET vpn == Page(va)
      known == IF Hit(vpn) # {} THEN Hit(vpn) ELSE Walk(ram, satp.ppn, vpn)
      good == {e \in known : ~Denied(e.flags, acc)}
  IN  IF Bare(acc) THEN {va}
      ELSE {Frame(e.ppn) * Entries + (va % Entries) : e \in good}

Throws(va, acc) ==
  ~Bare(acc) /\ Hit(Page(va)) = {} /\ WalkThrows(ram, satp.ppn, Page(va))

Filled(va, acc) ==
  LET vpn == Page(va)
      good == {e \in Walk(ram, satp.ppn, vpn) : ~Denied(e.flags, acc)}
  IN  IF Bare(acc) \/ Hit(vpn) # {} \/ good = {} THEN tlb
      ELSE [tlb EXCEPT ![vpn] = {Cached(e) : e \in good}]

\* Mutant: global entries survive a full flush.
FlushTlbButGlobal(t, vpn, asid) ==
  IF vpn # None THEN [t EXCEPT ![vpn] = {}]
  ELSE [v \in Vpn |-> {e \in t[v] : (asid # None /\ e.asid # asid) \/ "G" \in e.flags}]

\* flushTlb: everything, one page of every address space, or the entries of
\* one address space that are not global.
FlushTlb(t, vpn, asid) ==
  IF vpn = None /\ asid = None THEN [v \in Vpn |-> {}]
  ELSE IF vpn # None THEN [t EXCEPT ![vpn] = {}]
  ELSE [v \in Vpn |-> {e \in t[v] : e.asid # asid \/ "G" \in e.flags}]

-----------------------------------------------------------------------------
(* One step.                                                                *)

Reset(g) ==
  /\ guest = g
  /\ pc = 0 /\ priv = M /\ halted = FALSE
  /\ mstatus = [sie |-> FALSE, mie |-> FALSE, spie |-> FALSE, mpie |-> FALSE,
                spp |-> U, mpp |-> U, mprv |-> FALSE, sum |-> FALSE,
                mxr |-> FALSE, tvm |-> FALSE, tsr |-> FALSE]
  /\ csr = [mie |-> {}, mip |-> {}, medeleg |-> g.medeleg, mideleg |-> g.mideleg,
            stvec |-> g.stvec, mtvec |-> g.mtvec, sepc |-> 0, mepc |-> 0,
            scause |-> NoCause, mcause |-> NoCause]
  /\ satp = [sv32 |-> FALSE, asid |-> 0, ppn |-> 0]
  /\ user = [r \in UserCsr |-> 0]
  /\ tlb = [v \in Vpn |-> {}]
  /\ ram = g.ram
  /\ clint = [msip |-> 0, lo |-> 0, hi |-> 0, cmpLo |-> Half - 1, cmpHi |-> Half - 1]
  /\ stale = {}
  /\ ctx = NoContext

\* step() begins with a tick; run() stops at its limit.
Begins ==
  /\ ~halted
  /\ clint.hi * Half + clint.lo < MaxTime

TakeInterrupt ==
  LET i == PendingInterrupt(Ticked(clint))
  IN  /\ Begins
      /\ i # None
      /\ Trap(i, TRUE)
      /\ clint' = Ticked(clint)
      /\ UNCHANGED tlb

Fetches ==
  /\ Begins
  /\ PendingInterrupt(Ticked(clint)) = None

FetchFaults ==
  /\ Fetches
  /\ Translate(pc, "fetch") = {} /\ ~Throws(pc, "fetch")
  /\ Trap(PageFault["fetch"], FALSE)
  /\ clint' = Ticked(clint)
  /\ UNCHANGED tlb

\* A bus error is a JavaScript exception: the step ends where it is, with the
\* tick and the fills done.
BusError(t) == /\ UNCHANGED hart /\ tlb' = t
               /\ UNCHANGED <<ram, halted, guest, stale, ctx>>

FetchThrows ==
  /\ Fetches
  /\ Throws(pc, "fetch") \/ Translate(pc, "fetch") \ RamWords # {}
  /\ BusError(Filled(pc, "fetch"))
  /\ clint' = Ticked(clint)

Advance == pc' = Wrapped(pc + 1)

\* What most instructions leave alone, beside the tick and the TLB.
Quiet == UNCHANGED <<priv, mstatus, csr, satp, user, ram, halted, guest, stale, ctx>>

Raise(code) == Trap(code, FALSE) /\ tlb' = Filled(pc, "fetch")

\* lui, the ALU, fence, wfi and branches not taken.
Nop(i) == /\ i.op = "nop"
          /\ Advance /\ Quiet /\ tlb' = Filled(pc, "fetch")

\* jal, jalr and branches taken; a target off the word grid traps.
Jump(i) ==
  /\ i.op = "jump"
  /\ IF i.aligned THEN pc' = i.to /\ Quiet /\ tlb' = Filled(pc, "fetch")
     ELSE Raise(MisalignedFetch)

Call(i) ==
  \/ i.op = "ecall" /\ Raise(EcallFrom[priv])
  \/ i.op = "ebreak" /\ Raise(Breakpoint)
  \/ i.op = "illegal" /\ Raise(Illegal)

\* History: a return from a level that has no open context abandons them all.
Sret(i) ==
  /\ i.op = "sret"
  /\ IF priv = U \/ (priv # M /\ mstatus.tsr) THEN Raise(Illegal)
     ELSE /\ pc' = csr.sepc
          /\ priv' = mstatus.spp
          /\ mstatus' = [mstatus EXCEPT !.sie = mstatus.spie, !.spie = TRUE, !.spp = U]
          /\ ctx' = IF priv = M THEN NoContext ELSE [ctx EXCEPT ![S] = {}]
          /\ tlb' = Filled(pc, "fetch")
          /\ UNCHANGED <<csr, satp, user, ram, halted, guest, stale>>

Mret(i) ==
  /\ i.op = "mret"
  /\ IF priv # M THEN Raise(Illegal)
     ELSE /\ pc' = csr.mepc
          /\ priv' = mstatus.mpp
          /\ mstatus' = [mstatus EXCEPT !.mie = mstatus.mpie, !.mpie = TRUE, !.mpp = U]
          /\ ctx' = IF ctx[M] = {} THEN NoContext ELSE [ctx EXCEPT ![M] = {}]
          /\ tlb' = Filled(pc, "fetch")
          /\ UNCHANGED <<csr, satp, user, ram, halted, guest, stale>>

\* History: a fence frees the pages it covers of their past.
Fenced(vpn, asid) ==
  IF vpn = None /\ asid = None THEN {}
  ELSE IF vpn # None THEN stale \ {vpn}
  ELSE {v \in stale : asid # satp.asid \/ \E e \in tlb'[v] : e.global}

Sfence(i) ==
  /\ i.op = "sfence"
  /\ IF priv = U \/ (priv # M /\ mstatus.tvm) THEN Raise(Illegal)
     ELSE /\ tlb' = FlushTlb(Filled(pc, "fetch"), i.vpn, i.asid)
          /\ stale' = Fenced(i.vpn, i.asid)
          /\ Advance
          /\ UNCHANGED <<priv, mstatus, csr, satp, user, ram, halted, guest, ctx>>

-----------------------------------------------------------------------------
(* CSRs.                                                                    *)

\* Mutant: the level of the supervisor's CSRs is taken for the user's.
CsrLevelLow(r) ==
  IF r \in UserCsr \cup {"sstatus", "sie", "sip", "stvec", "sepc", "scause", "satp"}
  THEN U ELSE M

CsrLevel(r) ==
  CASE r \in UserCsr -> U
    [] r \in {"sstatus", "sie", "sip", "stvec", "sepc", "scause", "satp"} -> S
    [] OTHER -> M

\* csrRead of the CSRs that are sets of bits.
CsrRead(r) ==
  CASE r = "sie" -> csr.mie \cap SIrq
    [] r = "sip" -> MipPending(Ticked(clint)) \cap SIrq
    [] r = "mip" -> MipPending(Ticked(clint))
    [] r \in {"mie", "medeleg", "mideleg"} -> csr[r]

\* The value an instruction of form f writes: csrrw, csrrs, csrrc.
Written(r, f, v) ==
  CASE f = "rw" -> v
    [] f = "rs" -> CsrRead(r) \cup v
    [] f = "rc" -> CsrRead(r) \ v

\* History: software that rewrites a saved context answers for it.
Disowned(r) ==
  CASE r \in {"sstatus", "sepc"} -> [ctx EXCEPT ![S] = {}]
    [] r = "mepc"                -> [ctx EXCEPT ![M] = {}]
    [] r = "mstatus"             -> NoContext
    [] OTHER                     -> ctx

Masked(old, new, mask) == (old \ mask) \cup (new \cap mask)

\* What a CSR of user level keeps of a value.
Narrowed(r, v) ==
  CASE r = "fflags" -> v % 32
    [] r = "frm"    -> v % 8
    [] r = "fcsr"   -> v % 256
    [] OTHER        -> v

\* csrWrite: views are merged, device bits of mip stay live, and satp, mstatus
\* and sstatus flush the TLB; the counters are one under both their names.
CsrWrite(r, v) ==
  /\ csr' = CASE r = "sie" -> [csr EXCEPT !.mie = Masked(@, v, SIrq)]
              [] r = "sip" -> [csr EXCEPT !.mip = Masked(@, v, SIrq)]
              [] r = "mip" -> [csr EXCEPT !.mip = v \ DeviceIrq]
              [] r \in DOMAIN csr \ {"mip"} -> [csr EXCEPT ![r] = v]
              [] OTHER -> csr
  /\ mstatus' = CASE r = "mstatus" -> v
                  [] r = "sstatus" ->
                       [mstatus EXCEPT !.sie = v.sie, !.spie = v.spie, !.spp = v.spp,
                                       !.sum = v.sum, !.mxr = v.mxr]
                  [] OTHER -> mstatus
  /\ satp' = IF r = "satp" THEN v ELSE satp
  /\ user' = CASE r \in UserCsr -> [user EXCEPT ![r] = Narrowed(r, v)]
               [] r \in MachineCounter -> [user EXCEPT ![Counter(r)] = v]
               [] OTHER -> user
  /\ LET flush == r \in {"satp", "mstatus", "sstatus"}
         t == Filled(pc, "fetch")
     IN  /\ tlb' = IF flush THEN FlushTlb(t, None, None) ELSE t
         /\ stale' = IF flush THEN {} ELSE stale
  /\ ctx' = Disowned(r)

Csr(i) ==
  /\ i.op = "csr"
  /\ IF \/ CsrLevel(i.csr) > priv
        \/ i.csr = "satp" /\ priv # M /\ mstatus.tvm
        \/ i.csr = "mhartid" /\ i.val # {}
     THEN Raise(Illegal)
     ELSE /\ CsrWrite(i.csr, Written(i.csr, i.form, i.val))
          /\ Advance
          /\ UNCHANGED <<priv, ram, halted, guest>>

-----------------------------------------------------------------------------
(* Loads, stores and the bus.                                               *)

\* The fill of a load or store follows that of its fetch.
AccessFilled(i, acc) ==
  LET fetched == Filled(pc, "fetch")
  IN  IF Page(i.va) = Page(pc) /\ fetched # tlb THEN fetched
      ELSE [fetched EXCEPT ![Page(i.va)] = Filled(i.va, acc)[Page(i.va)]]

Refused(i, acc) ==
  \/ /\ Translate(i.va, acc) = {} /\ ~Throws(i.va, acc)
     /\ Raise(PageFault[acc])
  \/ /\ Throws(i.va, acc) \/ Translate(i.va, acc) \ RamWords # {}
     /\ BusError(AccessFilled(i, acc))

Load(i) ==
  /\ i.op = "load"
  /\ \/ Refused(i, "load")
     \/ /\ Translate(i.va, "load") \cap RamWords # {}
        /\ Advance /\ Quiet /\ tlb' = AccessFilled(i, "load")

\* History: the pages whose walk changes with a store to a table.
Disturbed(mem) ==
  {v \in Vpn : Walk(mem, satp.ppn, v) # Walk(ram, satp.ppn, v)}

Store(i) ==
  /\ i.op = "store"
  /\ \/ Refused(i, "store")
     \/ \E a \in Translate(i.va, "store") \cap RamWords :
          /\ ram' = [ram EXCEPT ![a] = i.val]
          /\ stale' = stale \cup Disturbed(ram')
          /\ tlb' = AccessFilled(i, "store")
          /\ Advance
          /\ UNCHANGED <<priv, mstatus, csr, satp, user, halted, guest, ctx>>

\* A store to a CLINT register, which only untranslated addresses reach here.
StoreClint(i) ==
  /\ i.op = "clint"
  /\ Bare("store")
  /\ Advance /\ Quiet /\ tlb' = Filled(pc, "fetch")

Execute(i) ==
  /\ Fetches
  /\ Translate(pc, "fetch") \cap RamWords # {}
  /\ clint' = IF i.op = "clint" THEN ClintWrite(Ticked(clint), i.reg, i.val)
              ELSE Ticked(clint)
  /\ \/ Nop(i) \/ Jump(i) \/ Call(i) \/ Sret(i) \/ Mret(i) \/ Sfence(i)
     \/ Csr(i) \/ Load(i) \/ Store(i) \/ StoreClint(i)

Init == \E g \in Guests : Reset(g)

Next ==
  \/ TakeInterrupt
  \/ FetchFaults
  \/ FetchThrows
  \/ \E i \in guest.insts : Execute(i)

Spec == Init /\ [][Next]_vars

-----------------------------------------------------------------------------
(* Properties.                                                              *)

\* Every variable keeps its type; in particular the stored mip never holds a
\* device bit, which csrrs of mip reads and would write back.
TypeOK ==
  /\ pc \in Addr /\ priv \in Priv /\ halted \in BOOLEAN /\ guest \in Guests
  /\ mstatus \in Mstatus
  /\ csr \in CsrFile
  /\ satp \in Satp
  /\ user \in [UserCsr -> Nat]
  /\ tlb \in [Vpn -> SUBSET TlbEntry]
  /\ \A v \in Vpn : \A e, f \in tlb[v] : e = f
  /\ ram \in [RamWords -> Pte]
  /\ clint \in ClintRegs
  /\ stale \subseteq Vpn
  /\ ctx \in [{S, M} -> SUBSET Context]

\* What translate answers for a page nobody has touched since the last fence
\* that covers it is what the tables in memory say now, whatever went through
\* the TLB before: translate, flushTlb, csrWrite and sfence.vma together.
TranslationIsWalk ==
  \A v \in Vpn \ stale, acc \in {"fetch", "load", "store"} :
    ~Bare(acc) =>
      Translate(v * Entries, acc) =
        {Frame(e.ppn) * Entries : e \in {w \in Walk(ram, satp.ppn, v) : ~Denied(w.flags, acc)}}

\* The privilege rises by a trap only, to the level the trap is delivered to, on
\* the handler of that level with its interrupts off: mret, sret and CSR writes
\* never raise it, and the delegation register of its kind decides which level it
\* is (trap, system).
NoEscalation ==
  [][priv' > priv =>
       LET tvec == IF priv' = M THEN csr.mtvec ELSE csr.stvec
           cause == IF priv' = M THEN csr'.mcause ELSE csr'.scause
       IN  /\ pc' = VectorTarget(tvec, cause.irq, cause.code) \/ halted'
           /\ (IF priv' = M THEN csr'.mepc ELSE csr'.sepc) = pc
           /\ ~(IF priv' = M THEN mstatus'.mie ELSE mstatus'.sie)
           /\ priv' = S <=> cause.code \in (IF cause.irq THEN csr.mideleg
                                            ELSE csr.medeleg)]_vars

\* Once the machine timer is due, enabled and not delegated, neither user nor
\* supervisor code, nor machine code with MIE set, executes another instruction:
\* the step goes to M (step, pendingInterrupt, Clint).
TimerPreempts ==
  [][(/\ clint.hi * Half + clint.lo + 1 >= clint.cmpHi * Half + clint.cmpLo
      /\ 7 \in csr.mie \ csr.mideleg
      /\ priv = M => mstatus.mie)
     => priv' = M /\ csr'.mcause.irq /\ csr'.mepc = pc]_vars

\* A handler keeps what its trap has saved until it returns or rewrites it: no
\* interrupt reaches a level whose interrupts its own trap has turned off, and
\* the traps and returns of the other level leave it alone.
ContextSafe ==
  /\ \A c \in ctx[S] : /\ csr.sepc = c.pc /\ mstatus.spp = c.priv
                       /\ mstatus.spie = c.ie
  /\ \A c \in ctx[M] : /\ csr.mepc = c.pc /\ mstatus.mpp = c.priv
                       /\ mstatus.mpie = c.ie

\* User code that does not trap changes no CSR but those of its own level, and
\* under Sv32 the word it stores is in a page its translation marks user,
\* writable and dirty (csrLevel, csrWrite, translate).
UserConfined ==
  [][priv = U /\ priv' = U =>
       /\ UNCHANGED <<mstatus, csr, satp, halted>>
       /\ satp.sv32 => \A a \in RamWords : ram'[a] # ram[a] =>
            \E v \in Vpn : \E e \in tlb'[v] :
              Frame(e.ppn) = a \div Entries /\ {"U", "W", "D"} \subseteq e.flags]_vars
=============================================================================
