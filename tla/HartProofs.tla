----------------------------- MODULE HartProofs -----------------------------
(* Theorems about Hart, for every guest that HartAssumption and             *)
(* GuestsAssumption admit.                                                  *)
EXTENDS Hart, TLAPS

-----------------------------------------------------------------------------
(* Arithmetic of pages and words.                                           *)

\* Division with remainder.
LEMMA DivMod ==
  ASSUME NEW d \in Nat \ {0}, NEW a \in Nat
  PROVE  /\ a \div d \in Nat
         /\ a % d \in 0 .. d - 1
         /\ a = ((a \div d) * d) + (a % d)
OBVIOUS

\* The word r of the page q is in page q, at r.
LEMMA Quotient ==
  ASSUME NEW d \in Nat \ {0}, NEW q \in Nat, NEW r \in 0 .. d - 1
  PROVE  /\ ((q * d) + r) \div d = q
         /\ ((q * d) + r) % d = r
OBVIOUS

\* A quotient is below n when the number is below n divisors.
LEMMA QuotientBelow ==
  ASSUME NEW d \in Nat \ {0}, NEW n \in Nat, NEW a \in Nat, a < n * d
  PROVE  a \div d < n
<1>1. SUFFICES ASSUME ~(a \div d < n) PROVE FALSE
  OBVIOUS
<1>2. a \div d \in Nat /\ a = ((a \div d) * d) + (a % d) /\ a % d \in 0 .. d - 1
  BY DivMod
<1>3. (a \div d) * d >= n * d
  BY <1>1, <1>2
<1> QED
  BY <1>2, <1>3

\* q words of d below n pages of d.
LEMMA ProductBelow ==
  ASSUME NEW d \in Nat \ {0}, NEW n \in Nat, NEW q \in Nat, NEW r \in 0 .. d - 1, q < n
  PROVE  (q * d) + r \in 0 .. (n * d) - 1
<1>1. (q + 1) * d <= n * d
  OBVIOUS
<1>2. (q + 1) * d = (q * d) + d
  OBVIOUS
<1> QED
  BY <1>1, <1>2

\* What an address is made of.
LEMMA Paged ==
  ASSUME NEW va \in Addr
  PROVE  /\ Page(va) \in Vpn
         /\ va % Entries \in 0 .. Entries - 1
         /\ va \in Nat
<1>1. Entries * Entries \in Nat /\ va \in Nat /\ va < (Entries * Entries) * Entries
  BY HartAssumption DEF Addr
<1>2. va \div Entries < Entries * Entries
  BY <1>1, QuotientBelow, HartAssumption
<1>3. Entries \in Nat \ {0}
  BY HartAssumption
<1>4. va \div Entries \in Nat /\ va % Entries \in 0 .. Entries - 1
  BY <1>1, <1>3, DivMod
<1>5. \A n \in Nat : va \div Entries < n => va \div Entries \in 0 .. n - 1
  BY <1>4
<1> QED
  BY <1>1, <1>2, <1>4, <1>5 DEF Page, Vpn

\* The first word of a page.
LEMMA PageBase ==
  ASSUME NEW v \in Vpn
  PROVE  /\ v * Entries \in Addr
         /\ Page(v * Entries) = v
         /\ (v * Entries) % Entries = 0
<1>1. v \in Nat /\ v < Entries * Entries /\ Entries * Entries \in Nat
  BY HartAssumption DEF Vpn
<1>2. (v * Entries) + 0 \in 0 .. ((Entries * Entries) * Entries) - 1
  BY <1>1, ProductBelow, HartAssumption
<1>3. ((v * Entries) + 0) \div Entries = v /\ ((v * Entries) + 0) % Entries = 0
  BY <1>1, Quotient, HartAssumption
<1> QED
  BY <1>1, <1>2, <1>3, HartAssumption DEF Addr, Page

\* The two indices of a page number.
LEMMA Indices ==
  ASSUME NEW v \in Vpn
  PROVE  /\ v \div Entries \in 0 .. Entries - 1
         /\ v % Entries \in 0 .. Entries - 1
<1>1. v \in Nat /\ v < Entries * Entries /\ Entries \in Nat \ {0}
  BY HartAssumption DEF Vpn
<1>2. v \div Entries < Entries
  BY <1>1, QuotientBelow
<1>3. v \div Entries \in Nat /\ v % Entries \in 0 .. Entries - 1
  BY <1>1, DivMod
<1> QED
  BY <1>1, <1>2, <1>3

\* An address made of any number wraps into the address space.
LEMMA WrappedAddr == \A n \in Nat : Wrapped(n) \in Addr
<1>1. Entries * Entries * Entries \in Nat \ {0}
  BY HartAssumption
<1> QED
  BY <1>1, DivMod DEF Wrapped, Addr

-----------------------------------------------------------------------------
(* The walk and the TLB.                                                    *)

Leaves == [ppn : Nat, flags : SUBSET Flag]

LEMMA FrameIs ==
  ASSUME NEW p \in Nat
  PROVE  Frame(p) \in Nat
<1>1. Entries * Entries \in Nat \ {0}
  BY HartAssumption
<1> QED
  BY <1>1, DivMod DEF Frame

\* A table in RAM has its entries in RAM.
LEMMA TableInRam ==
  ASSUME NEW f \in Nat, f < Frames, NEW n \in 0 .. Entries - 1
  PROVE  (f * Entries) + n \in RamWords
  BY ProductBelow, HartAssumption DEF RamWords

\* A walk finds at most one leaf.
LEMMA WalkType ==
  ASSUME NEW mem \in [RamWords -> Pte], NEW root \in Nat, NEW v \in Vpn
  PROVE  /\ Walk(mem, root, v) \in SUBSET Leaves
         /\ \A e, f \in Walk(mem, root, v) : e = f
<1> DEFINE pte1 == mem[Frame(root) * Entries + v \div Entries]
           pte0 == mem[Frame(pte1.ppn) * Entries + (v % Entries)]
<1>1. CASE WalkThrows(mem, root, v) \/ BadPte(pte1)
  BY <1>1 DEF Walk
<1>2. CASE ~WalkThrows(mem, root, v) /\ ~BadPte(pte1)
  <2>1. /\ Frame(root) \in Nat /\ Frame(root) < Frames
        /\ IsPointer(pte1) => ~(Frame(pte1.ppn) >= Frames)
    BY <1>2, FrameIs, HartAssumption DEF WalkThrows
  <2>2. pte1 \in Pte
    BY <2>1, TableInRam, Indices
  <2>3. IsPointer(pte1) => pte0 \in Pte
    <3>1. Frame(pte1.ppn) \in Nat /\ v % Entries \in 0 .. Entries - 1
      BY <2>2, Indices, FrameIs DEF Pte
    <3>2. IsPointer(pte1) => Frame(pte1.ppn) < Frames
      BY <2>1, <3>1, HartAssumption
    <3> QED
      BY <3>1, <3>2, TableInRam
  <2>4. v % Entries \in Nat
    BY Indices
  <2> HIDE DEF pte1, pte0
  <2>5. Walk(mem, root, v) =
          IF IsPointer(pte1)
          THEN IF BadPte(pte0) \/ IsPointer(pte0) THEN {}
               ELSE {[ppn |-> pte0.ppn, flags |-> pte0.flags]}
          ELSE IF pte1.ppn % Entries # 0 THEN {}
               ELSE {[ppn |-> pte1.ppn + (v % Entries), flags |-> pte1.flags]}
    BY <1>2 DEF Walk, pte1, pte0
  <2> QED
    BY <2>2, <2>3, <2>4, <2>5 DEF Pte, Leaves
<1> QED
  BY <1>1, <1>2

\* What holds of a TLB t beside tables mem under root and asid: entries are of
\* the current address space, at most one to a page, and where no fence is due
\* they are the leaf the walk finds.
LeafEntry(w, asid) ==
  [ppn |-> w.ppn, flags |-> w.flags, asid |-> asid, global |-> "G" \in w.flags]

TlbType(t) ==
  /\ t \in [Vpn -> SUBSET TlbEntry]
  /\ \A v \in Vpn : \A e, f \in t[v] : e = f

Agrees(t, mem, root, asid, st) ==
  \A v \in Vpn : \A e \in t[v] :
    /\ e.asid = asid
    /\ e.global <=> "G" \in e.flags
    /\ v \notin st => \E w \in Walk(mem, root, v) : e = LeafEntry(w, asid)

TlbAgrees == Agrees(tlb, ram, satp.ppn, satp.asid, stale)

\* The types that a step relies on, as single facts.
LEMMA TypeFacts ==
  ASSUME TypeOK
  PROVE  /\ TlbType(tlb) /\ ram \in [RamWords -> Pte]
         /\ satp.ppn \in Nat /\ satp.asid \in Nat /\ pc \in Addr
BY DEF TypeOK, TlbType, Satp

\* A walk that answers fills in the leaf it found.
LEMMA CachedEntry ==
  ASSUME TypeOK, NEW v \in Vpn, NEW w \in Walk(ram, satp.ppn, v)
  PROVE  /\ Cached(w) = LeafEntry(w, satp.asid)
         /\ Cached(w) \in TlbEntry
         /\ Cached(w).flags = w.flags /\ Cached(w).ppn = w.ppn
         /\ Cached(w).asid = satp.asid
         /\ Cached(w).global <=> "G" \in w.flags
<1>1. w \in Leaves
  BY TypeFacts, WalkType
<1>2. w.ppn \in Nat /\ w.flags \in SUBSET Flag /\ satp.asid \in Nat
  BY <1>1, TypeFacts DEF Leaves
<1>3. Cached(w) = LeafEntry(w, satp.asid)
  BY DEF Cached, LeafEntry
<1>4. ASSUME NEW b \in BOOLEAN
      PROVE  [ppn |-> w.ppn, flags |-> w.flags, asid |-> satp.asid, global |-> b] \in TlbEntry
  BY <1>2 DEF TlbEntry
<1>5. ("G" \in w.flags) \in BOOLEAN
  OBVIOUS
<1>6. Cached(w) \in TlbEntry
  BY <1>4, <1>5, Zenon DEF Cached
<1>7. /\ Cached(w).flags = w.flags /\ Cached(w).ppn = w.ppn
      /\ Cached(w).asid = satp.asid
      /\ Cached(w).global <=> "G" \in w.flags
  BY DEF Cached
<1> QED
  BY <1>3, <1>6, <1>7

\* The entries a fill leaves for a page: those there were, or the leaf.
LEMMA FilledPage ==
  ASSUME TypeOK, NEW va \in Addr, NEW acc, NEW v \in Vpn
  PROVE  \/ Filled(va, acc)[v] = tlb[v]
         \/ /\ v = Page(va) /\ ~Bare(acc) /\ Hit(v) = {}
            /\ Filled(va, acc)[v] =
                 {Cached(e) : e \in {w \in Walk(ram, satp.ppn, v) : ~Denied(w.flags, acc)}}
<1>1. Page(va) \in Vpn /\ DOMAIN tlb = Vpn
  BY Paged, TypeFacts DEF TlbType
<1> DEFINE good == {e \in Walk(ram, satp.ppn, Page(va)) : ~Denied(e.flags, acc)}
<1>2. Filled(va, acc) = IF Bare(acc) \/ Hit(Page(va)) # {} \/ good = {} THEN tlb
                        ELSE [tlb EXCEPT ![Page(va)] = {Cached(e) : e \in good}]
  BY DEF Filled
<1> HIDE DEF good
<1>3. CASE Bare(acc) \/ Hit(Page(va)) # {} \/ good = {}
  BY <1>2, <1>3
<1>4. CASE ~(Bare(acc) \/ Hit(Page(va)) # {} \/ good = {}) /\ v # Page(va)
  BY <1>1, <1>2, <1>4
<1>5. CASE ~(Bare(acc) \/ Hit(Page(va)) # {} \/ good = {}) /\ v = Page(va)
  <2>1. Filled(va, acc)[v] = {Cached(e) : e \in good}
    BY <1>1, <1>2, <1>5
  <2> QED
    BY <2>1, <1>5 DEF good
<1> QED
  BY <1>3, <1>4, <1>5

LEMMA FilledDomain ==
  ASSUME TypeOK, NEW va \in Addr, NEW acc
  PROVE  Filled(va, acc) = [v \in Vpn |-> Filled(va, acc)[v]]
BY TypeFacts DEF Filled, TlbType

\* A fill keeps the TLB well typed and in agreement with the tables.
LEMMA FilledAgrees ==
  ASSUME TypeOK, NEW va \in Addr, NEW acc
  PROVE  /\ TlbType(Filled(va, acc))
         /\ TlbAgrees => Agrees(Filled(va, acc), ram, satp.ppn, satp.asid, stale)
<1> DEFINE t == Filled(va, acc)
<1>1. ASSUME NEW v \in Vpn
      PROVE  /\ t[v] \in SUBSET TlbEntry
             /\ \A e, f \in t[v] : e = f
             /\ TlbAgrees => \A e \in t[v] :
                  /\ e.asid = satp.asid
                  /\ e.global <=> "G" \in e.flags
                  /\ v \notin stale =>
                       \E w \in Walk(ram, satp.ppn, v) : e = LeafEntry(w, satp.asid)
  <2>1. CASE t[v] = tlb[v]
    <3>1. tlb[v] \in SUBSET TlbEntry /\ \A e, f \in tlb[v] : e = f
      BY TypeFacts DEF TlbType
    <3> HIDE DEF t
    <3> QED
      BY <2>1, <3>1 DEF TlbAgrees, Agrees
  <2>2. CASE t[v] = {Cached(e) : e \in {w \in Walk(ram, satp.ppn, v) : ~Denied(w.flags, acc)}}
    <3>1. \A e, f \in Walk(ram, satp.ppn, v) : e = f
      BY TypeFacts, WalkType
    <3>2. \A e \in t[v] : \E w \in Walk(ram, satp.ppn, v) : e = Cached(w)
      BY <2>2
    <3> HIDE DEF t
    <3>3. ASSUME NEW e \in t[v]
          PROVE  /\ e \in TlbEntry /\ e.asid = satp.asid
                 /\ e.global <=> "G" \in e.flags
                 /\ \E w \in Walk(ram, satp.ppn, v) : e = LeafEntry(w, satp.asid)
      <4>1. PICK w \in Walk(ram, satp.ppn, v) : e = Cached(w)
        BY <3>2
      <4> QED
        BY <4>1, CachedEntry
    <3>4. \A e, f \in t[v] : e = f
      BY <3>1, <3>2
    <3> QED
      BY <3>3, <3>4
  <2> QED
    BY <2>1, <2>2, FilledPage
<1>2. t = [v \in Vpn |-> t[v]]
  BY FilledDomain
<1> HIDE DEF t
<1>3. TlbType(t) /\ (TlbAgrees => Agrees(t, ram, satp.ppn, satp.asid, stale))
  BY <1>1, <1>2 DEF TlbType, Agrees
<1> QED
  BY <1>3 DEF t

\* The fill of a load or store on top of that of its fetch.
LEMMA AccessFilledPage ==
  ASSUME TypeOK, NEW i, i.va \in Addr, NEW acc, NEW v \in Vpn
  PROVE  /\ AccessFilled(i, acc) = [x \in Vpn |-> AccessFilled(i, acc)[x]]
         /\ \/ AccessFilled(i, acc)[v] = Filled(pc, "fetch")[v]
            \/ AccessFilled(i, acc)[v] = Filled(i.va, acc)[v]
<1> DEFINE fetched == Filled(pc, "fetch")
<1>1. fetched = [x \in Vpn |-> fetched[x]]
  BY FilledDomain, TypeFacts
<1>2. AccessFilled(i, acc) =
        IF Page(i.va) = Page(pc) /\ fetched # tlb THEN fetched
        ELSE [fetched EXCEPT ![Page(i.va)] = Filled(i.va, acc)[Page(i.va)]]
  BY DEF AccessFilled
<1>3. Page(i.va) \in Vpn
  BY Paged
<1> HIDE DEF fetched
<1>4. /\ AccessFilled(i, acc) = [x \in Vpn |-> AccessFilled(i, acc)[x]]
      /\ \/ AccessFilled(i, acc)[v] = fetched[v]
         \/ AccessFilled(i, acc)[v] = Filled(i.va, acc)[v]
  <2>1. CASE Page(i.va) = Page(pc) /\ fetched # tlb
    BY <2>1, <1>1, <1>2
  <2>2. CASE ~(Page(i.va) = Page(pc) /\ fetched # tlb)
    BY <2>2, <1>1, <1>2, <1>3
  <2> QED
    BY <2>1, <2>2
<1> QED
  BY <1>4 DEF fetched

\* A TLB made page by page of two that are good is good.
LEMMA Mixed ==
  ASSUME NEW t, NEW t1, NEW t2, NEW mem, NEW root, NEW asid, NEW st,
         TlbType(t1), TlbType(t2), t = [v \in Vpn |-> t[v]],
         \A v \in Vpn : t[v] = t1[v] \/ t[v] = t2[v]
  PROVE  /\ TlbType(t)
         /\ Agrees(t1, mem, root, asid, st) /\ Agrees(t2, mem, root, asid, st)
              => Agrees(t, mem, root, asid, st)
<1>1. ASSUME NEW v \in Vpn
      PROVE  t[v] \in SUBSET TlbEntry /\ \A e, f \in t[v] : e = f
  BY DEF TlbType
<1>2. TlbType(t)
  BY <1>1 DEF TlbType
<1>3. ASSUME Agrees(t1, mem, root, asid, st), Agrees(t2, mem, root, asid, st),
             NEW v \in Vpn, NEW e \in t[v]
      PROVE  /\ e.asid = asid
             /\ e.global <=> "G" \in e.flags
             /\ v \notin st => \E w \in Walk(mem, root, v) : e = LeafEntry(w, asid)
  BY <1>3 DEF Agrees
<1> QED
  BY <1>2, <1>3 DEF Agrees

LEMMA AccessFilledAgrees ==
  ASSUME TypeOK, NEW i, i.va \in Addr, NEW acc
  PROVE  /\ TlbType(AccessFilled(i, acc))
         /\ TlbAgrees => Agrees(AccessFilled(i, acc), ram, satp.ppn, satp.asid, stale)
<1> DEFINE t == AccessFilled(i, acc)
           t1 == Filled(pc, "fetch")
           t2 == Filled(i.va, acc)
<1>1. /\ TlbType(t1) /\ TlbType(t2)
      /\ TlbAgrees => /\ Agrees(t1, ram, satp.ppn, satp.asid, stale)
                     /\ Agrees(t2, ram, satp.ppn, satp.asid, stale)
  BY FilledAgrees, TypeFacts
<1>2. \A v \in Vpn : t[v] = t1[v] \/ t[v] = t2[v]
  BY AccessFilledPage
<1>3. t = [v \in Vpn |-> t[v]]
  <2>1. 0 \in Vpn
    BY HartAssumption DEF Vpn
  <2> QED
    BY <2>1, AccessFilledPage
<1> HIDE DEF t, t1, t2
<1>4. TlbType(t) /\ (TlbAgrees => Agrees(t, ram, satp.ppn, satp.asid, stale))
  BY <1>1, <1>2, <1>3, Mixed
<1> QED
  BY <1>4 DEF t

\* A flush keeps entries or drops them.
LEMMA FlushPage ==
  ASSUME NEW t, TlbType(t), NEW vpn \in Vpn \cup {None}, NEW asid
  PROVE  /\ FlushTlb(t, vpn, asid) = [x \in Vpn |-> FlushTlb(t, vpn, asid)[x]]
         /\ \A v \in Vpn : FlushTlb(t, vpn, asid)[v] \subseteq t[v]
<1>1. CASE vpn = None /\ asid = None
  BY <1>1 DEF FlushTlb
<1>2. CASE vpn # None
  BY <1>2 DEF FlushTlb, TlbType
<1>3. CASE vpn = None /\ asid # None
  BY <1>3 DEF FlushTlb
<1> QED
  BY <1>1, <1>2, <1>3

\* What is left of a good TLB is good.
LEMMA Fewer ==
  ASSUME NEW t, NEW t1, NEW mem, NEW root, NEW asid, NEW st, TlbType(t1),
         t = [v \in Vpn |-> t[v]], \A v \in Vpn : t[v] \subseteq t1[v]
  PROVE  /\ TlbType(t)
         /\ Agrees(t1, mem, root, asid, st) => Agrees(t, mem, root, asid, st)
<1>1. ASSUME NEW v \in Vpn
      PROVE  t[v] \in SUBSET TlbEntry /\ \A e, f \in t[v] : e = f
  BY DEF TlbType
<1>2. TlbType(t)
  BY <1>1 DEF TlbType
<1> QED
  BY <1>2 DEF Agrees

\* After a fence only what it covers is new: no entry is left of a page that
\* leaves the stale ones.
LEMMA FenceAgrees ==
  ASSUME TypeOK, TlbAgrees, NEW vpn \in Vpn \cup {None}, NEW asid,
         tlb' = FlushTlb(Filled(pc, "fetch"), vpn, asid)
  PROVE  Agrees(tlb', ram, satp.ppn, satp.asid, Fenced(vpn, asid))
<1> DEFINE t == Filled(pc, "fetch")
<1>1. TlbType(t) /\ Agrees(t, ram, satp.ppn, satp.asid, stale)
  BY FilledAgrees, TypeFacts
<1>2. tlb' = FlushTlb(t, vpn, asid)
  OBVIOUS
<1> HIDE DEF t
<1>3. Agrees(tlb', ram, satp.ppn, satp.asid, stale) /\ TlbType(tlb')
  BY <1>1, <1>2, FlushPage, Fewer
<1>4. \A v \in stale \cap Vpn : v \notin Fenced(vpn, asid) => tlb'[v] = {}
  <2>1. CASE vpn = None /\ asid = None
    BY <2>1, <1>2 DEF FlushTlb
  <2>2. CASE vpn # None
    BY <2>2, <1>1, <1>2 DEF FlushTlb, TlbType, Fenced
  <2>3. CASE vpn = None /\ asid # None
    <3>1. ASSUME NEW v \in stale \cap Vpn, v \notin Fenced(vpn, asid), NEW e \in tlb'[v]
          PROVE  FALSE
      <4>1. asid = satp.asid /\ ~e.global
        BY <2>3, <3>1 DEF Fenced
      <4>2. e.asid # asid \/ "G" \in e.flags
        BY <2>3, <1>2 DEF FlushTlb
      <4> QED
        BY <4>1, <4>2, <1>3 DEF Agrees
    <3> QED
      BY <3>1
  <2> QED
    BY <2>1, <2>2, <2>3
<1> QED
  BY <1>3, <1>4 DEF Agrees

-----------------------------------------------------------------------------
(* Types.                                                                   *)

\* What the type invariant says of all but the TLB and the CLINT.
HartOK ==
  /\ pc \in Addr /\ priv \in Priv /\ halted \in BOOLEAN /\ guest \in Guests
  /\ mstatus \in Mstatus /\ csr \in CsrFile /\ satp \in Satp
  /\ user \in [UserCsr -> Nat]
  /\ ram \in [RamWords -> Pte]
  /\ stale \subseteq Vpn
  /\ ctx \in [{S, M} -> SUBSET Context]

LEMMA TypeParts == TypeOK <=> HartOK /\ TlbType(tlb) /\ clint \in ClintRegs
BY DEF TypeOK, HartOK, TlbType

LEMMA TypePartsNext == TypeOK' <=> HartOK' /\ TlbType(tlb') /\ clint' \in ClintRegs
BY DEF TypeOK, HartOK, TlbType

LEMMA TickedType == ASSUME NEW c \in ClintRegs PROVE Ticked(c) \in ClintRegs
<1>1. /\ c.lo \in 0 .. Half - 1 /\ c.hi \in 0 .. Half - 1
      /\ c.msip \in {0, 1} /\ c.cmpLo \in 0 .. Half - 1 /\ c.cmpHi \in 0 .. Half - 1
  BY DEF ClintRegs
<1>2. (c.lo + 1) % Half \in 0 .. Half - 1 /\ (c.hi + 1) % Half \in 0 .. Half - 1
  <2>1. c.lo + 1 \in Nat /\ c.hi + 1 \in Nat /\ Half \in Nat \ {0}
    BY <1>1, HartAssumption
  <2> QED
    BY <2>1, DivMod
<1>3. ASSUME NEW l \in 0 .. Half - 1, NEW h \in 0 .. Half - 1
      PROVE  [c EXCEPT !.lo = l, !.hi = h] \in ClintRegs
  BY <1>1 DEF ClintRegs
<1>4. ASSUME NEW l \in 0 .. Half - 1, NEW h \in 0 .. Half - 1
      PROVE  [c EXCEPT !.lo = l, !.hi = IF l = 0 THEN h ELSE @] \in ClintRegs
  BY <1>1 DEF ClintRegs
<1> QED
  BY <1>2, <1>4 DEF Ticked

LEMMA ClintWriteType ==
  ASSUME NEW c \in ClintRegs, NEW i, IsInst(i), i.op = "clint"
  PROVE  ClintWrite(c, i.reg, i.val) \in ClintRegs
<1>1. \/ i.reg = "msip" /\ i.val \in Nat
      \/ i.reg \in {"cmpLo", "cmpHi", "mtime"} /\ i.val \in 0 .. Half - 1
  BY DEF IsInst
<1>2. \A n \in Nat : n % 2 \in {0, 1}
  OBVIOUS
<1>3. CASE i.reg = "msip"
  BY <1>1, <1>2, <1>3 DEF ClintWrite, ClintRegs
<1>4. CASE i.reg = "cmpLo"
  BY <1>1, <1>4 DEF ClintWrite, ClintRegs
<1>5. CASE i.reg = "cmpHi"
  BY <1>1, <1>5 DEF ClintWrite, ClintRegs
<1>6. CASE i.reg = "mtime"
  BY <1>1, <1>6 DEF ClintWrite, ClintRegs
<1> QED
  BY <1>1, <1>3, <1>4, <1>5, <1>6

LEMMA Privileges == U = 0 /\ S = 1 /\ M = 3 /\ Priv = {0, 1, 3}
BY DEF U, S, M, Priv

\* Where a trap may go: M, or S by delegation from below M.
LEMMA TrapTo ==
  ASSUME NEW code, NEW irq
  PROVE  /\ TrapTarget(code, irq) \in {S, M}
         /\ TrapTarget(code, irq) = S <=>
              priv # M /\ code \in (IF irq THEN csr.mideleg ELSE csr.medeleg)
BY DEF TrapTarget, S, M

LEMMA VectorType ==
  ASSUME NEW t \in Tvec, NEW irq, NEW code \in Irq \cup Exception
  PROVE  VectorTarget(t, irq, code) \in Addr
<1>1. t.base \in Addr /\ t.base \in Nat /\ code \in Nat
  BY DEF Tvec, Addr, Irq, Exception
<1>2. Wrapped(t.base + code) \in Addr
  BY <1>1, WrappedAddr
<1> QED
  BY <1>1, <1>2 DEF VectorTarget

LEMMA TrapType ==
  ASSUME HartOK, NEW code \in Irq \cup Exception, NEW irq \in BOOLEAN, Trap(code, irq)
  PROVE  HartOK'
<1> DEFINE to == TrapTarget(code, irq)
           tvec == IF to = S THEN csr.stvec ELSE csr.mtvec
           cause == [irq |-> irq, code |-> code]
<1>1. to \in {S, M} /\ to \in Priv
  BY TrapTo DEF Priv
<1>2. tvec \in Tvec /\ cause \in Cause /\ VectorTarget(tvec, irq, code) \in Addr
  <2>1. csr.stvec \in Tvec /\ csr.mtvec \in Tvec
    BY DEF HartOK, CsrFile
  <2> QED
    BY <2>1, VectorType DEF Cause
<1>3. /\ csr' = IF to = S THEN [csr EXCEPT !.sepc = pc, !.scause = cause]
                ELSE [csr EXCEPT !.mepc = pc, !.mcause = cause]
      /\ mstatus' = TrapStatus(to)
      /\ priv' = to
      /\ halted' = (tvec = Unset)
      /\ pc' = IF tvec = Unset THEN pc ELSE VectorTarget(tvec, irq, code)
      /\ ctx' = Opened(to, irq)
      /\ UNCHANGED <<satp, user, ram, guest, stale>>
  BY DEF Trap
<1> HIDE DEF to, tvec, cause
<1>4. csr' \in CsrFile
  BY <1>1, <1>2, <1>3 DEF HartOK, CsrFile
<1>5. mstatus' \in Mstatus
  <2>1. CASE to = S
    <3>1. priv \in {U, S}
      BY <2>1, TrapTo DEF to, HartOK, Priv
    <3> QED
      BY <2>1, <3>1, <1>3 DEF HartOK, Mstatus, TrapStatus
  <2>2. CASE to # S
    BY <2>2, <1>3 DEF HartOK, Mstatus, TrapStatus
  <2> QED
    BY <2>1, <2>2
<1>6. ctx' \in [{S, M} -> SUBSET Context]
  <2>1. mstatus.sie \in BOOLEAN /\ mstatus.mie \in BOOLEAN
    BY DEF HartOK, Mstatus
  <2>2. [pc |-> pc, priv |-> priv, ie |-> IF to = S THEN mstatus.sie ELSE mstatus.mie]
          \in Context
    BY <2>1 DEF HartOK, Context
  <2> QED
    BY <2>2, <1>1, <1>3 DEF HartOK, Opened
<1>7. halted' \in BOOLEAN
  BY <1>3
<1> QED
  BY <1>1, <1>2, <1>3, <1>4, <1>5, <1>6, <1>7 DEF HartOK

\* A set of bits read, set or cleared stays one.
LEMMA MipType ==
  ASSUME HartOK, NEW c
  PROVE  MipPending(c) \in SUBSET Irq
<1>1. csr.mip \in SUBSET Irq
  BY DEF HartOK, CsrFile
<1> QED
  BY <1>1 DEF MipPending, Irq, DeviceIrq

LEMMA WrittenType ==
  ASSUME HartOK, NEW i, i.op = "csr", IsInst(i)
  PROVE  LET w == Written(i.csr, i.form, i.val)
         IN  /\ i.csr \in {"mie", "mip", "sie", "sip", "mideleg"} => w \in SUBSET Irq
             /\ i.csr = "medeleg" => w \in SUBSET Exception
             /\ i.csr \in {"stvec", "mtvec"} => w \in Tvec
             /\ i.csr \in {"sepc", "mepc"} => w \in Addr
             /\ i.csr \in {"scause", "mcause"} => w \in Cause
             /\ i.csr \in {"mstatus", "sstatus"} => w \in Mstatus
             /\ i.csr = "satp" => w \in Satp
             /\ i.csr \in UserCsr \cup MachineCounter => w \in Nat
<1>1. IsCsrOperand(i)
  BY DEF IsInst
<1> USE DEF UserCsr, MachineCounter
<1>2. CASE i.csr \in {"mie", "mip", "sie", "sip", "mideleg"}
  <2>1. i.form \in {"rw", "rs", "rc"} /\ i.val \in SUBSET Irq
    BY <1>1, <1>2 DEF IsCsrOperand
  <2>2. CsrRead(i.csr) \in SUBSET Irq
    <3>1. csr.mie \in SUBSET Irq /\ csr.mideleg \in SUBSET Irq
      BY DEF HartOK, CsrFile
    <3> QED
      BY <1>2, <3>1, MipType DEF CsrRead
  <2>3. Written(i.csr, i.form, i.val) \in SUBSET Irq
    BY <2>1, <2>2 DEF Written
  <2> QED
    BY <1>2, <2>3
<1>3. CASE i.csr = "medeleg"
  <2>1. i.form \in {"rw", "rs", "rc"} /\ i.val \in SUBSET Exception
    BY <1>1, <1>3 DEF IsCsrOperand
  <2>2. CsrRead(i.csr) \in SUBSET Exception
    BY <1>3 DEF CsrRead, HartOK, CsrFile
  <2>3. Written(i.csr, i.form, i.val) \in SUBSET Exception
    BY <2>1, <2>2 DEF Written
  <2> QED
    BY <1>3, <2>3
<1>4. CASE i.csr \notin {"mie", "mip", "sie", "sip", "mideleg", "medeleg"}
  <2>1. i.form = "rw" => Written(i.csr, i.form, i.val) = i.val
    BY DEF Written
  <2> QED
    BY <1>1, <1>4, <2>1 DEF IsCsrOperand
<1> QED
  BY <1>2, <1>3, <1>4

LEMMA CsrWriteType ==
  ASSUME HartOK, NEW i, i.op = "csr", IsInst(i),
         CsrWrite(i.csr, Written(i.csr, i.form, i.val))
  PROVE  /\ csr' \in CsrFile /\ mstatus' \in Mstatus /\ satp' \in Satp
         /\ user' \in [UserCsr -> Nat]
         /\ ctx' \in [{S, M} -> SUBSET Context] /\ stale' \subseteq Vpn
<1> DEFINE r == i.csr
           w == Written(i.csr, i.form, i.val)
<1>1. /\ r \in {"mie", "mip", "sie", "sip", "mideleg"} => w \in SUBSET Irq
      /\ r = "medeleg" => w \in SUBSET Exception
      /\ r \in {"stvec", "mtvec"} => w \in Tvec
      /\ r \in {"sepc", "mepc"} => w \in Addr
      /\ r \in {"scause", "mcause"} => w \in Cause
      /\ r \in {"mstatus", "sstatus"} => w \in Mstatus
      /\ r = "satp" => w \in Satp
      /\ r \in UserCsr \cup MachineCounter => w \in Nat
  BY WrittenType
<1>2. CsrWrite(r, w)
  OBVIOUS
<1> HIDE DEF r, w
<1>3. csr' \in CsrFile
  <2>1. /\ csr' = CASE r = "sie" -> [csr EXCEPT !.mie = Masked(csr.mie, w, SIrq)]
                    [] r = "sip" -> [csr EXCEPT !.mip = Masked(csr.mip, w, SIrq)]
                    [] r = "mip" -> [csr EXCEPT !.mip = w \ DeviceIrq]
                    [] r \in DOMAIN csr \ {"mip"} -> [csr EXCEPT ![r] = w]
                    [] OTHER -> csr
        /\ csr \in CsrFile
    BY <1>2 DEF CsrWrite, HartOK
  <2>2. DOMAIN csr = {"mie", "mip", "medeleg", "mideleg", "stvec", "mtvec", "sepc",
                      "mepc", "scause", "mcause"}
    BY <2>1 DEF CsrFile
  <2>3. csr.mie \in SUBSET Irq /\ csr.mip \in SUBSET (Irq \ DeviceIrq)
    BY <2>1 DEF CsrFile
  <2>4. CASE r = "sie"
    <3>1. Masked(csr.mie, w, SIrq) \in SUBSET Irq
      BY <1>1, <2>3, <2>4 DEF Masked
    <3>2. csr' = [csr EXCEPT !.mie = Masked(csr.mie, w, SIrq)]
      BY <2>1, <2>2, <2>4
    <3> QED
      BY <2>1, <3>1, <3>2 DEF CsrFile
  <2>5. CASE r = "sip"
    <3>1. Masked(csr.mip, w, SIrq) \in SUBSET (Irq \ DeviceIrq)
      BY <1>1, <2>3, <2>5 DEF Masked, SIrq, DeviceIrq
    <3>2. csr' = [csr EXCEPT !.mip = Masked(csr.mip, w, SIrq)]
      BY <2>1, <2>2, <2>5
    <3> QED
      BY <2>1, <3>1, <3>2 DEF CsrFile
  <2>6. CASE r = "mip"
    <3>1. w \ DeviceIrq \in SUBSET (Irq \ DeviceIrq)
      BY <1>1, <2>6
    <3>2. csr' = [csr EXCEPT !.mip = w \ DeviceIrq]
      BY <2>1, <2>6
    <3> QED
      BY <2>1, <3>1, <3>2 DEF CsrFile
  <2>7. CASE r \in DOMAIN csr \ {"mip"}
    <3>1. csr' = [csr EXCEPT ![r] = w]
      BY <2>1, <2>2, <2>7
    <3>2. CASE r \in {"mie", "mideleg"}
      BY <1>1, <2>1, <3>1, <3>2 DEF CsrFile
    <3>3. CASE r = "medeleg"
      BY <1>1, <2>1, <3>1, <3>3 DEF CsrFile
    <3>4. CASE r \in {"stvec", "mtvec"}
      BY <1>1, <2>1, <3>1, <3>4 DEF CsrFile
    <3>5. CASE r \in {"sepc", "mepc"}
      BY <1>1, <2>1, <3>1, <3>5 DEF CsrFile
    <3>6. CASE r \in {"scause", "mcause"}
      BY <1>1, <2>1, <3>1, <3>6 DEF CsrFile
    <3> QED
      BY <2>2, <2>7, <3>2, <3>3, <3>4, <3>5, <3>6
  <2>8. CASE r \notin DOMAIN csr \cup {"sie", "sip"}
    BY <2>1, <2>2, <2>8
  <2> QED
    BY <2>2, <2>4, <2>5, <2>6, <2>7, <2>8
<1>4. mstatus' \in Mstatus
  <2>1. mstatus' = CASE r = "mstatus" -> w
                     [] r = "sstatus" ->
                          [mstatus EXCEPT !.sie = w.sie, !.spie = w.spie, !.spp = w.spp,
                                          !.sum = w.sum, !.mxr = w.mxr]
                     [] OTHER -> mstatus
    BY <1>2 DEF CsrWrite
  <2>2. mstatus \in Mstatus
    BY DEF HartOK
  <2>3. CASE r = "mstatus"
    BY <1>1, <2>1, <2>3
  <2>4. CASE r = "sstatus"
    BY <1>1, <2>1, <2>2, <2>4 DEF Mstatus
  <2>5. CASE r \notin {"mstatus", "sstatus"}
    BY <2>1, <2>2, <2>5
  <2> QED
    BY <2>3, <2>4, <2>5
<1>5. satp' \in Satp /\ stale' \subseteq Vpn
  BY <1>1, <1>2 DEF CsrWrite, HartOK
<1>6. ctx' \in [{S, M} -> SUBSET Context]
  <2>1. ctx' = Disowned(r)
    BY <1>2 DEF CsrWrite
  <2>2. NoContext \in [{S, M} -> SUBSET Context]
    BY DEF NoContext
  <2> QED
    BY <2>1, <2>2 DEF Disowned, HartOK
<1>7. user' \in [UserCsr -> Nat]
  <2>1. user \in [UserCsr -> Nat]
    BY DEF HartOK
  <2>2. user' = CASE r \in UserCsr -> [user EXCEPT ![r] = Narrowed(r, w)]
                  [] r \in MachineCounter -> [user EXCEPT ![Counter(r)] = w]
                  [] OTHER -> user
    BY <1>2 DEF CsrWrite
  <2>3. UserCsr \cap MachineCounter = {}
    BY DEF UserCsr, MachineCounter
  <2>4. CASE r \in UserCsr
    <3>1. user' = [user EXCEPT ![r] = Narrowed(r, w)]
      BY <2>4, <2>2, <2>3
    <3>2. w \in Nat
      BY <1>1, <2>4
    <3>3. Narrowed(r, w) \in Nat
      BY <3>2 DEF Narrowed
    <3> QED
      BY <2>1, <3>1, <3>3
  <2>5. CASE r \in MachineCounter
    <3>1. user' = [user EXCEPT ![Counter(r)] = w]
      BY <2>5, <2>2, <2>3
    <3>2. w \in Nat
      BY <1>1, <2>5
    <3> QED
      BY <2>1, <3>1, <3>2
  <2>6. CASE r \notin UserCsr \cup MachineCounter
    BY <2>1, <2>6, <2>2
  <2> QED
    BY <2>4, <2>5, <2>6
<1> QED
  BY <1>3, <1>4, <1>5, <1>6, <1>7

-----------------------------------------------------------------------------
(* The interrupt a step takes.                                              *)

Ready(c) == {i \in MipPending(c) \cap Irq : Eligible(i)}

\* Among any interrupts there is one of least rank.
LEMMA LeastRank ==
  ASSUME NEW R \in SUBSET Irq, R # {}
  PROVE  \E i \in R : \A j \in R : Rank[i] <= Rank[j]
<1>1. /\ Rank[11] = 1 /\ Rank[3] = 2 /\ Rank[7] = 3
      /\ Rank[9] = 4 /\ Rank[1] = 5 /\ Rank[5] = 6
  BY DEF Rank, Irq
<1>2. \A j \in R : j \in {11, 3, 7, 9, 1, 5}
  BY DEF Irq
<1>3. CASE 11 \in R
  BY <1>1, <1>2, <1>3
<1>4. CASE 11 \notin R /\ 3 \in R
  BY <1>1, <1>2, <1>4
<1>5. CASE 11 \notin R /\ 3 \notin R /\ 7 \in R
  BY <1>1, <1>2, <1>5
<1>6. CASE R \cap {11, 3, 7} = {} /\ 9 \in R
  BY <1>1, <1>2, <1>6
<1>7. CASE R \cap {11, 3, 7, 9} = {} /\ 1 \in R
  BY <1>1, <1>2, <1>7
<1>8. CASE R \cap {11, 3, 7, 9, 1} = {}
  <2>1. 5 \in R /\ \A j \in R : j = 5
    BY <1>2, <1>8
  <2> QED
    BY <1>1, <2>1
<1> QED
  BY <1>3, <1>4, <1>5, <1>6, <1>7, <1>8

\* No interrupt only if none is ready; else one that is, of least rank.
LEMMA Pending ==
  ASSUME NEW c
  PROVE  /\ PendingInterrupt(c) = None <=> Ready(c) = {}
         /\ PendingInterrupt(c) # None =>
              /\ PendingInterrupt(c) \in Ready(c)
              /\ \A j \in Ready(c) : Rank[PendingInterrupt(c)] <= Rank[j]
<1>1. PendingInterrupt(c) =
        IF Ready(c) = {} THEN None
        ELSE CHOOSE i \in Ready(c) : \A j \in Ready(c) : Rank[i] <= Rank[j]
  BY DEF PendingInterrupt, Ready
<1>2. Ready(c) \in SUBSET Irq
  BY DEF Ready
<1>3. None \notin Irq
  BY DEF None, Irq
<1>4. CASE Ready(c) = {}
  BY <1>1, <1>4
<1>5. CASE Ready(c) # {}
  <2>1. \E i \in Ready(c) : \A j \in Ready(c) : Rank[i] <= Rank[j]
    BY <1>2, <1>5, LeastRank
  <2>2. /\ PendingInterrupt(c) \in Ready(c)
        /\ \A j \in Ready(c) : Rank[PendingInterrupt(c)] <= Rank[j]
    BY <1>1, <1>5, <2>1, Zenon
  <2> QED
    BY <1>2, <1>3, <1>5, <2>2
<1> QED
  BY <1>4, <1>5

-----------------------------------------------------------------------------
(* The type invariant.                                                      *)

LEMMA GuestInst ==
  ASSUME HartOK, NEW i \in guest.insts
  PROVE  IsInst(i)
BY GuestsAssumption DEF HartOK

LEMMA Causes ==
  /\ \A p \in Priv : EcallFrom[p] \in Exception
  /\ PageFault["fetch"] \in Exception /\ PageFault["load"] \in Exception
  /\ PageFault["store"] \in Exception
  /\ MisalignedFetch \in Exception /\ Illegal \in Exception /\ Breakpoint \in Exception
  /\ \A p \in Priv : EcallFrom[p] \in Irq \cup Exception
<1>1. /\ \A p \in Priv : EcallFrom[p] \in {8, 9, 11}
  BY Privileges DEF EcallFrom, U, S, M
<1> QED
  BY <1>1 DEF Exception, PageFault, MisalignedFetch, Illegal, Breakpoint

LEMMA AdvanceType == ASSUME HartOK, Advance PROVE pc' \in Addr
<1>1. pc + 1 \in Nat
  BY DEF HartOK, Addr
<1> QED
  BY <1>1, WrappedAddr DEF Advance

\* Raising an exception from an instruction.
LEMMA RaiseType ==
  ASSUME TypeOK, NEW code \in Exception, Raise(code)
  PROVE  HartOK' /\ TlbType(tlb')
<1>1. HartOK'
  BY TypeParts, TrapType DEF Raise
<1>2. TlbType(tlb')
  BY FilledAgrees, TypeFacts DEF Raise
<1> QED
  BY <1>1, <1>2

LEMMA QuietType ==
  ASSUME HartOK, Quiet, pc' \in Addr
  PROVE  HartOK'
BY DEF HartOK, Quiet

LEMMA BusErrorType ==
  ASSUME HartOK, NEW t, BusError(t)
  PROVE  HartOK'
BY DEF HartOK, BusError, hart

LEMMA InstType ==
  ASSUME TypeOK, NEW i, IsInst(i),
         \/ Nop(i) \/ Jump(i) \/ Call(i) \/ Sret(i) \/ Mret(i) \/ Sfence(i)
         \/ Csr(i) \/ Load(i) \/ Store(i) \/ StoreClint(i)
  PROVE  HartOK' /\ TlbType(tlb')
<1>1. HartOK /\ TlbType(Filled(pc, "fetch"))
  BY TypeParts, TypeFacts, FilledAgrees
<1>2. CASE Nop(i)
  BY <1>1, <1>2, AdvanceType, QuietType DEF Nop
<1>3. CASE Jump(i)
  <2>1. i.to \in Addr
    BY <1>3 DEF Jump, IsInst
  <2> QED
    BY <1>1, <1>3, <2>1, QuietType, RaiseType, Causes DEF Jump
<1>4. CASE Call(i)
  BY <1>1, <1>4, RaiseType, Causes DEF Call, HartOK
<1>5. CASE Sret(i)
  <2>1. CASE Raise(Illegal)
    BY <2>1, RaiseType, Causes
  <2>2. CASE ~Raise(Illegal)
    <3>1. /\ pc' = csr.sepc /\ priv' = mstatus.spp
          /\ mstatus' = [mstatus EXCEPT !.sie = mstatus.spie, !.spie = TRUE, !.spp = U]
          /\ ctx' = IF priv = M THEN NoContext ELSE [ctx EXCEPT ![S] = {}]
          /\ tlb' = Filled(pc, "fetch")
          /\ UNCHANGED <<csr, satp, user, ram, halted, guest, stale>>
      BY <1>5, <2>2 DEF Sret
    <3>2. mstatus' \in Mstatus /\ priv' \in Priv /\ pc' \in Addr
      BY <1>1, <3>1 DEF HartOK, Mstatus, CsrFile, U, S, Priv
    <3>3. ctx' \in [{S, M} -> SUBSET Context]
      BY <1>1, <3>1 DEF HartOK, NoContext
    <3> QED
      BY <1>1, <3>1, <3>2, <3>3 DEF HartOK
  <2> QED
    BY <2>1, <2>2
<1>6. CASE Mret(i)
  <2>1. CASE Raise(Illegal)
    BY <2>1, RaiseType, Causes
  <2>2. CASE ~Raise(Illegal)
    <3>1. /\ pc' = csr.mepc /\ priv' = mstatus.mpp
          /\ mstatus' = [mstatus EXCEPT !.mie = mstatus.mpie, !.mpie = TRUE, !.mpp = U]
          /\ ctx' = IF ctx[M] = {} THEN NoContext ELSE [ctx EXCEPT ![M] = {}]
          /\ tlb' = Filled(pc, "fetch")
          /\ UNCHANGED <<csr, satp, user, ram, halted, guest, stale>>
      BY <1>6, <2>2 DEF Mret
    <3>2. mstatus' \in Mstatus /\ priv' \in Priv /\ pc' \in Addr
      BY <1>1, <3>1 DEF HartOK, Mstatus, CsrFile, U, S, Priv
    <3>3. ctx' \in [{S, M} -> SUBSET Context]
      BY <1>1, <3>1 DEF HartOK, NoContext
    <3> QED
      BY <1>1, <3>1, <3>2, <3>3 DEF HartOK
  <2> QED
    BY <2>1, <2>2
<1>7. CASE Sfence(i)
  <2>1. CASE Raise(Illegal)
    BY <2>1, RaiseType, Causes
  <2>2. CASE ~Raise(Illegal)
    <3>1. i.vpn \in Vpn \cup {None}
      BY <1>7 DEF Sfence, IsInst
    <3>2. /\ tlb' = FlushTlb(Filled(pc, "fetch"), i.vpn, i.asid)
          /\ stale' = Fenced(i.vpn, i.asid)
          /\ Advance
          /\ UNCHANGED <<priv, mstatus, csr, satp, user, ram, halted, guest, ctx>>
      BY <1>7, <2>2 DEF Sfence
    <3>3. TlbType(tlb')
      BY <1>1, <3>1, <3>2, FlushPage, Fewer
    <3>4. stale' \subseteq Vpn
      BY <1>1, <3>2 DEF HartOK, Fenced
    <3> QED
      BY <1>1, <3>2, <3>3, <3>4, AdvanceType DEF HartOK
  <2> QED
    BY <2>1, <2>2
<1>8. CASE Csr(i)
  <2>1. CASE Raise(Illegal)
    BY <2>1, RaiseType, Causes
  <2>2. CASE ~Raise(Illegal)
    <3>1. /\ i.op = "csr" /\ CsrWrite(i.csr, Written(i.csr, i.form, i.val))
          /\ Advance /\ UNCHANGED <<priv, ram, halted, guest>>
      BY <1>8, <2>2 DEF Csr
    <3>2. HartOK'
      BY <1>1, <3>1, CsrWriteType, AdvanceType DEF HartOK
    <3>3. \/ tlb' = Filled(pc, "fetch")
          \/ tlb' = FlushTlb(Filled(pc, "fetch"), None, None)
      BY <3>1 DEF CsrWrite
    <3>4. TlbType(tlb')
      BY <1>1, <3>3, FlushPage, Fewer
    <3> QED
      BY <3>2, <3>4
  <2> QED
    BY <2>1, <2>2
<1>9. CASE Load(i)
  <2>1. i.va \in Addr
    BY <1>9 DEF Load, IsInst
  <2>2. TlbType(AccessFilled(i, "load"))
    BY <2>1, AccessFilledAgrees
  <2> QED
    BY <1>1, <1>9, <2>2, RaiseType, Causes, AdvanceType, QuietType, BusErrorType
       DEF Load, Refused, BusError
<1>10. CASE Store(i)
  <2>1. i.va \in Addr /\ i.val \in Pte
    BY <1>10 DEF Store, IsInst
  <2>2. TlbType(AccessFilled(i, "store"))
    BY <2>1, AccessFilledAgrees
  <2>3. CASE Refused(i, "store")
    BY <1>1, <2>2, <2>3, RaiseType, Causes, BusErrorType DEF Refused, BusError
  <2>4. CASE ~Refused(i, "store")
    <3>1. PICK a \in Translate(i.va, "store") \cap RamWords :
            /\ ram' = [ram EXCEPT ![a] = i.val]
            /\ stale' = stale \cup Disturbed(ram')
            /\ tlb' = AccessFilled(i, "store")
            /\ Advance
            /\ UNCHANGED <<priv, mstatus, csr, satp, user, halted, guest, ctx>>
      BY <1>10, <2>4 DEF Store
    <3>2. ram' \in [RamWords -> Pte]
      BY <1>1, <2>1, <3>1 DEF HartOK
    <3>3. stale' \subseteq Vpn
      BY <1>1, <3>1 DEF HartOK, Disturbed
    <3> QED
      BY <1>1, <2>2, <3>1, <3>2, <3>3, AdvanceType DEF HartOK
  <2> QED
    BY <2>3, <2>4
<1>11. CASE StoreClint(i)
  BY <1>1, <1>11, AdvanceType, QuietType DEF StoreClint
<1> QED
  BY <1>2, <1>3, <1>4, <1>5, <1>6, <1>7, <1>8, <1>9, <1>10, <1>11

LEMMA InitType == Init => TypeOK
<1> SUFFICES ASSUME NEW g \in Guests, Reset(g)
             PROVE  TypeOK
  BY DEF Init
<1>1. /\ g.medeleg \in SUBSET Exception /\ g.mideleg \in SUBSET Irq
      /\ g.stvec \in Tvec /\ g.mtvec \in Tvec /\ g.ram \in [RamWords -> Pte]
  BY GuestsAssumption
<1>2. Entries * Entries * Entries \in Nat \ {0}
  BY HartAssumption
<1>3. 0 \in Addr
  BY <1>2 DEF Addr
<1>4. csr \in CsrFile
  BY <1>1, <1>3 DEF Reset, CsrFile, NoCause, Cause, Exception
<1>5. mstatus \in Mstatus
  BY DEF Reset, Mstatus, U, S, M, Priv
<1>6. clint \in ClintRegs
  BY HartAssumption DEF Reset, ClintRegs
<1>7. TlbType(tlb)
  BY DEF Reset, TlbType
<1>8. satp \in Satp
  BY DEF Reset, Satp
<1>9. HartOK
  BY <1>1, <1>3, <1>4, <1>5, <1>8 DEF Reset, HartOK, NoContext, Priv
<1> QED
  BY <1>6, <1>7, <1>9, TypeParts

LEMMA StepType == TypeOK /\ [Next]_vars => TypeOK'
<1> SUFFICES ASSUME TypeOK, [Next]_vars PROVE TypeOK'
  OBVIOUS
<1>1. HartOK /\ TlbType(tlb) /\ Ticked(clint) \in ClintRegs
  BY TypeParts, TickedType
<1>2. CASE TakeInterrupt
  <2> DEFINE i == PendingInterrupt(Ticked(clint))
  <2>1. i \in Irq
    BY <1>2, Pending DEF TakeInterrupt, Ready
  <2>2. Trap(i, TRUE) /\ tlb' = tlb /\ clint' = Ticked(clint)
    BY <1>2 DEF TakeInterrupt
  <2> HIDE DEF i
  <2>3. HartOK'
    BY <1>1, <2>1, <2>2, TrapType
  <2> QED
    BY <1>1, <2>2, <2>3, TypePartsNext
<1>3. CASE FetchFaults
  <2>1. HartOK'
    BY <1>1, <1>3, TrapType, Causes DEF FetchFaults
  <2> QED
    BY <1>1, <1>3, <2>1, TypePartsNext DEF FetchFaults
<1>4. CASE FetchThrows
  <2>1. HartOK' /\ TlbType(tlb')
    BY <1>1, <1>4, BusErrorType, FilledAgrees, TypeFacts DEF FetchThrows, BusError
  <2> QED
    BY <1>1, <1>4, <2>1, TypePartsNext DEF FetchThrows
<1>5. CASE \E i \in guest.insts : Execute(i)
  <2>1. PICK i \in guest.insts : Execute(i)
    BY <1>5
  <2>2. IsInst(i)
    BY <1>1, GuestInst
  <2>3. HartOK' /\ TlbType(tlb')
    BY <2>1, <2>2, InstType DEF Execute
  <2>4. clint' \in ClintRegs
    BY <1>1, <2>1, <2>2, ClintWriteType DEF Execute
  <2> QED
    BY <2>3, <2>4, TypePartsNext
<1>6. CASE UNCHANGED vars
  BY <1>6 DEF TypeOK, vars, hart
<1> QED
  BY <1>2, <1>3, <1>4, <1>5, <1>6 DEF Next

\* Types: in every state of every guest the registers, CSRs, TLB, RAM and CLINT
\* hold values of their kind; the stored mip never holds a device bit, which
\* csrWrite keeps out of it.
THEOREM TypeCorrect == Spec => []TypeOK
BY InitType, StepType, PTL DEF Spec

-----------------------------------------------------------------------------
(* Translation.                                                             *)

\* Steps that leave tables, address space and stale pages alone, and fill the
\* TLB or leave it.
LEMMA SameTables ==
  ASSUME TypeOK, TlbAgrees, UNCHANGED <<satp, ram, stale>>,
         \/ tlb' = tlb
         \/ tlb' = Filled(pc, "fetch")
         \/ \E va \in Addr, acc \in {"load", "store"} :
              \E i : i.va = va /\ tlb' = AccessFilled(i, acc)
  PROVE  TlbAgrees'
<1>1. Agrees(tlb', ram, satp.ppn, satp.asid, stale)
  BY TypeFacts, FilledAgrees, AccessFilledAgrees DEF TlbAgrees
<1> QED
  BY <1>1 DEF TlbAgrees

\* A flush of everything starts anew.
LEMMA FlushedAgrees ==
  ASSUME NEW t, NEW mem, NEW root, NEW asid, NEW st,
         t = FlushTlb(Filled(pc, "fetch"), None, None)
  PROVE  Agrees(t, mem, root, asid, st)
BY DEF FlushTlb, Agrees

LEMMA TrapTables ==
  ASSUME NEW code, NEW irq, Trap(code, irq)
  PROVE  UNCHANGED <<satp, ram, stale>>
BY DEF Trap

LEMMA InstTables ==
  ASSUME TypeOK, TlbAgrees, NEW i, IsInst(i),
         \/ Nop(i) \/ Jump(i) \/ Call(i) \/ Sret(i) \/ Mret(i) \/ Sfence(i)
         \/ Csr(i) \/ Load(i) \/ Store(i) \/ StoreClint(i)
  PROVE  TlbAgrees'
<1>1. ASSUME NEW code, Raise(code)
      PROVE  TlbAgrees'
  BY <1>1, TrapTables, SameTables DEF Raise
<1>2. CASE Nop(i)
  BY <1>2, SameTables DEF Nop, Quiet
<1>3. CASE Jump(i)
  BY <1>1, <1>3, SameTables DEF Jump, Quiet
<1>4. CASE Call(i)
  BY <1>1, <1>4 DEF Call
<1>5. CASE Sret(i)
  BY <1>1, <1>5, SameTables DEF Sret
<1>6. CASE Mret(i)
  BY <1>1, <1>6, SameTables DEF Mret
<1>7. CASE Sfence(i)
  <2>1. CASE Raise(Illegal)
    BY <1>1, <2>1
  <2>2. CASE ~Raise(Illegal)
    <3>1. /\ i.vpn \in Vpn \cup {None}
          /\ tlb' = FlushTlb(Filled(pc, "fetch"), i.vpn, i.asid)
          /\ stale' = Fenced(i.vpn, i.asid)
          /\ UNCHANGED <<satp, ram>>
      BY <1>7, <2>2 DEF Sfence, IsInst
    <3>2. Agrees(tlb', ram, satp.ppn, satp.asid, stale')
      BY <3>1, FenceAgrees
    <3> QED
      BY <3>1, <3>2 DEF TlbAgrees
  <2> QED
    BY <2>1, <2>2
<1>8. CASE Csr(i)
  <2>1. CASE Raise(Illegal)
    BY <1>1, <2>1
  <2>2. CASE ~Raise(Illegal)
    <3>1. CsrWrite(i.csr, Written(i.csr, i.form, i.val)) /\ UNCHANGED ram
      BY <1>8, <2>2 DEF Csr
    <3>2. CASE i.csr \in {"satp", "mstatus", "sstatus"}
      <4>1. tlb' = FlushTlb(Filled(pc, "fetch"), None, None)
        BY <3>1, <3>2 DEF CsrWrite
      <4> QED
        BY <4>1, FlushedAgrees DEF TlbAgrees
    <3>3. CASE i.csr \notin {"satp", "mstatus", "sstatus"}
      BY <3>1, <3>3, SameTables DEF CsrWrite
    <3> QED
      BY <3>2, <3>3
  <2> QED
    BY <2>1, <2>2
<1>9. CASE Load(i)
  <2>1. i.va \in Addr
    BY <1>9 DEF Load, IsInst
  <2>2. CASE Refused(i, "load")
    BY <1>1, <2>1, <2>2, SameTables DEF Refused, BusError, hart
  <2>3. CASE ~Refused(i, "load")
    BY <1>9, <2>1, <2>3, SameTables DEF Load, Quiet
  <2> QED
    BY <2>2, <2>3
<1>10. CASE Store(i)
  <2>1. i.va \in Addr
    BY <1>10 DEF Store, IsInst
  <2>2. CASE Refused(i, "store")
    BY <1>1, <2>1, <2>2, SameTables DEF Refused, BusError, hart
  <2>3. CASE ~Refused(i, "store")
    <3>1. /\ stale' = stale \cup Disturbed(ram')
          /\ tlb' = AccessFilled(i, "store")
          /\ UNCHANGED satp
      BY <1>10, <2>3 DEF Store
    <3>2. Agrees(tlb', ram, satp.ppn, satp.asid, stale)
      BY <2>1, <3>1, AccessFilledAgrees
    <3>3. \A v \in Vpn : v \notin stale' =>
            v \notin stale /\ Walk(ram', satp.ppn, v) = Walk(ram, satp.ppn, v)
      BY <3>1 DEF Disturbed
    <3>4. Agrees(tlb', ram', satp.ppn, satp.asid, stale')
      BY <3>2, <3>3 DEF Agrees
    <3> QED
      BY <3>1, <3>4 DEF TlbAgrees
  <2> QED
    BY <2>2, <2>3
<1>11. CASE StoreClint(i)
  BY <1>11, SameTables DEF StoreClint, Quiet
<1> QED
  BY <1>2, <1>3, <1>4, <1>5, <1>6, <1>7, <1>8, <1>9, <1>10, <1>11

LEMMA StepTables == TypeOK /\ TlbAgrees /\ [Next]_vars => TlbAgrees'
<1> SUFFICES ASSUME TypeOK, TlbAgrees, [Next]_vars PROVE TlbAgrees'
  OBVIOUS
<1>1. CASE TakeInterrupt
  BY <1>1, TrapTables, SameTables DEF TakeInterrupt
<1>2. CASE FetchFaults
  BY <1>2, TrapTables, SameTables DEF FetchFaults
<1>3. CASE FetchThrows
  BY <1>3, SameTables DEF FetchThrows, BusError, hart
<1>4. CASE \E i \in guest.insts : Execute(i)
  BY <1>4, TypeParts, GuestInst, InstTables DEF Execute
<1>5. CASE UNCHANGED vars
  BY <1>5, SameTables DEF vars, hart
<1> QED
  BY <1>1, <1>2, <1>3, <1>4, <1>5 DEF Next

\* What is asked of a page that is not stale: hit or not, the answer is the
\* leaf the walk finds, where its flags permit the access.
LEMMA TranslateIsWalk ==
  ASSUME TypeOK, TlbAgrees
  PROVE  TranslationIsWalk
<1> SUFFICES ASSUME NEW v \in Vpn \ stale, NEW acc \in {"fetch", "load", "store"}, ~Bare(acc)
             PROVE  Translate(v * Entries, acc) =
                      {Frame(e.ppn) * Entries :
                         e \in {w \in Walk(ram, satp.ppn, v) : ~Denied(w.flags, acc)}}
  BY DEF TranslationIsWalk
<1> DEFINE walked == Walk(ram, satp.ppn, v)
           known == IF Hit(v) # {} THEN Hit(v) ELSE walked
<1>1. /\ walked \in SUBSET Leaves
      /\ \A e, f \in walked : e = f
  BY TypeFacts, WalkType
<1>2. Translate(v * Entries, acc) =
        {Frame(e.ppn) * Entries + 0 : e \in {w \in known : ~Denied(w.flags, acc)}}
  BY PageBase DEF Translate
<1>3. \A e \in Hit(v) : \E w \in walked : e.ppn = w.ppn /\ e.flags = w.flags
  BY DEF Hit, TlbAgrees, Agrees, LeafEntry
<1> HIDE DEF walked
<1>4. \A e \in known : \E w \in walked : e.ppn = w.ppn /\ e.flags = w.flags
  BY <1>3
<1>5. \A w \in walked : \E e \in known : e.ppn = w.ppn /\ e.flags = w.flags
  <2>1. CASE Hit(v) # {}
    BY <1>1, <1>3, <2>1
  <2>2. CASE Hit(v) = {}
    BY <2>2
  <2> QED
    BY <2>1, <2>2
<1> HIDE DEF known
<1>6. {Frame(e.ppn) * Entries + 0 : e \in {w \in known : ~Denied(w.flags, acc)}}
        = {Frame(e.ppn) * Entries + 0 : e \in {w \in walked : ~Denied(w.flags, acc)}}
  <2>1. ASSUME NEW e \in known, ~Denied(e.flags, acc)
        PROVE  Frame(e.ppn) * Entries + 0 \in
                 {Frame(f.ppn) * Entries + 0 : f \in {w \in walked : ~Denied(w.flags, acc)}}
    BY <1>4, <2>1
  <2>2. ASSUME NEW e \in walked, ~Denied(e.flags, acc)
        PROVE  Frame(e.ppn) * Entries + 0 \in
                 {Frame(f.ppn) * Entries + 0 : f \in {w \in known : ~Denied(w.flags, acc)}}
    BY <1>5, <2>2
  <2> QED
    BY <2>1, <2>2
<1>7. \A e \in walked : Frame(e.ppn) * Entries + 0 = Frame(e.ppn) * Entries
  BY <1>1, FrameIs, HartAssumption DEF Leaves
<1>8. {Frame(e.ppn) * Entries + 0 : e \in {w \in walked : ~Denied(w.flags, acc)}}
        = {Frame(e.ppn) * Entries : e \in {w \in walked : ~Denied(w.flags, acc)}}
  BY <1>7
<1> QED
  BY <1>2, <1>6, <1>8 DEF walked

\* Translation: for every page no store has disturbed since a fence that covers
\* it, translate() answers what the tables in memory say, whatever the TLB has
\* been through.
THEOREM TranslationFollowsTables == Spec => []TranslationIsWalk
<1>1. Init => TlbAgrees
  BY DEF Init, Reset, TlbAgrees, Agrees
<1>2. TypeOK /\ TlbAgrees /\ [Next]_vars => TlbAgrees'
  BY StepTables
<1>3. TypeOK /\ TlbAgrees => TranslationIsWalk
  BY TranslateIsWalk
<1> QED
  BY <1>1, <1>2, <1>3, TypeCorrect, PTL DEF Spec

-----------------------------------------------------------------------------
(* Contexts, privilege, the timer.                                          *)

\* Why a context is safe: an open trap of M keeps the hart in M with MIE off; an
\* open trap of S keeps SIE off and user code away, in M's contexts too.
HandlersHold ==
  /\ ctx[M] # {} => priv = M /\ ~mstatus.mie
  /\ ctx[S] # {} => /\ ~mstatus.sie /\ priv # U
                    /\ \A c \in ctx[M] : c.priv # U

\* A trap keeps contexts: one it opens is what it has just saved, and where one
\* is open already no interrupt can have come.
LEMMA TrapContexts ==
  ASSUME TypeOK, ContextSafe, HandlersHold, NEW code, NEW irq \in BOOLEAN, Trap(code, irq),
         irq => ctx[TrapTarget(code, irq)] = {}
  PROVE  ContextSafe' /\ HandlersHold'
<1> DEFINE to == TrapTarget(code, irq)
           new == [pc |-> pc, priv |-> priv,
                   ie |-> IF to = S THEN mstatus.sie ELSE mstatus.mie]
<1>1. /\ S # M /\ U # S /\ U # M
      /\ csr \in CsrFile /\ mstatus \in Mstatus /\ ctx \in [{S, M} -> SUBSET Context]
      /\ priv \in {U, S, M}
  BY DEF TypeOK, U, S, M, Priv
<1>2. /\ csr' = IF to = S THEN [csr EXCEPT !.sepc = pc, !.scause = [irq |-> irq, code |-> code]]
                ELSE [csr EXCEPT !.mepc = pc, !.mcause = [irq |-> irq, code |-> code]]
      /\ mstatus' = TrapStatus(to) /\ priv' = to
      /\ ctx' = [ctx EXCEPT ![to] = {new}]
  BY DEF Trap, Opened
<1>3. to \in {S, M} /\ (to = S => priv # M)
  BY TrapTo
<1> HIDE DEF to
<1>4. CASE to = S
  <2>1. /\ csr'.sepc = pc /\ csr'.mepc = csr.mepc
        /\ mstatus'.sie = FALSE /\ mstatus'.spie = mstatus.sie /\ mstatus'.spp = priv
        /\ mstatus'.mie = mstatus.mie /\ mstatus'.mpie = mstatus.mpie
        /\ mstatus'.mpp = mstatus.mpp
    BY <1>1, <1>2, <1>4 DEF CsrFile, Mstatus, TrapStatus
  <2>2. ctx'[S] = {new} /\ ctx'[M] = ctx[M] /\ ctx[M] = {}
    BY <1>1, <1>2, <1>3, <1>4 DEF HandlersHold
  <2>3. new.pc = pc /\ new.priv = priv /\ new.ie = mstatus.sie
    BY <1>4
  <2> HIDE DEF new
  <2> QED
    BY <1>1, <1>2, <1>4, <2>1, <2>2, <2>3 DEF ContextSafe, HandlersHold
<1>5. CASE to = M
  <2>1. /\ csr'.mepc = pc /\ csr'.sepc = csr.sepc
        /\ mstatus'.mie = FALSE /\ mstatus'.mpie = mstatus.mie /\ mstatus'.mpp = priv
        /\ mstatus'.sie = mstatus.sie /\ mstatus'.spie = mstatus.spie
        /\ mstatus'.spp = mstatus.spp
    BY <1>1, <1>2, <1>5 DEF CsrFile, Mstatus, TrapStatus
  <2>2. ctx'[M] = {new} /\ ctx'[S] = ctx[S]
    BY <1>1, <1>2, <1>5
  <2>3. new.pc = pc /\ new.priv = priv /\ new.ie = mstatus.mie
    BY <1>1, <1>5
  <2> HIDE DEF new
  <2> QED
    BY <1>1, <1>2, <1>5, <2>1, <2>2, <2>3 DEF ContextSafe, HandlersHold
<1> QED
  BY <1>3, <1>4, <1>5

\* Where a ready interrupt goes, and that its level has no open context.
LEMMA InterruptFinds ==
  ASSUME TypeOK, HandlersHold, NEW c, NEW i \in Ready(c)
  PROVE  /\ TrapTarget(i, TRUE) = S <=> i \in csr.mideleg
         /\ i \in csr.mideleg => i \in csr.mie \cap SIrq
         /\ ctx[TrapTarget(i, TRUE)] = {}
<1>1. Eligible(i)
  BY DEF Ready
<1>2. priv \in {0, 1, 3}
  BY Privileges DEF TypeOK
<1>3. CASE i \in csr.mideleg
  <2>1. /\ i \in csr.mie \cap SIrq /\ priv <= S /\ (priv = S => mstatus.sie)
    BY <1>1, <1>3 DEF Eligible
  <2>2. priv # M /\ TrapTarget(i, TRUE) = S
    <3>1. priv # M
      BY <1>2, <2>1, Privileges
    <3> QED
      BY <1>3, <3>1 DEF TrapTarget
  <2>3. ctx[S] = {}
    BY <1>2, <2>1, <2>2, Privileges DEF HandlersHold
  <2> QED
    BY <1>3, <2>1, <2>2, <2>3
<1>4. CASE i \notin csr.mideleg
  <2>1. priv = M => mstatus.mie
    BY <1>1, <1>4 DEF Eligible
  <2>2. TrapTarget(i, TRUE) = M
    BY <1>4 DEF TrapTarget
  <2>3. ctx[M] = {}
    BY <2>1 DEF HandlersHold
  <2> QED
    <3>1. S # M
      BY Privileges
    <3>2. TrapTarget(i, TRUE) # S /\ ctx[TrapTarget(i, TRUE)] = {}
      BY <2>2, <2>3, <3>1
    <3> QED
      BY <1>4, <3>2
<1> QED
  BY <1>3, <1>4

\* Steps that leave the saved context, the privilege and the interrupt enables.
LEMMA SameContexts ==
  ASSUME ContextSafe, HandlersHold, UNCHANGED <<priv, mstatus, csr, ctx>>
  PROVE  ContextSafe' /\ HandlersHold'
BY DEF ContextSafe, HandlersHold

LEMMA InstContexts ==
  ASSUME TypeOK, ContextSafe, HandlersHold, NEW i, IsInst(i),
         \/ Nop(i) \/ Jump(i) \/ Call(i) \/ Sret(i) \/ Mret(i) \/ Sfence(i)
         \/ Csr(i) \/ Load(i) \/ Store(i) \/ StoreClint(i)
  PROVE  ContextSafe' /\ HandlersHold'
<1>0. /\ S # M /\ U # S /\ U # M
      /\ csr \in CsrFile /\ mstatus \in Mstatus /\ ctx \in [{S, M} -> SUBSET Context]
      /\ priv \in {U, S, M}
  BY DEF TypeOK, U, S, M, Priv
<1>1. ASSUME NEW code, Raise(code)
      PROVE  ContextSafe' /\ HandlersHold'
  BY <1>1, TrapContexts DEF Raise
<1>2. CASE Nop(i)
  BY <1>2, SameContexts DEF Nop, Quiet
<1>3. CASE Jump(i)
  BY <1>1, <1>3, SameContexts DEF Jump, Quiet
<1>4. CASE Call(i)
  BY <1>1, <1>4 DEF Call
<1>5. CASE Sret(i)
  <2>1. CASE Raise(Illegal)
    BY <1>1, <2>1
  <2>2. CASE ~Raise(Illegal)
    <3>1. /\ ~(priv = U \/ (priv # M /\ mstatus.tsr))
          /\ priv' = mstatus.spp /\ csr' = csr
          /\ mstatus' = [mstatus EXCEPT !.sie = mstatus.spie, !.spie = TRUE, !.spp = U]
          /\ ctx' = IF priv = M THEN NoContext ELSE [ctx EXCEPT ![S] = {}]
      BY <1>5, <2>2 DEF Sret
    <3>2. ctx'[S] = {} /\ ctx'[M] = {}
      BY <1>0, <3>1 DEF HandlersHold, NoContext
    <3> QED
      BY <3>2 DEF ContextSafe, HandlersHold
  <2> QED
    BY <2>1, <2>2
<1>6. CASE Mret(i)
  <2>1. CASE Raise(Illegal)
    BY <1>1, <2>1
  <2>2. CASE ~Raise(Illegal)
    <3>1. /\ priv' = mstatus.mpp /\ csr' = csr
          /\ mstatus' = [mstatus EXCEPT !.mie = mstatus.mpie, !.mpie = TRUE, !.mpp = U]
          /\ ctx' = IF ctx[M] = {} THEN NoContext ELSE [ctx EXCEPT ![M] = {}]
      BY <1>6, <2>2 DEF Mret
    <3>2. /\ ctx'[M] = {} /\ (ctx[M] = {} => ctx'[S] = {})
          /\ ctx[M] # {} => ctx'[S] = ctx[S]
      BY <1>0, <3>1 DEF NoContext
    <3>3. /\ mstatus'.sie = mstatus.sie /\ mstatus'.spie = mstatus.spie
          /\ mstatus'.spp = mstatus.spp
      BY <1>0, <3>1 DEF Mstatus
    <3>4. ctx[M] # {} /\ ctx[S] # {} => mstatus.mpp # U
      BY DEF ContextSafe, HandlersHold
    <3> QED
      BY <3>1, <3>2, <3>3, <3>4 DEF ContextSafe, HandlersHold
  <2> QED
    BY <2>1, <2>2
<1>7. CASE Sfence(i)
  BY <1>1, <1>7, SameContexts DEF Sfence
<1>8. CASE Csr(i)
  <2>1. CASE Raise(Illegal)
    BY <1>1, <2>1
  <2>2. CASE ~Raise(Illegal)
    <3> DEFINE r == i.csr
               w == Written(i.csr, i.form, i.val)
    <3>1. priv' = priv /\ ctx' = Disowned(r) /\ CsrWrite(r, w)
      BY <1>8, <2>2 DEF Csr, CsrWrite
    <3> HIDE DEF r, w
    <3>2. CASE r = "mstatus"
      <4>1. ctx'[S] = {} /\ ctx'[M] = {}
        BY <1>0, <3>1, <3>2 DEF Disowned, NoContext
      <4> QED
        BY <4>1 DEF ContextSafe, HandlersHold
    <3>3. r # "sepc" => csr'.sepc = csr.sepc
      BY <1>0, <3>1 DEF CsrWrite, CsrFile
    <3>4. r # "mepc" => csr'.mepc = csr.mepc
      BY <1>0, <3>1 DEF CsrWrite, CsrFile
    <3>5. CASE r = "sstatus"
      <4>1. ctx'[S] = {} /\ ctx'[M] = ctx[M]
        BY <1>0, <3>1, <3>5 DEF Disowned
      <4>2. /\ mstatus'.mie = mstatus.mie /\ mstatus'.mpie = mstatus.mpie
            /\ mstatus'.mpp = mstatus.mpp
        BY <1>0, <3>1, <3>5 DEF CsrWrite, Mstatus
      <4> QED
        BY <3>1, <3>4, <3>5, <4>1, <4>2 DEF ContextSafe, HandlersHold
    <3>6. CASE r \notin {"mstatus", "sstatus"}
      <4>1. mstatus' = mstatus
        BY <3>1, <3>6 DEF CsrWrite
      <4>2. CASE r = "sepc"
        <5>1. ctx'[S] = {} /\ ctx'[M] = ctx[M]
          BY <1>0, <3>1, <4>2 DEF Disowned
        <5> QED
          BY <3>1, <3>4, <4>1, <4>2, <5>1 DEF ContextSafe, HandlersHold
      <4>3. CASE r = "mepc"
        <5>1. ctx'[M] = {} /\ ctx'[S] = ctx[S]
          BY <1>0, <3>1, <4>3 DEF Disowned
        <5> QED
          BY <3>1, <3>3, <4>1, <4>3, <5>1 DEF ContextSafe, HandlersHold
      <4>4. CASE r \notin {"sepc", "mepc"}
        <5>1. ctx' = ctx
          BY <3>1, <3>6, <4>4 DEF Disowned
        <5> QED
          BY <3>1, <3>3, <3>4, <4>1, <4>4, <5>1 DEF ContextSafe, HandlersHold
      <4> QED
        BY <4>2, <4>3, <4>4
    <3> QED
      BY <3>2, <3>5, <3>6
  <2> QED
    BY <2>1, <2>2
<1>9. CASE Load(i)
  BY <1>1, <1>9, SameContexts DEF Load, Refused, BusError, hart, Quiet
<1>10. CASE Store(i)
  BY <1>1, <1>10, SameContexts DEF Store, Refused, BusError, hart
<1>11. CASE StoreClint(i)
  BY <1>11, SameContexts DEF StoreClint, Quiet
<1> QED
  BY <1>2, <1>3, <1>4, <1>5, <1>6, <1>7, <1>8, <1>9, <1>10, <1>11

LEMMA StepContexts ==
  TypeOK /\ ContextSafe /\ HandlersHold /\ [Next]_vars => ContextSafe' /\ HandlersHold'
<1> SUFFICES ASSUME TypeOK, ContextSafe, HandlersHold, [Next]_vars
             PROVE  ContextSafe' /\ HandlersHold'
  OBVIOUS
<1>1. CASE TakeInterrupt
  <2> DEFINE i == PendingInterrupt(Ticked(clint))
  <2>1. i \in Ready(Ticked(clint)) /\ Trap(i, TRUE)
    BY <1>1, Pending DEF TakeInterrupt
  <2> HIDE DEF i
  <2>2. ctx[TrapTarget(i, TRUE)] = {}
    BY <2>1, InterruptFinds
  <2> QED
    BY <2>1, <2>2, TrapContexts
<1>2. CASE FetchFaults
  BY <1>2, TrapContexts DEF FetchFaults
<1>3. CASE FetchThrows
  BY <1>3, SameContexts DEF FetchThrows, BusError, hart
<1>4. CASE \E i \in guest.insts : Execute(i)
  BY <1>4, TypeParts, GuestInst, InstContexts DEF Execute
<1>5. CASE UNCHANGED vars
  BY <1>5, SameContexts DEF vars, hart
<1> QED
  BY <1>1, <1>2, <1>3, <1>4, <1>5 DEF Next

\* Contexts: what a trap has saved in sepc, spp, spie or mepc, mpp, mpie is
\* there when its handler returns, whatever traps and returns of the other level
\* come between; only the handler's own writes, or an exception it causes at its
\* own level, replace it.
THEOREM ContextsSafe == Spec => []ContextSafe
<1>1. Init => ContextSafe /\ HandlersHold
  BY DEF Init, Reset, NoContext, ContextSafe, HandlersHold, S, M
<1>2. TypeOK /\ ContextSafe /\ HandlersHold /\ [Next]_vars => ContextSafe' /\ HandlersHold'
  BY StepContexts
<1> QED
  BY <1>1, <1>2, TypeCorrect, PTL DEF Spec

-----------------------------------------------------------------------------
(* Action properties.                                                       *)

\* What a trap leaves, whatever its kind.
LEMMA TrapFacts ==
  ASSUME TypeOK, NEW code, NEW irq, Trap(code, irq)
  PROVE  LET to == TrapTarget(code, irq)
             tvec == IF to = M THEN csr.mtvec ELSE csr.stvec
             cause == IF to = M THEN csr'.mcause ELSE csr'.scause
         IN  /\ priv' = to
             /\ cause = [irq |-> irq, code |-> code]
             /\ pc' = VectorTarget(tvec, irq, code) \/ halted'
             /\ (IF to = M THEN csr'.mepc ELSE csr'.sepc) = pc
             /\ ~(IF to = M THEN mstatus'.mie ELSE mstatus'.sie)
<1>1. csr \in CsrFile /\ mstatus \in Mstatus /\ S # M
  BY DEF TypeOK, S, M
<1>2. CASE TrapTarget(code, irq) = S
  BY <1>1, <1>2 DEF Trap, CsrFile, Mstatus, TrapStatus
<1>3. CASE TrapTarget(code, irq) = M
  BY <1>1, <1>3 DEF Trap, CsrFile, Mstatus, TrapStatus
<1> QED
  BY <1>2, <1>3, TrapTo

\* Steps that raise no privilege and, in user mode, touch no CSR.
Calm == /\ priv' <= priv
        /\ priv = U => UNCHANGED <<mstatus, csr, satp, halted>>

LEMMA StillCalm ==
  ASSUME TypeOK, UNCHANGED <<priv, mstatus, csr, satp, halted>>
  PROVE  Calm
BY Privileges DEF TypeOK, Calm

LEMMA LowerCalm ==
  ASSUME TypeOK, priv # U, priv' <= priv
  PROVE  Calm
BY DEF Calm

Excepts == \E code \in Exception : Trap(code, FALSE)

\* A write to a CSR of user level leaves the others alone.
LEMMA UserCsrOnly ==
  ASSUME TypeOK, NEW r \in UserCsr, NEW w, CsrWrite(r, w)
  PROVE  UNCHANGED <<mstatus, csr, satp>>
<1>1. DOMAIN csr = {"mie", "mip", "medeleg", "mideleg", "stvec", "mtvec", "sepc",
                    "mepc", "scause", "mcause"}
  BY DEF TypeOK, CsrFile
<1>2. /\ r \notin DOMAIN csr
      /\ r \notin {"sie", "sip", "mip", "mstatus", "sstatus", "satp"}
  BY <1>1 DEF UserCsr
<1> QED
  BY <1>2 DEF CsrWrite

\* Every step that raises the privilege, or takes user code elsewhere, is a trap.
LEMMA InstTraps ==
  ASSUME TypeOK, NEW i, IsInst(i),
         \/ Nop(i) \/ Jump(i) \/ Call(i) \/ Sret(i) \/ Mret(i) \/ Sfence(i)
         \/ Csr(i) \/ Load(i) \/ Store(i) \/ StoreClint(i)
  PROVE  Excepts \/ Calm
<1>0. priv \in {0, 1, 3} /\ priv \in Priv /\ mstatus \in Mstatus /\ U = 0 /\ S = 1 /\ M = 3
  BY Privileges DEF TypeOK
<1>1. ASSUME NEW code \in Exception, Raise(code)
      PROVE  Excepts
  BY <1>1 DEF Raise, Excepts
<1>2. CASE Nop(i)
  BY <1>2, StillCalm DEF Nop, Quiet
<1>3. CASE Jump(i)
  BY <1>1, <1>3, Causes, StillCalm DEF Jump, Quiet
<1>4. CASE Call(i)
  BY <1>0, <1>1, <1>4, Causes DEF Call
<1>5. CASE Sret(i)
  <2>1. CASE Raise(Illegal)
    BY <1>1, <2>1, Causes
  <2>2. CASE ~Raise(Illegal)
    <3>1. priv # U /\ priv' = mstatus.spp
      BY <1>5, <2>2 DEF Sret
    <3>2. mstatus.spp \in {0, 1}
      BY <1>0 DEF Mstatus
    <3>3. priv' <= priv
      BY <1>0, <3>1, <3>2
    <3> QED
      BY <3>1, <3>3, LowerCalm
  <2> QED
    BY <2>1, <2>2
<1>6. CASE Mret(i)
  <2>1. CASE Raise(Illegal)
    BY <1>1, <2>1, Causes
  <2>2. CASE ~Raise(Illegal)
    <3>1. priv = M /\ priv' = mstatus.mpp
      BY <1>6, <2>2 DEF Mret
    <3>2. mstatus.mpp \in {0, 1, 3}
      BY <1>0, Privileges DEF Mstatus
    <3>3. priv' <= priv /\ priv # U
      BY <1>0, <3>1, <3>2
    <3> QED
      BY <3>3, LowerCalm
  <2> QED
    BY <2>1, <2>2
<1>7. CASE Sfence(i)
  BY <1>1, <1>7, Causes, StillCalm DEF Sfence
<1>8. CASE Csr(i)
  <2>1. CASE Raise(Illegal)
    BY <1>1, <2>1, Causes
  <2>2. CASE ~Raise(Illegal)
    <3>1. ~(CsrLevel(i.csr) > priv) /\ priv' = priv
      BY <1>8, <2>2 DEF Csr
    <3>2. CASE priv = U
      <4>1. CsrLevel(i.csr) = U
        BY <1>0, <3>1, <3>2 DEF CsrLevel
      <4>2. i.csr \in UserCsr
        BY <1>0, <4>1 DEF CsrLevel
      <4>3. UNCHANGED <<mstatus, csr, satp, halted>>
        BY <1>8, <2>2, <4>2, UserCsrOnly DEF Csr
      <4> QED
        BY <3>1, <4>3, StillCalm
    <3>3. CASE priv # U
      BY <1>0, <3>1, <3>3, LowerCalm
    <3> QED
      BY <3>2, <3>3
  <2> QED
    BY <2>1, <2>2
<1>9. CASE Load(i)
  BY <1>1, <1>9, Causes, StillCalm DEF Load, Refused, BusError, hart, Quiet
<1>10. CASE Store(i)
  BY <1>1, <1>10, Causes, StillCalm DEF Store, Refused, BusError, hart
<1>11. CASE StoreClint(i)
  BY <1>11, StillCalm DEF StoreClint, Quiet
<1> QED
  BY <1>2, <1>3, <1>4, <1>5, <1>6, <1>7, <1>8, <1>9, <1>10, <1>11

LEMMA StepTraps ==
  ASSUME TypeOK, [Next]_vars
  PROVE  \/ \E code \in Irq \cup Exception, irq \in BOOLEAN : Trap(code, irq)
         \/ Calm
<1>1. CASE TakeInterrupt
  <2>1. PendingInterrupt(Ticked(clint)) \in Irq
    BY <1>1, Pending DEF TakeInterrupt, Ready
  <2> QED
    BY <1>1, <2>1 DEF TakeInterrupt
<1>2. CASE FetchFaults
  BY <1>2, Causes DEF FetchFaults
<1>3. CASE FetchThrows
  BY <1>3, StillCalm DEF FetchThrows, BusError, hart
<1>4. CASE \E i \in guest.insts : Execute(i)
  <2>1. PICK i \in guest.insts : Execute(i)
    BY <1>4
  <2>2. IsInst(i)
    BY TypeParts, GuestInst
  <2>3. Excepts \/ Calm
    BY <2>1, <2>2, InstTraps DEF Execute
  <2> QED
    BY <2>3 DEF Excepts
<1>5. CASE UNCHANGED vars
  BY <1>5, StillCalm DEF vars, hart
<1> QED
  BY <1>1, <1>2, <1>3, <1>4, <1>5 DEF Next

\* No escalation: the privilege rises by a trap only, to the level the delegation
\* register of its kind names, onto that level's handler, with its interrupts off
\* and the interrupted pc saved.  mret, sret and CSR writes never raise it.
THEOREM PrivilegeRisesByTrap == Spec => NoEscalation
<1>1. ASSUME TypeOK, [Next]_vars, priv' > priv
      PROVE  LET tvec == IF priv' = M THEN csr.mtvec ELSE csr.stvec
                 cause == IF priv' = M THEN csr'.mcause ELSE csr'.scause
             IN  /\ pc' = VectorTarget(tvec, cause.irq, cause.code) \/ halted'
                 /\ (IF priv' = M THEN csr'.mepc ELSE csr'.sepc) = pc
                 /\ ~(IF priv' = M THEN mstatus'.mie ELSE mstatus'.sie)
                 /\ priv' = S <=> cause.code \in (IF cause.irq THEN csr.mideleg
                                                  ELSE csr.medeleg)
  <2>1. priv \in {0, 1, 3} /\ U = 0 /\ S = 1 /\ M = 3
    BY <1>1, Privileges DEF TypeOK
  <2>2. PICK code \in Irq \cup Exception, irq \in BOOLEAN : Trap(code, irq)
    <3>1. priv' \in Int
      <4>1. priv' \in Priv
        BY <1>1, StepType DEF TypeOK
      <4> QED
        BY <4>1, Privileges
    <3>2. ~Calm
      BY <1>1, <2>1, <3>1 DEF Calm
    <3> QED
      BY <1>1, <3>2, StepTraps
  <2>3. priv' = TrapTarget(code, irq) /\ TrapTarget(code, irq) \in {S, M}
    BY <1>1, <2>2, TrapFacts, TrapTo
  <2>4. priv # M
    BY <1>1, <2>1, <2>3
  <2>5. priv' = S <=> code \in (IF irq THEN csr.mideleg ELSE csr.medeleg)
    BY <2>3, <2>4, TrapTo
  <2>6. LET tvec == IF priv' = M THEN csr.mtvec ELSE csr.stvec
            cause == IF priv' = M THEN csr'.mcause ELSE csr'.scause
        IN  /\ cause = [irq |-> irq, code |-> code]
            /\ pc' = VectorTarget(tvec, irq, code) \/ halted'
            /\ (IF priv' = M THEN csr'.mepc ELSE csr'.sepc) = pc
            /\ ~(IF priv' = M THEN mstatus'.mie ELSE mstatus'.sie)
    BY <1>1, <2>2, <2>3, TrapFacts
  <2> DEFINE tvec == IF priv' = M THEN csr.mtvec ELSE csr.stvec
             cause == IF priv' = M THEN csr'.mcause ELSE csr'.scause
  <2>7. cause.irq = irq /\ cause.code = code
    BY <2>6
  <2> HIDE DEF tvec, cause
  <2>8. /\ pc' = VectorTarget(tvec, cause.irq, cause.code) \/ halted'
        /\ priv' = S <=> cause.code \in (IF cause.irq THEN csr.mideleg ELSE csr.medeleg)
    BY <2>5, <2>6, <2>7 DEF tvec
  <2> QED
    BY <2>6, <2>8 DEF tvec, cause
<1>2. TypeOK /\ [Next]_vars => [priv' > priv =>
       LET tvec == IF priv' = M THEN csr.mtvec ELSE csr.stvec
           cause == IF priv' = M THEN csr'.mcause ELSE csr'.scause
       IN  /\ pc' = VectorTarget(tvec, cause.irq, cause.code) \/ halted'
           /\ (IF priv' = M THEN csr'.mepc ELSE csr'.sepc) = pc
           /\ ~(IF priv' = M THEN mstatus'.mie ELSE mstatus'.sie)
           /\ priv' = S <=> cause.code \in (IF cause.irq THEN csr.mideleg
                                            ELSE csr.medeleg)]_vars
  BY <1>1
<1> QED
  BY <1>2, TypeCorrect, PTL DEF Spec, NoEscalation

\* mtime and mtimecmp as the numbers their halves stand for.
Time(c) == (c.hi * Half) + c.lo
Deadline(c) == (c.cmpHi * Half) + c.cmpLo

\* The order of numbers is that of their halves.
LEMMA Halves ==
  ASSUME NEW h \in Nat, NEW l \in 0 .. Half - 1, NEW k \in Nat, NEW m \in 0 .. Half - 1
  PROVE  (h * Half) + l >= (k * Half) + m <=> h > k \/ (h = k /\ l >= m)
<1>1. Half \in Nat \ {0}
  BY HartAssumption
<1>2. CASE h > k
  <2>1. h * Half >= (k + 1) * Half
    BY <1>1, <1>2
  <2>2. (k + 1) * Half = (k * Half) + Half
    BY <1>1
  <2> QED
    BY <1>1, <1>2, <2>1, <2>2
<1>3. CASE h = k
  <2>1. h * Half \in Nat /\ h * Half = k * Half
    BY <1>1, <1>3
  <2> QED
    BY <1>3, <2>1
<1>4. CASE h < k
  <2>1. k * Half >= (h + 1) * Half
    BY <1>1, <1>4
  <2>2. (h + 1) * Half = (h * Half) + Half
    BY <1>1
  <2> QED
    BY <1>1, <1>4, <2>1, <2>2
<1> QED
  BY <1>2, <1>3, <1>4

\* A tick adds one: within run's limit the two halves do not wrap together.
LEMMA TickAddsOne ==
  ASSUME NEW c \in ClintRegs, Time(c) < MaxTime
  PROVE  /\ Time(Ticked(c)) = Time(c) + 1
         /\ Ticked(c).cmpHi = c.cmpHi /\ Ticked(c).cmpLo = c.cmpLo
<1>1. /\ Half \in Nat \ {0} /\ MaxTime < Half * Half /\ MaxTime \in Nat
      /\ c.lo \in 0 .. Half - 1 /\ c.hi \in 0 .. Half - 1
  BY HartAssumption DEF ClintRegs
<1>2. Ticked(c) = [c EXCEPT !.lo = (c.lo + 1) % Half,
                            !.hi = IF (c.lo + 1) % Half = 0 THEN (c.hi + 1) % Half ELSE c.hi]
  BY DEF Ticked
<1>3. /\ Ticked(c).lo = (c.lo + 1) % Half
      /\ Ticked(c).hi = IF (c.lo + 1) % Half = 0 THEN (c.hi + 1) % Half ELSE c.hi
      /\ Ticked(c).cmpHi = c.cmpHi /\ Ticked(c).cmpLo = c.cmpLo
  BY <1>2 DEF ClintRegs
<1>4. \A n \in 0 .. Half - 1 : n % Half = n
  BY <1>1
<1>5. CASE c.lo + 1 < Half
  <2>1. (c.lo + 1) % Half = c.lo + 1 /\ c.lo + 1 # 0
    BY <1>1, <1>4, <1>5
  <2>2. Ticked(c).lo = c.lo + 1 /\ Ticked(c).hi = c.hi
    BY <1>3, <2>1
  <2>3. c.hi * Half \in Nat
    BY <1>1
  <2> QED
    BY <1>1, <1>3, <2>2, <2>3 DEF Time
<1>6. CASE c.lo + 1 = Half
  <2>1. Half % Half = 0
    BY <1>1
  <2>2. c.hi + 1 < Half
    <3>1. SUFFICES ASSUME c.hi = Half - 1 PROVE FALSE
      BY <1>1
    <3>2. (Half - 1) * Half = (Half * Half) - Half
      BY <1>1
    <3>3. Half * Half \in Nat
      BY <1>1
    <3> QED
      BY <1>1, <1>6, <3>1, <3>2, <3>3 DEF Time
  <2>3. Ticked(c).lo = 0 /\ Ticked(c).hi = c.hi + 1
    BY <1>1, <1>3, <1>4, <1>6, <2>1, <2>2
  <2>4. (c.hi + 1) * Half = (c.hi * Half) + Half /\ c.hi * Half \in Nat
    BY <1>1
  <2> QED
    BY <1>1, <1>3, <1>6, <2>3, <2>4 DEF Time
<1> QED
  BY <1>1, <1>5, <1>6

\* A timer that is due, enabled and not delegated is ready after the tick.
LEMMA TimerReady ==
  ASSUME TypeOK, Time(clint) < MaxTime, Time(clint) + 1 >= Deadline(clint),
         7 \in csr.mie \ csr.mideleg, priv = M => mstatus.mie
  PROVE  7 \in Ready(Ticked(clint))
<1> DEFINE c == Ticked(clint)
<1>1. clint \in ClintRegs /\ c \in ClintRegs
  BY TickedType DEF TypeOK
<1>2. Time(c) >= Deadline(c)
  BY <1>1, TickAddsOne DEF Deadline
<1> HIDE DEF c
<1>3. TimeFired(c)
  <2>1. /\ c.hi \in Nat /\ c.lo \in 0 .. Half - 1 /\ c.cmpHi \in Nat
        /\ c.cmpLo \in 0 .. Half - 1
    BY <1>1, HartAssumption DEF ClintRegs
  <2> QED
    BY <1>2, <2>1, Halves DEF TimeFired, Time, Deadline
<1>4. 7 \in MipPending(c) \cap Irq
  BY <1>3 DEF MipPending, Irq
<1>5. Eligible(7)
  BY DEF Eligible
<1> QED
  BY <1>4, <1>5 DEF Ready, c

\* The timer preempts: once it is due, enabled and not delegated, the next step of
\* user or supervisor code, and of machine code with MIE set, is an interrupt to M.
THEOREM TimerInterrupts == Spec => TimerPreempts
<1>1. ASSUME TypeOK, Next,
             clint.hi * Half + clint.lo + 1 >= clint.cmpHi * Half + clint.cmpLo,
             7 \in csr.mie \ csr.mideleg, priv = M => mstatus.mie
      PROVE  priv' = M /\ csr'.mcause.irq /\ csr'.mepc = pc
  <2>1. Begins
    BY <1>1 DEF Next, TakeInterrupt, FetchFaults, FetchThrows, Execute, Fetches
  <2>2. Time(clint) < MaxTime /\ Time(clint) + 1 >= Deadline(clint)
    BY <1>1, <2>1 DEF Begins, Time, Deadline
  <2>3. 7 \in Ready(Ticked(clint))
    BY <1>1, <2>2, TimerReady
  <2> DEFINE i == PendingInterrupt(Ticked(clint))
  <2>4. /\ i # None /\ i \in Ready(Ticked(clint))
        /\ Rank[i] <= Rank[7]
    BY <2>3, Pending
  <2>5. Trap(i, TRUE)
    BY <1>1, <2>4 DEF Next, TakeInterrupt, FetchFaults, FetchThrows, Execute, Fetches
  <2>6. i \in {11, 3, 7}
    <3>1. i \in Irq
      BY <2>4 DEF Ready
    <3> HIDE DEF i
    <3> QED
      BY <2>4, <3>1 DEF Rank, Irq
  <2> HIDE DEF i
  <2>7. i \notin csr.mideleg
    <3>1. i \in csr.mideleg => i \in SIrq
      BY <2>4 DEF Ready, Eligible
    <3> QED
      BY <2>6, <3>1 DEF SIrq
  <2>8. TrapTarget(i, TRUE) = M
    BY <2>7 DEF TrapTarget
  <2>9. priv' = M /\ csr'.mcause = [irq |-> TRUE, code |-> i] /\ csr'.mepc = pc
    <3>1. S # M /\ csr \in CsrFile
      BY <1>1 DEF S, M, TypeOK
    <3>2. /\ priv' = M
          /\ csr' = [csr EXCEPT !.mepc = pc, !.mcause = [irq |-> TRUE, code |-> i]]
      BY <2>5, <2>8, <3>1 DEF Trap
    <3> QED
      BY <3>1, <3>2 DEF CsrFile
  <2> QED
    BY <2>9
<1>2. TypeOK /\ [Next]_vars =>
        [(/\ clint.hi * Half + clint.lo + 1 >= clint.cmpHi * Half + clint.cmpLo
          /\ 7 \in csr.mie \ csr.mideleg
          /\ priv = M => mstatus.mie)
         => priv' = M /\ csr'.mcause.irq /\ csr'.mepc = pc]_vars
  BY <1>1
<1> QED
  BY <1>2, TypeCorrect, PTL DEF Spec, TimerPreempts

\* The page a user store went through is in the TLB after it, and grants it.
LEMMA StoreGranted ==
  ASSUME TypeOK, priv = U, satp.sv32, NEW va \in Addr, NEW i, i.va = va,
         NEW a \in Translate(va, "store")
  PROVE  \E v \in Vpn : \E e \in AccessFilled(i, "store")[v] :
           Frame(e.ppn) = a \div Entries /\ {"U", "W", "D"} \subseteq e.flags
<1> DEFINE v == Page(va)
           walked == Walk(ram, satp.ppn, v)
           fetched == Filled(pc, "fetch")
           granted(e) == Frame(e.ppn) = a \div Entries /\ {"U", "W", "D"} \subseteq e.flags
<1>1. v \in Vpn /\ va % Entries \in 0 .. Entries - 1
  BY Paged
<1>2. EffectivePriv("store") = U /\ ~Bare("store")
  BY DEF EffectivePriv, Bare, U, M
<1>3. /\ TlbType(tlb) /\ walked \in SUBSET Leaves
      /\ \A e, f \in walked : e = f
  BY <1>1, TypeFacts, WalkType
<1>4. PICK e \in IF Hit(v) # {} THEN Hit(v) ELSE walked :
        ~Denied(e.flags, "store") /\ a = Frame(e.ppn) * Entries + (va % Entries)
  BY <1>2 DEF Translate
<1>5. Frame(e.ppn) \in Nat
  <2>1. Hit(v) \subseteq TlbEntry
    BY <1>1, <1>3 DEF Hit, TlbType
  <2>2. e.ppn \in Nat
    BY <1>3, <2>1 DEF TlbEntry, Leaves
  <2> QED
    BY <2>2, FrameIs
<1>6. granted(e)
  <2>1. a \div Entries = Frame(e.ppn)
    BY <1>1, <1>4, <1>5, Quotient, HartAssumption
  <2> QED
    BY <1>2, <1>4, <2>1 DEF Denied
<1>7. ASSUME NEW t, t = AccessFilled(i, "store"), \E f \in t[v] : granted(f)
      PROVE  \E w \in Vpn : \E f \in AccessFilled(i, "store")[w] : granted(f)
  BY <1>1, <1>7
<1>8. AccessFilled(i, "store")[v] = IF Page(pc) = v /\ fetched # tlb THEN fetched[v]
                                    ELSE Filled(va, "store")[v]
  <2>1. fetched = [x \in Vpn |-> fetched[x]]
    BY FilledDomain, TypeFacts
  <2> HIDE DEF fetched
  <2> QED
    BY <1>1, <2>1 DEF AccessFilled, fetched
<1> HIDE DEF v, fetched, walked
<1>9. CASE Hit(v) # {}
  <2>1. Filled(va, "store") = tlb
    BY <1>9 DEF Filled, v
  <2>2. Page(pc) = v => fetched = tlb
    BY <1>9 DEF Filled, fetched
  <2>3. e \in tlb[v]
    BY <1>4, <1>9 DEF Hit
  <2> QED
    BY <1>6, <1>7, <1>8, <2>1, <2>2, <2>3
<1>10. CASE Hit(v) = {}
  <2>1. e \in walked /\ granted(Cached(e))
    <3>1. e \in walked
      BY <1>4, <1>10
    <3> QED
      BY <1>1, <1>6, <3>1, CachedEntry DEF walked
  <2>2. CASE Page(pc) = v /\ fetched # tlb
    <3> DEFINE good == {f \in walked : ~Denied(f.flags, "fetch")}
    <3>1. good # {} /\ fetched = [tlb EXCEPT ![v] = {Cached(f) : f \in good}]
      BY <2>2 DEF Filled, fetched, walked
    <3>2. e \in good
      BY <1>3, <2>1, <3>1
    <3> HIDE DEF good
    <3>3. Cached(e) \in fetched[v]
      BY <1>1, <1>3, <3>1, <3>2 DEF TlbType
    <3> QED
      BY <1>7, <1>8, <2>1, <2>2, <3>3
  <2>3. CASE ~(Page(pc) = v /\ fetched # tlb)
    <3> DEFINE good == {f \in walked : ~Denied(f.flags, "store")}
    <3>1. e \in good
      BY <1>4, <2>1
    <3>2. Filled(va, "store") = [tlb EXCEPT ![v] = {Cached(f) : f \in good}]
      BY <1>2, <1>10, <3>1 DEF Filled, v, walked
    <3> HIDE DEF good
    <3>3. Cached(e) \in Filled(va, "store")[v]
      BY <1>1, <1>3, <3>1, <3>2 DEF TlbType
    <3> QED
      BY <1>7, <1>8, <2>1, <2>3, <3>3
  <2> QED
    BY <2>2, <2>3
<1> QED
  BY <1>9, <1>10

\* Only a store that is not refused changes a word of RAM.
LEMMA OnlyStores ==
  ASSUME TypeOK, Next, ram' # ram
  PROVE  \E i \in guest.insts :
           /\ IsInst(i) /\ i.op = "store"
           /\ \E a \in Translate(i.va, "store") \cap RamWords :
                ram' = [ram EXCEPT ![a] = i.val]
           /\ tlb' = AccessFilled(i, "store")
<1>1. ~TakeInterrupt /\ ~FetchFaults /\ ~FetchThrows
  BY DEF TakeInterrupt, FetchFaults, FetchThrows, BusError, Trap
<1>2. PICK i \in guest.insts : Execute(i)
  BY <1>1 DEF Next
<1>3. IsInst(i)
  BY TypeParts, GuestInst
<1>4. \A code : ~Raise(code)
  BY DEF Raise, Trap
<1>5. Store(i)
  BY <1>2, <1>4 DEF Execute, Nop, Jump, Call, Sret, Mret, Sfence, Csr, Load, StoreClint,
                    Quiet, Refused, BusError
<1>6. ~Refused(i, "store")
  BY <1>4 DEF Refused, BusError
<1> QED
  BY <1>3, <1>5, <1>6 DEF Store

\* User code is confined: a step that stays in U mode changes no CSR above user
\* level, and under Sv32 the word it stores lies in a page whose leaf marks it
\* user, writable and dirty.
THEOREM UserCodeConfined == Spec => UserConfined
<1>1. ASSUME TypeOK, Next, priv = U, priv' = U
      PROVE  /\ UNCHANGED <<mstatus, csr, satp, halted>>
             /\ satp.sv32 => \A a \in RamWords : ram'[a] # ram[a] =>
                  \E v \in Vpn : \E e \in tlb'[v] :
                    Frame(e.ppn) = a \div Entries /\ {"U", "W", "D"} \subseteq e.flags
  <2>1. UNCHANGED <<mstatus, csr, satp, halted>>
    <3>1. ASSUME NEW code, NEW irq, Trap(code, irq) PROVE FALSE
      <4>1. priv' \in {S, M}
        BY <3>1, TrapTo DEF Trap
      <4> QED
        BY <1>1, <4>1 DEF U, S, M
    <3> QED
      BY <1>1, <3>1, StepTraps DEF Calm
  <2>2. ASSUME satp.sv32, NEW a \in RamWords, ram'[a] # ram[a]
        PROVE  \E v \in Vpn : \E e \in tlb'[v] :
                 Frame(e.ppn) = a \div Entries /\ {"U", "W", "D"} \subseteq e.flags
    <3>1. PICK i \in guest.insts :
            /\ IsInst(i) /\ i.op = "store"
            /\ \E b \in Translate(i.va, "store") \cap RamWords :
                 ram' = [ram EXCEPT ![b] = i.val]
            /\ tlb' = AccessFilled(i, "store")
      BY <1>1, <2>2, OnlyStores
    <3>2. a \in Translate(i.va, "store")
      BY <2>2, <3>1
    <3>3. i.va \in Addr
      BY <3>1 DEF IsInst
    <3> QED
      BY <1>1, <2>2, <3>1, <3>2, <3>3, StoreGranted
  <2> QED
    BY <2>1, <2>2
<1>2. TypeOK /\ [Next]_vars =>
        [priv = U /\ priv' = U =>
           /\ UNCHANGED <<mstatus, csr, satp, halted>>
           /\ satp.sv32 => \A a \in RamWords : ram'[a] # ram[a] =>
                \E v \in Vpn : \E e \in tlb'[v] :
                  Frame(e.ppn) = a \div Entries /\ {"U", "W", "D"} \subseteq e.flags]_vars
  BY <1>1
<1> QED
  BY <1>2, TypeCorrect, PTL DEF Spec, UserConfined
=============================================================================
