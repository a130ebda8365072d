------------------------------- MODULE MCHart -------------------------------
(* Guests for Hart: two of privilege and interrupts, one of paging.          *)
EXTENDS Hart

mcEntries == 2
mcFrames == 3

Off == [sie |-> FALSE, mie |-> FALSE, spie |-> FALSE, mpie |-> FALSE,
        spp |-> U, mpp |-> U, mprv |-> FALSE, sum |-> FALSE,
        mxr |-> FALSE, tvm |-> FALSE, tsr |-> FALSE]
Leaf(f, fl) == [flags |-> {"V", "A", "D"} \cup fl, ppn |-> f]
Pointer(f) == [flags |-> {"V"}, ppn |-> f]
Nothing == [flags |-> {}, ppn |-> 0]
Blank == [a \in 0 .. mcFrames * mcEntries - 1 |-> Nothing]

I(o) == [op |-> o]
W(r, f, v) == [op |-> "csr", csr |-> r, form |-> f, val |-> v]
C(r, v) == [op |-> "clint", reg |-> r, val |-> v]
At(b, v) == [base |-> b, vectored |-> v]
Fence(v, a) == [op |-> "sfence", vpn |-> v, asid |-> a]
To(t) == [op |-> "jump", to |-> t, aligned |-> TRUE]
Get(v) == [op |-> "load", va |-> v]
Put(v, w) == [op |-> "store", va |-> v, val |-> w]

\* A kernel with delegated calls and a delegated timer bit beside machine
\* software interrupts: nesting of S and M handlers.
delegating ==
  [medeleg |-> {8, 2}, mideleg |-> {5}, stvec |-> At(2, FALSE), mtvec |-> At(1, TRUE),
   ram |-> Blank,
   insts |-> {I("ecall"), I("sret"), I("mret"), C("msip", 0), C("msip", 1),
              W("mie", "rs", {3, 5}), W("sip", "rs", {5}), W("sip", "rc", {5}),
              W("mip", "rs", {1}), W("sie", "rc", {5}),
              W("mstatus", "rw", [Off EXCEPT !.mpp = S, !.mpie = TRUE, !.tsr = TRUE]),
              W("mstatus", "rw", [Off EXCEPT !.spp = S, !.sie = TRUE, !.mie = TRUE]),
              W("sstatus", "rw", [Off EXCEPT !.sie = TRUE]), W("mhartid", "rw", {1}),
              W("fcsr", "rw", 257), W("mcycle", "rw", 1)}]

\* A guest under the machine timer, and one whose supervisor has no handler.
timed ==
  [medeleg |-> {}, mideleg |-> {}, stvec |-> Unset, mtvec |-> At(1, TRUE),
   ram |-> Blank,
   insts |-> {I("nop"), I("illegal"), I("ebreak"), I("mret"), To(6),
              [op |-> "jump", to |-> 3, aligned |-> FALSE],
              C("cmpLo", 2), C("cmpHi", 0), C("cmpHi", 1), C("cmpHi", 3), C("mtime", 0),
              W("mie", "rs", {7}), W("mie", "rs", {7, 9}), W("mip", "rs", {9}),
              W("mepc", "rw", 5), W("sip", "rs", {1}),
              W("mstatus", "rw", [Off EXCEPT !.mie = TRUE, !.mpp = S])}]
unhandled == [timed EXCEPT !.medeleg = {2, 3}, !.insts = @ \ {C("cmpHi", 3), To(6)}]

\* Two tables (frames 1 and 2): page 0 code for both levels, page 1 data in
\* frame 0 under a number that wraps, page 2 the leaf table itself, page 3
\* no RAM; then the guest rewrites them.
tables ==
  [Blank EXCEPT ![2] = Pointer(2),
                ![3] = Leaf(2, {"R", "W", "X"}),
                ![4] = Leaf(0, {"R", "X", "G"}),
                ![5] = Leaf(4, {"R", "W", "U"})]
paging ==
  [medeleg |-> {}, mideleg |-> {}, stvec |-> Unset, mtvec |-> At(1, FALSE),
   ram |-> tables,
   insts |-> {I("mret"), Get(2), Get(6), Put(2, Nothing), To(6),
              Put(4, Leaf(2, {"R", "W", "X", "U"})), Put(5, Leaf(0, {"R", "W", "U"})),
              Put(3, Pointer(2)), Put(3, Pointer(7)), Put(3, Leaf(8, {"R", "W", "X", "U"})),
              Fence(None, None), Fence(1, None), Fence(None, 0), Fence(None, 1),
              W("satp", "rw", [sv32 |-> TRUE, asid |-> 1, ppn |-> 1]),
              W("satp", "rw", [sv32 |-> TRUE, asid |-> 0, ppn |-> 2]),
              W("mstatus", "rw", [Off EXCEPT !.mpp = S, !.sum = TRUE]),
              W("mstatus", "rw", [Off EXCEPT !.mprv = TRUE, !.mxr = TRUE])}]

mcGuests == {delegating, timed, unhandled, paging}
=============================================================================
