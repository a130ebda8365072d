---------------------------- MODULE LoopTheorems ----------------------------
(***************************************************************************)
(* Induction over the numbers and the runs of counted loops, stated for sets  *)
(* and functions: a property is a set of numbers, the states of a loop are a   *)
(* set S and its passes functions on S.  So stated, a proof about a concrete   *)
(* loop can use them.                                                       *)
(***************************************************************************)
EXTENDS Loops, WellFoundedInduction, TLAPS

\* A set of natural numbers that holds one has a least.
LEMMA Least ==
  ASSUME NEW T \in SUBSET Nat, NEW k \in T
  PROVE  \E n \in T : \A i \in T : n <= i
<1>1. IsWellFoundedOn(OpToRel(<, Nat), Nat)
  BY NatLessThanWellFounded
<1>2. \E n \in T : \A i \in T : ~(<<i, n>> \in OpToRel(<, Nat))
  BY <1>1, WFMin
<1>3. PICK n \in T : \A i \in T : ~(<<i, n>> \in OpToRel(<, Nat))
  BY <1>2
<1>4. \A i \in T : ~(i < n)
  BY <1>3 DEF OpToRel
<1> QED
  BY <1>4

\* Induction: a set that holds 0, and with each number below n the next one, holds n.
LEMMA Induct ==
  ASSUME NEW n \in Nat, NEW T,
         0 \in T, \A k \in 0 .. n - 1 : k \in T => k + 1 \in T
  PROVE  \A k \in 0 .. n : k \in T
<1> DEFINE Bad == {k \in 0 .. n : k \notin T}
<1> SUFFICES ASSUME NEW k \in Bad PROVE FALSE
  OBVIOUS
<1>1. Bad \in SUBSET Nat
  OBVIOUS
<1>2. PICK b \in Bad : \A i \in Bad : b <= i
  <2> HIDE DEF Bad
  <2> QED
    BY <1>1, Least
<1>3. b \in 1 .. n
  BY <1>2
<1>4. b - 1 \in 0 .. n - 1 /\ b - 1 \notin Bad
  BY <1>2, <1>3
<1>5. b - 1 \in T
  BY <1>4
<1>6. (b - 1) + 1 \in T /\ (b - 1) + 1 = b
  BY <1>3, <1>4, <1>5
<1> QED
  BY <1>2, <1>6

\* The values of a loop: run from b, step k leading from what has run before it.
Runs(S, F, b, n) ==
  {g \in [0 .. n -> S] : g[0] = b /\ \A k \in 0 .. n - 1 : g[k + 1] = F[k][g[k]]}

\* They exist, and within S, if S holds the start and the steps keep it.
LEMMA RunsExist ==
  ASSUME NEW S, NEW b \in S, NEW n \in Nat, NEW F \in [Nat -> [S -> S]]
  PROVE  Runs(S, F, b, n) # {}
<1> DEFINE T == {k \in 0 .. n : Runs(S, F, b, k) # {}}
<1>1. 0 \in T
  <2>1. [i \in 0 .. 0 |-> b] \in Runs(S, F, b, 0)
    BY DEF Runs
  <2> QED
    BY <2>1
<1>2. ASSUME NEW k \in 0 .. n - 1, k \in T PROVE k + 1 \in T
  <2>1. PICK g : g \in Runs(S, F, b, k)
    BY <1>2
  <2> DEFINE h == [i \in 0 .. k + 1 |-> IF i = k + 1 THEN F[k][g[k]] ELSE g[i]]
  <2>2. h \in [0 .. k + 1 -> S]
    BY <2>1 DEF Runs
  <2>3. h[0] = b
    BY <2>1 DEF Runs
  <2>4. ASSUME NEW i \in 0 .. k PROVE h[i + 1] = F[i][h[i]]
    <3>1. CASE i = k
      BY <3>1
    <3>2. CASE i \in 0 .. k - 1
      <4>1. g[i + 1] = F[i][g[i]]
        BY <2>1, <3>2 DEF Runs
      <4> QED
        BY <4>1, <3>2
    <3> QED
      BY <3>1, <3>2
  <2>5. (k + 1) - 1 = k
    OBVIOUS
  <2>6. h \in Runs(S, F, b, k + 1)
    <3> HIDE DEF h
    <3> QED
      BY <2>2, <2>3, <2>4, <2>5 DEF Runs
  <2> QED
    BY <2>6
<1>3. \A k \in 0 .. n : k \in T
  <2> HIDE DEF T
  <2> QED
    BY <1>1, <1>2, Induct
<1> QED
  BY <1>3, n \in 0 .. n
=============================================================================
