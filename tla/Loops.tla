------------------------------- MODULE Loops --------------------------------
(***************************************************************************)
(* A counted loop: the state after n passes that start in b, pass i (from 0)  *)
(* leading from s to step(s, i).  It is a fold over 0 .. n - 1 written as a    *)
(* recursive function, which LoopTheorems can reason about.                  *)
(***************************************************************************)
EXTENDS Integers

Loop(step(_, _), b, n) ==
  LET after[k \in 0 .. n] == IF k = 0 THEN b ELSE step(after[k - 1], k - 1)
  IN  after[n]
=============================================================================
