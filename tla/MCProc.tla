------------------------------- MODULE MCProc -------------------------------
(* Small instances of Proc for TLC.                                        *)
EXTENDS Proc

(* The words that a program passes to sleep: a tick count, and two whose   *)
(* high half is not empty, which the kernel reads as pending signals.      *)
(* BorrowSleep has no ticks, so its countdown borrows from that half.      *)
OneTick == [ticks |-> 1, sigs |-> {}]
NegativeSleep == [ticks |-> 1, sigs |-> {15}]
BorrowSleep == [ticks |-> 0, sigs |-> {1}]

SafetySleeps == {OneTick, NegativeSleep}
FairSleeps == {BorrowSleep}
NegativeSleeps == {NegativeSleep}

(* No property tells exit codes apart: exit with the code of a kill.       *)
KilledCode == {-9}
=============================================================================
