------------------------------- MODULE MCBrFS -------------------------------
(* Small instances of BrFS for TLC.                                        *)
EXTENDS BrFS, TLC

(* Names are only compared.                                                *)
Names == Permutations(Name)

(* What falls on the inode of a file of 4080 bytes: the end of a short     *)
(* name, which is zeros, or of a long one.                                 *)
mcTails == {<<0, 0, 0, 0>>, <<7, 7, 7, 2>>}
=============================================================================
