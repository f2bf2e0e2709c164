----------------------------- MODULE LogPoolMC ------------------------------
(* Small instances of LogPool for TLC.                                      *)
EXTENDS LogPool, TLC

WorkerSymmetry == Permutations(Workers)
=============================================================================
