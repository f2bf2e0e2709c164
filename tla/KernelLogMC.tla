---------------------------- MODULE KernelLogMC -----------------------------
(* Small instances of KernelLog for TLC.                                    *)
EXTENDS KernelLog, TLC

WriterSymmetry == Permutations(Writers)
=============================================================================
