----------------------------- MODULE HashMapMC ------------------------------
(* Small instances of HashMap for TLC.                                      *)
EXTENDS HashMap, TLC

CONSTANTS k1, k2, k3, k4

\* A home of its own for each key.
Spread == (k1 :> 4) @@ (k2 :> 5) @@ (k3 :> 6) @@ (k4 :> 7)
=============================================================================
