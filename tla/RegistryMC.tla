----------------------------- MODULE RegistryMC -----------------------------
(* Small instances of Registry for TLC.                                     *)
EXTENDS Registry, TLC

CONSTANTS p1, p2, m1, m2, l1, l2

\* m1 and l1 share p1, m2 and l2 share p2, m2 also needs p1.
SharedDeps == (m1 :> {p1}) @@ (m2 :> {p1, p2}) @@ (l1 :> {p1}) @@ (l2 :> {p2})

HandleSymmetry == Permutations(Handles)
=============================================================================
