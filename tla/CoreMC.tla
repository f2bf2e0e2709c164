------------------------------- MODULE CoreMC -------------------------------
(* Small instances of Registry and MethodHook for TLC.  They share no state:  *)
(* in a behaviour only the one that `part' names moves, which adds up their   *)
(* states instead of multiplying them.                                        *)
EXTENDS Registry, MethodHook, TLC

VARIABLE part

CONSTANTS p1, p2, m1, m2, l1, l2,             \* plugins, modules, modloaders
          f1, f2, t, h1, h2, a1, a2, b1, b2   \* methods, handles, prefixes, postfixes

-----------------------------------------------------------------------------
\* m1 and l1 share p1, m2 and l2 share p2, m2 also needs p1.
SharedDeps == (m1 :> {p1}) @@ (m2 :> {p1, p2}) @@ (l1 :> {p1}) @@ (l2 :> {p2})

\* What the hooks tell apart by nothing but its name.
Interchangeable ==
  Permutations({f1, f2}) \union Permutations({h1, h2}) \union
  Permutations({a1, a2}) \union Permutations({b1, b2})

-----------------------------------------------------------------------------
CoreInit == part \in {"registry", "hooks"} /\ Init /\ HookInit

CoreNext == /\ UNCHANGED part
            /\ \/ part = "registry" /\ Next /\ UNCHANGED hookVars
               \/ part = "hooks" /\ HookNext /\ UNCHANGED vars

CoreSpec == CoreInit /\ [][CoreNext]_<<vars, hookVars, part>>
=============================================================================
