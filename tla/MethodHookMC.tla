---------------------------- MODULE MethodHookMC -----------------------------
(* Small instances of MethodHook for TLC: m1 and m2 get prefix/postfix      *)
(* hooks, t gets a typed one.  There are as many handles as methods.        *)
EXTENDS MethodHook

CONSTANTS m1, m2, t, h1, h2, p1, p2, q1, q2

Interchangeable ==
  Permutations({m1, m2}) \union Permutations({h1, h2}) \union
  Permutations({p1, p2}) \union Permutations({q1, q2})
=============================================================================
