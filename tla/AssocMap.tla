------------------------------ MODULE AssocMap -------------------------------
(***************************************************************************)
(* What include/tefstd/hashmap.h promises of a tefstd_hashmap_t: a finite  *)
(* map from keys to values.  A put that cannot get memory leaves the map   *)
(* as it was.                                                              *)
(***************************************************************************)
CONSTANTS Keys, Values

VARIABLE content

Init == content = [k \in {} |-> k]

Store(m, k, v) == [j \in DOMAIN m \union {k} |-> IF j = k THEN v ELSE m[j]]
Without(m, k)  == [j \in DOMAIN m \ {k} |-> m[j]]

\* What a put, a delete or a clear may leave.
After(m) == {Store(m, k, v) : k \in Keys, v \in Values}
            \union {Without(m, k) : k \in DOMAIN m} \union {[k \in {} |-> k]}

Next == content' \in After(content)

Spec == Init /\ [][Next]_content
=============================================================================
