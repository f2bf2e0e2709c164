------------------------------- MODULE StdMC -------------------------------
(* Small instances of LogPool and HashMap, the two of tefstd, for TLC.  They  *)
(* share no state: in a behaviour only the one that `part' names moves, which *)
(* adds up their states instead of multiplying them.  The pool is taken twice: *)
(* one worker that shares its batch buffer between all loggers, for up to two  *)
(* messages, and all workers, which take turns on the messages of one logger,  *)
(* up to MaxWrites.  The other logger is only opened then, which is when the   *)
(* pool grows.  The fairness is that of LogPool.                               *)
EXTENDS LogPool, HashMap, TLC

VARIABLE part

CONSTANTS f1, w1, k1, k2, k3

\* Three keys with one home in a table of four, two of them also in one of
\* eight; the probe sequence of k3 wraps around.
Colliding == (k1 :> 3) @@ (k2 :> 7) @@ (k3 :> 11)

Others == Loggers \ {f1}    \* opened after f1
Within ==
  /\ started = {} \/ w1 \in started
  /\ owner[f1] = "none" => \A l \in Others : owner[l] = "none"
  /\ \/ part = "shared" /\ started \subseteq {w1} /\ Writes <= 2
     \/ part = "turns" /\ \A l \in Others : owner[l] \in {"none", "opening", "open"} /\ accepted[l] + dropped[l] = 0

StdInit == part \in {"shared", "turns", "map"} /\ Init /\ TableInit

InPool(step) == part # "map" /\ UNCHANGED <<part, hashMapVars>> /\ step /\ Within'

StdNext == \/ InPool(Next)
           \/ part = "map" /\ TableNext /\ UNCHANGED <<part, vars>>

StdFairness == /\ \A l \in Loggers : WF_vars(InPool(OwnerStep(l)))
               /\ \A w \in Workers : WF_vars(InPool(WorkerStep(w)))

StdSpec == StdInit /\ [][StdNext]_<<vars, hashMapVars, part>> /\ StdFairness
=============================================================================
