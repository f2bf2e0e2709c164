------------------------------ MODULE LogQueue ------------------------------
(***************************************************************************)
(* What the lock-free ring of src/tefstd/log.c promises its users: a       *)
(* bounded queue in which a message first takes a place (in a total order  *)
(* over all producers), is later marked ready by the producer that took    *)
(* the place, and leaves in the order of the places.  A message is lost    *)
(* only at a moment when all Cap places are taken.                         *)
(***************************************************************************)
EXTENDS Naturals, Sequences

CONSTANTS Messages,   \* what producers write
          Cap         \* number of places

VARIABLES log,    \* every message that ever took a place, in place order
          ready,  \* the taken places whose message is complete
          out,    \* the messages that left, in the order they left
          lost    \* how many messages found no place

vars == <<log, ready, out, lost>>

Pending == Len(log) - Len(out)

Init == log = <<>> /\ ready = {} /\ out = <<>> /\ lost = 0

TakePlace(m) == /\ Pending < Cap
                /\ log' = Append(log, m)
                /\ UNCHANGED <<ready, out, lost>>

MarkReady(i) == /\ i \in (Len(out) + 1)..Len(log)
                /\ i \notin ready
                /\ ready' = ready \union {i}
                /\ UNCHANGED <<log, out, lost>>

Leave == /\ Len(out) + 1 \in ready
         /\ out' = Append(out, log[Len(out) + 1])
         /\ ready' = ready \ {Len(out) + 1}
         /\ UNCHANGED <<log, lost>>

Lose == /\ Pending = Cap
        /\ lost' = lost + 1
        /\ UNCHANGED <<log, ready, out>>

Next == \/ \E m \in Messages : TakePlace(m)
        \/ \E i \in 1..Len(log) : MarkReady(i)
        \/ Leave
        \/ Lose

Spec == Init /\ [][Next]_vars
=============================================================================
