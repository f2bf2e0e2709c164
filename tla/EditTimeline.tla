---------------------------- MODULE EditTimeline ----------------------------
(* What an editor's undo history promises: the states the user went through   *)
(* are on a line, one of them is shown, undo and redo move along the line and *)
(* change nothing on it.  A change writes the shown state; the snapshot taken *)
(* before it keeps the old one and ends the line here.  Depth old states are  *)
(* kept at most.                                                              *)
EXTENDS Naturals, Sequences

CONSTANTS Values, Depth

VARIABLES line, pos

TimelineInit == line \in [{1} -> Values] /\ pos = 1

Past == SubSeq(line, 1, pos)
Kept == IF pos > Depth THEN Tail(Past) ELSE Past

\* A change, with or without a snapshot of the state before.
Change(v)   == line' = [line EXCEPT ![pos] = v] /\ UNCHANGED pos
Snapshot(v) == line' = Append(Kept, v) /\ pos' = Len(Kept) + 1
Undo == pos > 1 /\ pos' = pos - 1 /\ UNCHANGED line
Redo == pos < Len(line) /\ pos' = pos + 1 /\ UNCHANGED line
EndHere == line' = Past /\ UNCHANGED pos
\* A new beginning at any state.
Restart(v) == line' = <<v>> /\ pos' = 1

TimelineNext == \/ \E v \in Values : Change(v) \/ Snapshot(v) \/ Restart(v)
                \/ Undo \/ Redo \/ EndHere

TimelineSpec == TimelineInit /\ [][TimelineNext]_<<line, pos>>
=============================================================================
