----------------------------- MODULE Stripping ------------------------------
(* What is left of a sequence when some values are taken out of it.          *)
EXTENDS Integers, Sequences

\* The elements of s that are not in gone, in their order.
Strip(s, gone) ==
  LET kept[i \in 0..Len(s)] ==
        IF i = 0 THEN <<>>
        ELSE IF s[i] \in gone THEN kept[i - 1] ELSE Append(kept[i - 1], s[i])
  IN kept[Len(s)]

(* A loop over an array without order: what is taken out is overwritten with the *)
(* last element, and the loop looks at the same place again (buff_manager.c,     *)
(* button_manager.c).                                                            *)
SwapErase(s, i) == SubSeq(IF i = Len(s) THEN s ELSE [s EXCEPT ![i] = s[Len(s)]], 1, Len(s) - 1)
Looked(at, gone) ==
  IF at.s[at.i] \in gone THEN [at EXCEPT !.s = SwapErase(@, at.i)] ELSE [at EXCEPT !.i = @ + 1]
Without(s, gone) ==
  LET pass[n \in 0..Len(s)] == IF n = 0 THEN [s |-> s, i |-> 1] ELSE Looked(pass[n-1], gone)
  IN pass[Len(s)].s
=============================================================================
