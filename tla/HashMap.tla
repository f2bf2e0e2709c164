------------------------------- MODULE HashMap -------------------------------
(***************************************************************************)
(* The hash table of src/tefstd/hashmap.c: open addressing with linear     *)
(* probing, deleted cells kept as tombstones, doubled when three quarters  *)
(* of the cells are occupied, and its iterator.                            *)
(*                                                                         *)
(* cell[p] is Empty, Tomb, or the <<key, value>> stored at position p.     *)
(* The bytes a tombstone keeps are never read.  FNV-1a is the constant     *)
(* Hash.  find_slot gives a key whose 64-bit hash is 0 no probe at all;    *)
(* such keys are excluded.                                                 *)
(***************************************************************************)
EXTENDS Integers, FiniteSets, FiniteSetsExt, SequencesExt

CONSTANTS Keys, Values,
          Hash,        \* auto_hash of each key
          InitialCap,  \* initial_capacity
          MaxCap,      \* bound: resizing beyond it fails for lack of memory
          Empty, Tomb, NoSlot

ASSUME HashMapAssumption ==
  /\ Hash \in [Keys -> Nat \ {0}]
  /\ InitialCap \in Nat \ {0} /\ MaxCap \in Nat /\ InitialCap <= MaxCap
  /\ Empty \notin Keys \X Values /\ Tomb \notin Keys \X Values /\ Empty # Tomb
  /\ NoSlot \notin Nat

VARIABLES
  cap, cell, size,   \* the table
  iter,              \* position of an iterator, NoSlot when there is none
  seen,              \* keys tefstd_hashmap_next has returned
  owed               \* keys that were there when the iteration began and stayed

tableVars == <<cap, cell, size>>
iterVars  == <<iter, seen, owed>>
hashMapVars == <<tableVars, iterVars>>

Positions == 0 .. cap - 1
Occupied(p) == cell[p] \notin {Empty, Tomb}

TableInit ==
  /\ cap = InitialCap /\ size = 0
  /\ cell = [p \in 0 .. InitialCap - 1 |-> Empty]
  /\ iter = NoSlot /\ seen = <<>> /\ owed = {}
-----------------------------------------------------------------------------
\* Mutant: a tombstone ends the search like an empty cell.
FindSlot_TombEnds(c, n, k) ==
  LET at(i) == (Hash[k] + i) % n
      ends  == {i \in 0 .. n - 1 : c[at(i)] \in {Empty, Tomb} \/ c[at(i)][1] = k}
  IN IF ends = {} THEN [found |-> FALSE, pos |-> NoSlot]
     ELSE [found |-> c[at(Min(ends))] \notin {Empty, Tomb}, pos |-> at(Min(ends))]

\* find_slot in the cells c of a table with n cells: the first cell of the
\* probe sequence that is empty or holds k ends the search.  A new key takes the
\* first tombstone met on the way.  A sequence without such an end finds no
\* slot, tombstones or not.
FindSlot(c, n, k) ==
  LET at(i) == (Hash[k] + i) % n
      holds(i) == c[at(i)] \notin {Empty, Tomb} /\ c[at(i)][1] = k
      ends  == {i \in 0 .. n - 1 : c[at(i)] = Empty \/ holds(i)}
      tombs == {i \in 0 .. n - 1 : c[at(i)] = Tomb}
  IN IF ends = {} THEN [found |-> FALSE, pos |-> NoSlot]
     ELSE IF holds(Min(ends)) THEN [found |-> TRUE, pos |-> at(Min(ends))]
     ELSE [found |-> FALSE, pos |-> at(Min(tombs \union {Min(ends)}))]

\* What moving one cell of the old table does to the new one, of n cells.
Moved(new, n, entry) ==
  IF entry \in {Empty, Tomb} THEN new
  ELSE [new EXCEPT ![FindSlot(new, n, entry[1]).pos] = entry]

\* Mutant: the last cell of the old table is not moved.
Rehash_SkipsLast(c, n) ==
  LET moved[i \in 0 .. Cardinality(DOMAIN c)] ==
        IF i = 0 THEN [p \in 0 .. n - 1 |-> Empty] ELSE Moved(moved[i - 1], n, c[i - 1])
  IN moved[Cardinality(DOMAIN c) - 1]

\* resize: every occupied cell is inserted into a new table, in the order of
\* the old one.
Rehash(c, n) ==
  LET moved[i \in 0 .. Cardinality(DOMAIN c)] ==
        IF i = 0 THEN [p \in 0 .. n - 1 |-> Empty] ELSE Moved(moved[i - 1], n, c[i - 1])
  IN moved[Cardinality(DOMAIN c)]

\* tefstd_hashmap_put into the cells c of n: the test of the load precedes the
\* search, so updating a key can resize too.
Insert(c, n, k, v) ==
  LET slot == FindSlot(c, n, k)
  IN /\ cap' = n
     /\ IF slot.pos = NoSlot THEN cell' = c /\ UNCHANGED size
        ELSE /\ cell' = [c EXCEPT ![slot.pos] = <<k, v>>]
             /\ size' = IF slot.found THEN size ELSE size + 1

\* An iterator is good for as long as nothing but updates in place and
\* deletions of keys it has returned happen to the table.
Disturb == iter' = NoSlot /\ seen' = <<>> /\ owed' = {}

Put(k, v) ==
  /\ IF size * 4 >= cap * 3
     THEN /\ cap * 2 <= MaxCap
          /\ Insert(Rehash(cell, cap * 2), cap * 2, k, v)
     ELSE Insert(cell, cap, k, v)
  /\ IF size * 4 < cap * 3 /\ FindSlot(cell, cap, k).found THEN UNCHANGED iterVars
                                                           ELSE Disturb

Del(k) ==
  LET slot == FindSlot(cell, cap, k)
  IN /\ slot.found
     /\ cell' = [cell EXCEPT ![slot.pos] = Tomb]
     /\ size' = size - 1
     /\ UNCHANGED cap
     /\ IF k \in ToSet(seen) THEN owed' = owed \ {k} /\ UNCHANGED <<iter, seen>>
                             ELSE Disturb

Clear ==
  /\ cell' = [p \in Positions |-> Empty]
  /\ size' = 0
  /\ UNCHANGED cap
  /\ Disturb

\* The next occupied position at or after p, or cap.
NextOccupied(p) == Min({q \in p .. cap - 1 : Occupied(q)} \union {cap})

\* Mutant: the iterator starts at cell 0, occupied or not.
IterBegin_AtZero ==
  /\ iter = NoSlot
  /\ iter' = 0
  /\ seen' = <<>>
  /\ owed' = {cell[p][1] : p \in {q \in Positions : Occupied(q)}}
  /\ UNCHANGED tableVars

\* tefstd_hashmap_iter.
IterBegin ==
  /\ iter = NoSlot
  /\ iter' = NextOccupied(0)
  /\ seen' = <<>>
  /\ owed' = {cell[p][1] : p \in {q \in Positions : Occupied(q)}}
  /\ UNCHANGED tableVars

HasNext == iter < cap /\ Occupied(iter)

\* tefstd_hashmap_next returning an element.
IterNext ==
  /\ iter # NoSlot /\ HasNext
  /\ seen' = Append(seen, cell[iter][1])
  /\ iter' = NextOccupied(iter + 1)
  /\ UNCHANGED <<owed, tableVars>>

\* tefstd_hashmap_next returning false: the caller is done.
IterEnd ==
  /\ iter # NoSlot /\ ~HasNext
  /\ Disturb
  /\ UNCHANGED tableVars

TableNext ==
  \/ \E k \in Keys, v \in Values : Put(k, v)
  \/ \E k \in Keys : Del(k)
  \/ Clear
  \/ IterBegin \/ IterNext \/ IterEnd

TableSpec == TableInit /\ [][TableNext]_hashMapVars
-----------------------------------------------------------------------------
TableTypeOK ==
  /\ cap \in Nat /\ size \in 0 .. cap
  /\ cell \in [Positions -> (Keys \X Values) \union {Empty, Tomb}]
  /\ iter \in (0 .. cap) \union {NoSlot}
  /\ seen \in Seq(Keys) /\ owed \subseteq Keys

\* No key is lost or stored twice: the search for the key of an occupied cell
\* ends at that very cell, however cells were deleted, reused and moved.
EveryKeyFound ==
  \A p \in Positions : Occupied(p) =>
    FindSlot(cell, cap, cell[p][1]) = [found |-> TRUE, pos |-> p]

\* size, which decides when to grow, is the number of occupied cells.
SizeIsCount == size = Cardinality({p \in Positions : Occupied(p)})

\* An iteration that ends has returned every key exactly once, although the
\* caller deleted keys it was given.
IterationComplete ==
  iter # NoSlot /\ ~HasNext =>
     owed \subseteq ToSet(seen) /\ IsInjective(seen)

\* What tefstd_hashmap_get answers.
Content ==
  [k \in {j \in Keys : FindSlot(cell, cap, j).found} |->
     cell[FindSlot(cell, cap, k).pos][2]]

\* The table is a map.
Map == INSTANCE AssocMap WITH content <- Content
ImplementsMap == Map!Spec

\* hashmap.h:119: a put fails only when there is no memory.
PutFindsRoom ==
  size * 4 < cap * 3 => \A k \in Keys : FindSlot(cell, cap, k).pos # NoSlot
=============================================================================
