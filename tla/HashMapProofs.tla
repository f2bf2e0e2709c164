--------------------------- MODULE HashMapProofs ---------------------------
(***************************************************************************)
(* Proofs about HashMap, for any keys, hash and capacities.                *)
(*                                                                         *)
(* The invariant (HashInv) says that the table is Sound: the search for    *)
(* the key of an entry comes to its position, meeting no empty cell and no *)
(* other entry of the key before.  Storing where a search ended and        *)
(* putting a tombstone in place of an entry keep that (StoreKeepsSound,    *)
(* DeleteKeepsSound), and moving the entries to a larger table establishes *)
(* it there, by induction on the cells moved (RehashKeepsEntries).  In a   *)
(* sound table a search decides whether the key is there (SearchDecides),  *)
(* so what a get answers depends on the set of entries alone (AnswersAre). *)
(***************************************************************************)
EXTENDS HashMap, InductionProofs, FiniteSetTheorems

-----------------------------------------------------------------------------
(* The cells of a table with n cells.                                       *)
Cells(n) == [0 .. n - 1 -> (Keys \X Values) \union {Empty, Tomb}]

\* The positions of c that hold an entry, and the entries there.
Full(c, n)    == {p \in 0 .. n - 1 : c[p] \notin {Empty, Tomb}}
Entries(c, n) == {c[p] : p \in Full(c, n)}

\* Cell i of the probe sequence of k.
Probe(k, i, n) == (Hash[k] + i) % n
Holds(c, p, k) == c[p] \notin {Empty, Tomb} /\ c[p][1] = k

\* The search for k comes to position p.
Reaches(c, n, k, p) ==
  \E i \in 0 .. n - 1 :
    /\ Probe(k, i, n) = p
    /\ \A j \in 0 .. i - 1 : c[Probe(k, j, n)] # Empty /\ ~Holds(c, Probe(k, j, n), k)

\* Each entry is where its search comes to.
Sound(c, n) == \A p \in Full(c, n) : Reaches(c, n, c[p][1], p)

LEMMA ProbeType ==
  ASSUME NEW k \in Keys, NEW i \in Nat, NEW n \in Nat \ {0}
  PROVE  Probe(k, i, n) \in 0 .. n - 1
<1>1. Hash[k] \in Nat BY HashMapAssumption
<1> QED BY <1>1 DEF Probe

\* A probe sequence of n cells passes all of them.
LEMMA ProbeCovers ==
  ASSUME NEW k \in Keys, NEW n \in Nat \ {0}, NEW p \in 0 .. n - 1
  PROVE  \E i \in 0 .. n - 1 : Probe(k, i, n) = p
<1> DEFINE h == Hash[k]  q == h \div n  r == h % n
<1>1. h \in Nat BY HashMapAssumption
<1>2. h = n * q + r /\ r \in 0 .. n - 1 /\ q \in Int BY <1>1
<1>3. \A a \in Int : (n * a + p) % n = p OBVIOUS
<1> HIDE DEF q, r
<1>4. CASE p >= r
  <2>1. p - r \in 0 .. n - 1 /\ h + (p - r) = n * q + p BY <1>2, <1>4
  <2> QED BY <1>2, <1>3, <2>1 DEF Probe
<1>5. CASE p < r
  <2>1. p - r + n \in 0 .. n - 1 /\ h + (p - r + n) = n * (q + 1) + p BY <1>2, <1>5
  <2>2. q + 1 \in Int BY <1>2
  <2> QED BY <1>3, <2>1, <2>2 DEF Probe
<1> QED BY <1>2, <1>4, <1>5

LEMMA MinIsLeast ==
  ASSUME NEW T \in SUBSET Nat, T # {}
  PROVE  Min(T) \in T /\ \A t \in T : Min(T) <= t
BY Least DEF Min

-----------------------------------------------------------------------------
(* The search.                                                              *)

LEMMA SearchFinds ==
  ASSUME NEW n \in Nat \ {0}, NEW c \in Cells(n), NEW k \in Keys, NEW p,
         Reaches(c, n, k, p), Holds(c, p, k)
  PROVE  FindSlot(c, n, k) = [found |-> TRUE, pos |-> p]
<1> DEFINE ends == {i \in 0 .. n - 1 : c[Probe(k, i, n)] = Empty \/ Holds(c, Probe(k, i, n), k)}
<1>1. PICK i \in 0 .. n - 1 :
        /\ Probe(k, i, n) = p
        /\ \A j \in 0 .. i - 1 : c[Probe(k, j, n)] # Empty /\ ~Holds(c, Probe(k, j, n), k)
  BY DEF Reaches
<1>2. i \in ends /\ \A j \in ends : i <= j BY <1>1
<1>3. ends \in SUBSET Nat /\ ends # {} BY <1>2
<1>4. Min(ends) \in ends /\ \A j \in ends : Min(ends) <= j BY <1>3, MinIsLeast
<1>5. Min(ends) = i BY <1>2, <1>3, <1>4
<1>6. ends # {} /\ Holds(c, Probe(k, Min(ends), n), k) /\ Probe(k, Min(ends), n) = p
  BY <1>1, <1>3, <1>5
<1>7. FindSlot(c, n, k).found = TRUE /\ FindSlot(c, n, k).pos = p
      /\ FindSlot(c, n, k) = [found |-> TRUE, pos |-> Probe(k, Min(ends), n)]
  BY <1>6 DEF FindSlot, Probe, Holds
<1> QED BY <1>6, <1>7

LEMMA SearchMisses ==
  ASSUME NEW n \in Nat \ {0}, NEW c \in Cells(n), NEW k \in Keys,
         \A p \in 0 .. n - 1 : ~(Reaches(c, n, k, p) /\ Holds(c, p, k))
  PROVE  /\ FindSlot(c, n, k).found = FALSE
         /\ \/ /\ FindSlot(c, n, k).pos = NoSlot
               /\ \A p \in 0 .. n - 1 : c[p] # Empty
            \/ /\ FindSlot(c, n, k).pos \in 0 .. n - 1
               /\ c[FindSlot(c, n, k).pos] \in {Empty, Tomb}
               /\ Reaches(c, n, k, FindSlot(c, n, k).pos)
<1> DEFINE ends  == {i \in 0 .. n - 1 : c[Probe(k, i, n)] = Empty \/ Holds(c, Probe(k, i, n), k)}
           tombs == {i \in 0 .. n - 1 : c[Probe(k, i, n)] = Tomb}
<1>0. ends \in SUBSET Nat /\ tombs \in SUBSET Nat /\ ends \subseteq 0 .. n - 1 /\ tombs \subseteq 0 .. n - 1
  OBVIOUS
<1>1. CASE ends = {}
  <2>1. FindSlot(c, n, k) = [found |-> FALSE, pos |-> NoSlot]
    BY <1>1 DEF FindSlot, Probe, Holds
  <2>2. ASSUME NEW p \in 0 .. n - 1 PROVE c[p] # Empty
    <3>1. PICK i \in 0 .. n - 1 : Probe(k, i, n) = p BY ProbeCovers
    <3> QED BY <1>1, <3>1
  <2> QED BY <2>1, <2>2
<1>2. CASE ends # {}
  <2> DEFINE m == Min(ends)
  <2>1. m \in ends /\ \A j \in ends : m <= j BY <1>0, <1>2, MinIsLeast
  <2> HIDE DEF m
  <2>2. m \in 0 .. n - 1 /\ \A j \in 0 .. m - 1 : j \in 0 .. n - 1 /\ j \notin ends BY <2>1
  <2>3. \A j \in 0 .. m - 1 : c[Probe(k, j, n)] # Empty /\ ~Holds(c, Probe(k, j, n), k) BY <2>2
  <2>4. Probe(k, m, n) \in 0 .. n - 1 BY <2>2, ProbeType
  <2>5. ~Holds(c, Probe(k, m, n), k)
    <3>1. Reaches(c, n, k, Probe(k, m, n)) BY <2>2, <2>3 DEF Reaches
    <3> QED BY <3>1, <2>4
  <2>6. c[Probe(k, m, n)] = Empty BY <2>1, <2>5
  <2> DEFINE l == Min(tombs \union {m})
  <2>7. tombs \union {m} \in SUBSET Nat /\ tombs \union {m} # {} BY <1>0, <2>2
  <2>8. l \in tombs \union {m} /\ \A j \in tombs \union {m} : l <= j BY <2>7, MinIsLeast
  <2>9. FindSlot(c, n, k) = [found |-> FALSE, pos |-> Probe(k, l, n)]
    BY <1>2, <2>5 DEF FindSlot, Probe, Holds, m
  <2> HIDE DEF l
  <2>10. l <= m /\ l \in 0 .. n - 1 BY <2>2, <2>8
  <2>11. c[Probe(k, l, n)] \in {Empty, Tomb} BY <2>6, <2>8
  <2>12. \A j \in 0 .. l - 1 : j \in 0 .. m - 1 BY <2>2, <2>10
  <2>13. Reaches(c, n, k, Probe(k, l, n)) BY <2>3, <2>10, <2>12 DEF Reaches
  <2>14. Probe(k, l, n) \in 0 .. n - 1 BY <2>10, ProbeType
  <2> QED BY <2>9, <2>11, <2>13, <2>14
<1> QED BY <1>1, <1>2

\* In a sound table the search decides whether there is an entry of the key.
LEMMA SearchDecides ==
  ASSUME NEW n \in Nat \ {0}, NEW c \in Cells(n), Sound(c, n), NEW k \in Keys
  PROVE  LET f == FindSlot(c, n, k)
         IN  \/ /\ f.found /\ f.pos \in Full(c, n) /\ Holds(c, f.pos, k) /\ Reaches(c, n, k, f.pos)
                /\ \A p \in Full(c, n) : c[p][1] = k => p = f.pos
             \/ /\ f.found = FALSE
                /\ \A p \in Full(c, n) : c[p][1] # k
                /\ \/ f.pos = NoSlot /\ \A p \in 0 .. n - 1 : c[p] # Empty
                   \/ /\ f.pos \in (0 .. n - 1) \ Full(c, n)
                      /\ Reaches(c, n, k, f.pos)
<1> DEFINE f == FindSlot(c, n, k)
<1>1. CASE \E p \in Full(c, n) : c[p][1] = k
  <2>1. ASSUME NEW p \in Full(c, n), c[p][1] = k
        PROVE  Holds(c, p, k) /\ Reaches(c, n, k, p) /\ f = [found |-> TRUE, pos |-> p]
    <3>1. Holds(c, p, k) /\ Reaches(c, n, k, p) BY <2>1 DEF Holds, Sound, Full
    <3> QED BY <3>1, SearchFinds
  <2>2. PICK p \in Full(c, n) : c[p][1] = k BY <1>1
  <2>3. f.found = TRUE /\ f.pos = p /\ Holds(c, p, k) /\ Reaches(c, n, k, p) BY <2>1, <2>2
  <2>4. ASSUME NEW q \in Full(c, n), c[q][1] = k PROVE q = f.pos
    <3>1. f = [found |-> TRUE, pos |-> q] BY <2>1, <2>4
    <3> QED BY <3>1
  <2> HIDE DEF f
  <2>5. f.found /\ f.pos \in Full(c, n) /\ Holds(c, f.pos, k) /\ Reaches(c, n, k, f.pos)
    BY <2>2, <2>3
  <2> QED BY <2>4, <2>5 DEF f
<1>2. CASE \A p \in Full(c, n) : c[p][1] # k
  <2>1. \A p \in 0 .. n - 1 : ~(Reaches(c, n, k, p) /\ Holds(c, p, k)) BY <1>2 DEF Full, Holds
  <2>2. /\ f.found = FALSE
        /\ \/ f.pos = NoSlot /\ \A p \in 0 .. n - 1 : c[p] # Empty
           \/ /\ f.pos \in 0 .. n - 1 /\ c[f.pos] \in {Empty, Tomb}
              /\ Reaches(c, n, k, f.pos)
    BY <2>1, SearchMisses
  <2> HIDE DEF f
  <2>3. f.pos \in 0 .. n - 1 /\ c[f.pos] \in {Empty, Tomb} => f.pos \in (0 .. n - 1) \ Full(c, n)
    BY DEF Full
  <2> QED BY <1>2, <2>2, <2>3 DEF f
<1> QED BY <1>1, <1>2

-----------------------------------------------------------------------------
(* What storing and deleting do to a sound table.                           *)

\* The entry <<k, v>> is written to position p.
Written(c, p, k, v) == [c EXCEPT ![p] = <<k, v>>]

\* The entry of k goes to where the search for k ended.
LEMMA StoreKeepsSound ==
  ASSUME NEW n \in Nat \ {0}, NEW c \in Cells(n), Sound(c, n), NEW k \in Keys, NEW v \in Values,
         NEW p \in 0 .. n - 1, p = FindSlot(c, n, k).pos
  PROVE  LET d == Written(c, p, k, v)
         IN  /\ d \in Cells(n) /\ Sound(d, n)
             /\ Full(d, n) = Full(c, n) \union {p}
             /\ FindSlot(c, n, k).found <=> p \in Full(c, n)
             /\ Entries(d, n) = {e \in Entries(c, n) : e[1] # k} \union {<<k, v>>}
<1> DEFINE d == Written(c, p, k, v)
<1>1. d \in Cells(n) /\ d[p] = <<k, v>> /\ \A q \in 0 .. n - 1 : q # p => d[q] = c[q] BY DEF Cells, Written
<1>2. <<k, v>> \notin {Empty, Tomb} BY HashMapAssumption
<1>3. Full(d, n) = Full(c, n) \union {p} BY <1>1, <1>2 DEF Full
<1>0. p # NoSlot
  BY HashMapAssumption
<1>4. /\ Reaches(c, n, k, p)
      /\ FindSlot(c, n, k).found <=> p \in Full(c, n)
      /\ p \in Full(c, n) => c[p][1] = k
      /\ \A q \in Full(c, n) : c[q][1] = k => q = p
  <2> DEFINE f == FindSlot(c, n, k)
  <2>1. \/ /\ f.found /\ f.pos \in Full(c, n) /\ Holds(c, f.pos, k) /\ Reaches(c, n, k, f.pos)
           /\ \A q \in Full(c, n) : c[q][1] = k => q = f.pos
        \/ /\ f.found = FALSE
           /\ \A q \in Full(c, n) : c[q][1] # k
           /\ \/ f.pos = NoSlot /\ \A q \in 0 .. n - 1 : c[q] # Empty
              \/ /\ f.pos \in (0 .. n - 1) \ Full(c, n)
                 /\ Reaches(c, n, k, f.pos)
    BY SearchDecides
  <2> HIDE DEF f
  <2>2. p = f.pos BY DEF f
  <2>3. CASE f.found /\ p \in Full(c, n) /\ Holds(c, p, k) /\ Reaches(c, n, k, p)
             /\ \A q \in Full(c, n) : c[q][1] = k => q = p
    BY <2>3 DEF Holds, f
  <2>4. CASE f.found = FALSE /\ (\A q \in Full(c, n) : c[q][1] # k)
             /\ p \in (0 .. n - 1) \ Full(c, n) /\ Reaches(c, n, k, p)
    BY <2>4 DEF f
  <2> QED BY <1>0, <2>1, <2>2, <2>3, <2>4
<1> HIDE DEF d
<1>5. ASSUME NEW j \in Keys, NEW q \in 0 .. n - 1, Reaches(c, n, j, q), j = k => q = p
      PROVE  Reaches(d, n, j, q)
  <2>1. PICK i \in 0 .. n - 1 :
          /\ Probe(j, i, n) = q
          /\ \A m \in 0 .. i - 1 : c[Probe(j, m, n)] # Empty /\ ~Holds(c, Probe(j, m, n), j)
    BY <1>5 DEF Reaches
  <2>2. CASE j = k
    \* The first place in the sequence of k that is p.
    <3> DEFINE at == {m \in 0 .. n - 1 : Probe(k, m, n) = p}
    <3>1. at \in SUBSET Nat /\ i \in at BY <1>5, <2>1, <2>2
    <3>2. PICK m \in at : \A l \in at : m <= l BY <3>1, Least
    <3>3. m \in 0 .. n - 1 /\ m <= i /\ Probe(k, m, n) = p BY <3>1, <3>2
    <3>4. ASSUME NEW l \in 0 .. m - 1 PROVE d[Probe(k, l, n)] # Empty /\ ~Holds(d, Probe(k, l, n), k)
      <4>1. l \in 0 .. i - 1 /\ l \in 0 .. n - 1 /\ l \in Nat /\ ~(m <= l) BY <3>3
      <4>2. Probe(k, l, n) # p BY <3>2, <4>1
      <4>3. Probe(k, l, n) \in 0 .. n - 1 BY <4>1, ProbeType
      <4>4. d[Probe(k, l, n)] = c[Probe(k, l, n)] BY <1>1, <4>2, <4>3
      <4>5. c[Probe(k, l, n)] # Empty /\ ~Holds(c, Probe(k, l, n), k) BY <2>1, <2>2, <4>1
      <4> QED BY <4>4, <4>5 DEF Holds
    <3>5. q = p BY <1>5, <2>2
    <3> QED BY <2>2, <3>3, <3>4, <3>5 DEF Reaches
  <2>3. CASE j # k
    <3>1. ASSUME NEW m \in 0 .. i - 1 PROVE d[Probe(j, m, n)] # Empty /\ ~Holds(d, Probe(j, m, n), j)
      <4>1. m \in Nat /\ Probe(j, m, n) \in 0 .. n - 1 BY <2>1, ProbeType
      <4>2. c[Probe(j, m, n)] # Empty /\ ~Holds(c, Probe(j, m, n), j) BY <2>1
      <4>3. CASE Probe(j, m, n) = p
        <5>1. d[Probe(j, m, n)] = <<k, v>> BY <1>1, <4>3
        <5>2. <<k, v>>[1] = k /\ <<k, v>> # Empty BY <1>2
        <5> QED BY <2>3, <5>1, <5>2 DEF Holds
      <4>4. CASE Probe(j, m, n) # p
        <5>1. d[Probe(j, m, n)] = c[Probe(j, m, n)] BY <1>1, <4>1, <4>4
        <5> QED BY <4>2, <5>1 DEF Holds
      <4> QED BY <4>3, <4>4
    <3> QED BY <2>1, <3>1 DEF Reaches
  <2> QED BY <2>2, <2>3
<1>6. ASSUME NEW q \in Full(d, n) PROVE Reaches(d, n, d[q][1], q)
  <2>1. CASE q = p
    <3>1. d[q][1] = k BY <1>1, <2>1
    <3>2. Reaches(d, n, k, p) BY <1>4, <1>5
    <3> QED BY <2>1, <3>1, <3>2
  <2>2. CASE q # p
    <3>1. q \in Full(c, n) /\ q \in 0 .. n - 1 /\ d[q] = c[q] BY <1>1, <1>3, <2>2 DEF Full
    <3>2. c[q] \in Keys \X Values BY <3>1 DEF Full, Cells
    <3>3. c[q][1] \in Keys /\ c[q][1] # k BY <1>4, <2>2, <3>1, <3>2
    <3>4. Reaches(c, n, c[q][1], q) BY <3>1 DEF Sound
    <3> QED BY <1>5, <3>1, <3>3, <3>4
  <2> QED BY <2>1, <2>2
<1>7. Entries(d, n) = {e \in Entries(c, n) : e[1] # k} \union {<<k, v>>}
  <2>1. \A q \in Full(c, n) : q # p => c[q][1] # k BY <1>4
  <2>2. Full(c, n) \subseteq 0 .. n - 1 BY DEF Full
  <2>3. ASSUME NEW e \in Entries(d, n) PROVE e \in {x \in Entries(c, n) : x[1] # k} \union {<<k, v>>}
    <3>1. PICK q \in Full(d, n) : e = d[q] BY DEF Entries
    <3>2. CASE q = p BY <1>1, <3>1, <3>2
    <3>3. CASE q # p
      <4>1. q \in Full(c, n) /\ d[q] = c[q] BY <1>1, <1>3, <2>2, <3>3
      <4> QED BY <2>1, <3>1, <3>3, <4>1 DEF Entries
    <3> QED BY <3>2, <3>3
  <2>4. ASSUME NEW e \in Entries(c, n), e[1] # k PROVE e \in Entries(d, n)
    <3>1. PICK q \in Full(c, n) : e = c[q] BY DEF Entries
    <3>2. q # p BY <1>4, <2>4, <3>1
    <3>3. d[q] = c[q] /\ q \in Full(d, n) BY <1>1, <1>3, <2>2, <3>2
    <3> QED BY <3>1, <3>3 DEF Entries
  <2>5. <<k, v>> \in Entries(d, n)
    <3>1. p \in Full(d, n) BY <1>3
    <3> QED BY <1>1, <3>1 DEF Entries
  <2> QED BY <2>3, <2>4, <2>5
<1>8. Sound(d, n) BY <1>6 DEF Sound
<1> QED BY <1>1, <1>3, <1>4, <1>7, <1>8 DEF d

\* The entry at position p becomes a tombstone.
Erased(c, p) == [c EXCEPT ![p] = Tomb]

LEMMA DeleteKeepsSound ==
  ASSUME NEW n \in Nat \ {0}, NEW c \in Cells(n), Sound(c, n), NEW k \in Keys,
         NEW p, p = FindSlot(c, n, k).pos, FindSlot(c, n, k).found
  PROVE  LET d == Erased(c, p)
         IN  /\ p \in Full(c, n) /\ c[p][1] = k
             /\ d \in Cells(n) /\ Sound(d, n)
             /\ Full(d, n) = Full(c, n) \ {p}
             /\ Entries(d, n) = {e \in Entries(c, n) : e[1] # k}
<1> DEFINE d == Erased(c, p)
<1>1. /\ p \in Full(c, n) /\ c[p][1] = k
      /\ \A q \in Full(c, n) : c[q][1] = k => q = p
  <2> DEFINE f == FindSlot(c, n, k)
  <2>1. \/ /\ f.found /\ f.pos \in Full(c, n) /\ Holds(c, f.pos, k) /\ Reaches(c, n, k, f.pos)
           /\ \A q \in Full(c, n) : c[q][1] = k => q = f.pos
        \/ f.found = FALSE
    BY SearchDecides
  <2>2. f.found /\ p = f.pos OBVIOUS
  <2> HIDE DEF f
  <2> QED BY <2>1, <2>2 DEF Holds
<1>2. p \in 0 .. n - 1 BY <1>1 DEF Full
<1>3. d \in Cells(n) /\ d[p] = Tomb /\ \A q \in 0 .. n - 1 : q # p => d[q] = c[q] BY <1>2 DEF Cells, Erased
<1>4. Full(d, n) = Full(c, n) \ {p} BY <1>3 DEF Full
<1> HIDE DEF d
<1>5. ASSUME NEW q \in Full(d, n) PROVE Reaches(d, n, d[q][1], q)
  <2>1. q \in Full(c, n) /\ q \in 0 .. n - 1 /\ q # p /\ d[q] = c[q] BY <1>3, <1>4 DEF Full
  <2> DEFINE j == c[q][1]
  <2>2. c[q] \in Keys \X Values BY <2>1 DEF Full, Cells
  <2>3. j \in Keys BY <2>2
  <2>4. Reaches(c, n, j, q) BY <2>1 DEF Sound
  <2> HIDE DEF j
  <2>5. PICK i \in 0 .. n - 1 :
          /\ Probe(j, i, n) = q
          /\ \A m \in 0 .. i - 1 : c[Probe(j, m, n)] # Empty /\ ~Holds(c, Probe(j, m, n), j)
    BY <2>4 DEF Reaches
  <2>6. ASSUME NEW m \in 0 .. i - 1 PROVE d[Probe(j, m, n)] # Empty /\ ~Holds(d, Probe(j, m, n), j)
    <3>1. m \in Nat /\ Probe(j, m, n) \in 0 .. n - 1 BY <2>3, <2>5, ProbeType
    <3>2. c[Probe(j, m, n)] # Empty /\ ~Holds(c, Probe(j, m, n), j) BY <2>5
    <3>3. CASE Probe(j, m, n) = p
      <4>1. d[Probe(j, m, n)] = Tomb BY <1>3, <3>3
      <4> QED BY <4>1, HashMapAssumption DEF Holds
    <3>4. CASE Probe(j, m, n) # p
      <4>1. d[Probe(j, m, n)] = c[Probe(j, m, n)] BY <1>3, <3>1, <3>4
      <4> QED BY <3>2, <4>1 DEF Holds
    <3> QED BY <3>3, <3>4
  <2>7. Reaches(d, n, j, q) BY <2>5, <2>6 DEF Reaches
  <2> QED BY <2>1, <2>7 DEF j
<1>6. Entries(d, n) = {e \in Entries(c, n) : e[1] # k}
  <2>1. \A q \in Full(d, n) : d[q] = c[q] /\ c[q][1] # k BY <1>1, <1>3, <1>4 DEF Full
  <2>2. \A q \in Full(c, n) : c[q][1] # k => q \in Full(d, n) BY <1>1, <1>4
  <2>3. ASSUME NEW e \in Entries(d, n) PROVE e \in Entries(c, n) /\ e[1] # k
    <3>1. PICK q \in Full(d, n) : e = d[q] BY DEF Entries
    <3> QED BY <1>4, <2>1, <3>1 DEF Entries
  <2>4. ASSUME NEW e \in Entries(c, n), e[1] # k PROVE e \in Entries(d, n)
    <3>1. PICK q \in Full(c, n) : e = c[q] BY DEF Entries
    <3> QED BY <2>1, <2>2, <2>4, <3>1 DEF Entries
  <2> QED BY <2>3, <2>4
<1>7. Sound(d, n) BY <1>5 DEF Sound
<1> QED BY <1>1, <1>3, <1>4, <1>6, <1>7 DEF d

-----------------------------------------------------------------------------
(* Moving to a larger table.                                                *)

\* Keys are stored once.
LEMMA KeysOnce ==
  ASSUME NEW n \in Nat \ {0}, NEW c \in Cells(n), Sound(c, n),
         NEW p \in Full(c, n), NEW q \in Full(c, n), c[p][1] = c[q][1]
  PROVE  p = q
<1> DEFINE k == c[p][1]
<1>1. c[p] \in Keys \X Values BY DEF Full, Cells
<1>2. k \in Keys BY <1>1
<1>3. Holds(c, p, k) /\ Holds(c, q, k) BY DEF Holds, Full
<1>4. Reaches(c, n, k, p) /\ Reaches(c, n, k, q) BY DEF Sound
<1> HIDE DEF k
<1>5. FindSlot(c, n, k) = [found |-> TRUE, pos |-> p] /\ FindSlot(c, n, k) = [found |-> TRUE, pos |-> q]
  BY <1>2, <1>3, <1>4, SearchFinds
<1>6. [found |-> TRUE, pos |-> p].pos = [found |-> TRUE, pos |-> q].pos BY <1>5
<1> QED BY <1>6

LEMMA FullCount ==
  ASSUME NEW n \in Nat, NEW c
  PROVE  IsFiniteSet(Full(c, n)) /\ Cardinality(Full(c, n)) \in 0 .. n
<1>1. IsFiniteSet(0 .. n - 1) /\ Cardinality(0 .. n - 1) = n BY FS_Interval
<1>2. Full(c, n) \in SUBSET (0 .. n - 1) BY DEF Full
<1>3. IsFiniteSet(Full(c, n)) /\ Cardinality(Full(c, n)) <= n BY <1>1, <1>2, FS_Subset
<1>4. Cardinality(Full(c, n)) \in Nat BY <1>3, FS_CardinalityType
<1> QED BY <1>3, <1>4

\* The entries before position i.
Before(c, m, i) == {p \in Full(c, m) : p < i}

\* The new table of n cells after i turns of the loop.
MovedSoFar(c, m, n, d, i) ==
  /\ d \in Cells(n) /\ Sound(d, n)
  /\ \A p \in 0 .. n - 1 : d[p] # Tomb
  /\ Entries(d, n) = {c[p] : p \in Before(c, m, i)}
  /\ Cardinality(Full(d, n)) = Cardinality(Before(c, m, i))

LEMMA MoveOne ==
  ASSUME NEW m \in Nat \ {0}, NEW c \in Cells(m), Sound(c, m), NEW n \in Nat, m < n,
         NEW i \in 0 .. m - 1, NEW d, MovedSoFar(c, m, n, d, i)
  PROVE  MovedSoFar(c, m, n, Moved(d, n, c[i]), i + 1)
<1>0. n \in Nat \ {0} /\ d \in Cells(n) /\ Sound(d, n) BY DEF MovedSoFar
<1>1. CASE c[i] \in {Empty, Tomb}
  <2>1. i \notin Full(c, m) BY <1>1 DEF Full
  <2>2. Before(c, m, i + 1) = Before(c, m, i) BY <2>1 DEF Before, Full
  <2>3. Moved(d, n, c[i]) = d BY <1>1 DEF Moved
  <2> QED BY <2>2, <2>3 DEF MovedSoFar
<1>2. CASE c[i] \notin {Empty, Tomb}
  <2> DEFINE k == c[i][1]  v == c[i][2]  f == FindSlot(d, n, k)  e == Written(d, f.pos, k, v)
  <2>1. c[i] \in Keys \X Values BY <1>2 DEF Cells
  <2>2. k \in Keys /\ v \in Values /\ c[i] = <<k, v>> BY <2>1
  <2>3. i \in Full(c, m) BY <1>2 DEF Full
  <2>4. Before(c, m, i + 1) = Before(c, m, i) \union {i} /\ i \notin Before(c, m, i)
    BY <2>3 DEF Before, Full
  <2>5. ASSUME NEW q \in Full(d, n), d[q][1] = k PROVE FALSE
    <3>1. d[q] \in Entries(d, n) BY DEF Entries
    <3>2. PICK p \in Before(c, m, i) : d[q] = c[p] BY <3>1 DEF MovedSoFar
    <3>3. p \in Full(c, m) /\ c[p][1] = c[i][1] /\ p < i BY <2>5, <3>2 DEF Before
    <3>4. p = i BY <2>3, <3>3, KeysOnce
    <3>5. i \in Int OBVIOUS
    <3> QED BY <3>3, <3>4, <3>5
  <2>6. Cardinality(Full(d, n)) < n
    <3>1. Before(c, m, i) \in SUBSET Full(c, m) BY DEF Before
    <3>2. Cardinality(Before(c, m, i)) <= Cardinality(Full(c, m)) BY <3>1, FullCount, FS_Subset
    <3>3. Cardinality(Full(c, m)) \in 0 .. m /\ Cardinality(Full(d, n)) \in 0 .. n BY FullCount
    <3> QED BY <3>2, <3>3 DEF MovedSoFar
  <2>7. \E p \in 0 .. n - 1 : d[p] = Empty
    <3>1. SUFFICES ASSUME \A p \in 0 .. n - 1 : d[p] # Empty PROVE FALSE OBVIOUS
    <3>2. Full(d, n) = 0 .. n - 1 BY <3>1 DEF Full, MovedSoFar
    <3>3. Cardinality(0 .. n - 1) = n BY FS_Interval
    <3> QED BY <2>6, <3>2, <3>3
  <2>8. f.found = FALSE /\ f.pos \in (0 .. n - 1) \ Full(d, n)
    <3>1. \/ /\ f.found /\ f.pos \in Full(d, n) /\ Holds(d, f.pos, k) /\ Reaches(d, n, k, f.pos)
             /\ \A p \in Full(d, n) : d[p][1] = k => p = f.pos
          \/ /\ f.found = FALSE
             /\ \A p \in Full(d, n) : d[p][1] # k
             /\ \/ f.pos = NoSlot /\ \A p \in 0 .. n - 1 : d[p] # Empty
                \/ /\ f.pos \in (0 .. n - 1) \ Full(d, n)
                   /\ Reaches(d, n, k, f.pos)
      BY <1>0, <2>2, SearchDecides
    <3> HIDE DEF f, k
    <3> QED BY <2>5, <2>7, <3>1 DEF Holds
  <2>9. Moved(d, n, c[i]) = e BY <1>2, <2>2 DEF Moved, Written
  <2> HIDE DEF k, v
  <2>10. /\ e \in Cells(n) /\ Sound(e, n)
         /\ Full(e, n) = Full(d, n) \union {f.pos}
         /\ Entries(e, n) = {x \in Entries(d, n) : x[1] # k} \union {<<k, v>>}
    BY <1>0, <2>2, <2>8, StoreKeepsSound
  <2>11. Entries(e, n) = Entries(d, n) \union {<<k, v>>}
    <3>1. \A x \in Entries(d, n) : x[1] # k BY <2>5 DEF Entries
    <3> QED BY <2>10, <3>1
  <2>12. Entries(e, n) = {c[p] : p \in Before(c, m, i + 1)}
    <3>1. Entries(d, n) = {c[p] : p \in Before(c, m, i)} BY DEF MovedSoFar
    <3> HIDE DEF e
    <3> QED BY <2>2, <2>4, <2>11, <3>1
  <2>13. Cardinality(Full(e, n)) = Cardinality(Before(c, m, i + 1))
    <3>1. IsFiniteSet(Full(d, n)) BY FullCount
    <3>2. Before(c, m, i) \in SUBSET Full(c, m) BY DEF Before
    <3>3. IsFiniteSet(Before(c, m, i)) BY <3>2, FullCount, FS_Subset
    <3>4. Cardinality(Full(d, n) \union {f.pos}) = Cardinality(Full(d, n)) + 1 BY <2>8, <3>1, FS_AddElement
    <3>5. Cardinality(Before(c, m, i) \union {i}) = Cardinality(Before(c, m, i)) + 1
      BY <2>4, <3>3, FS_AddElement
    <3> QED BY <2>4, <2>10, <3>4, <3>5 DEF MovedSoFar
  <2>14. \A p \in 0 .. n - 1 : e[p] # Tomb
    <3>1. <<k, v>> # Tomb BY <2>2, HashMapAssumption
    <3>2. \A p \in 0 .. n - 1 : e[p] \in {d[p], <<k, v>>} BY <1>0 DEF Cells, Written
    <3> HIDE DEF e
    <3> QED BY <3>1, <3>2 DEF MovedSoFar
  <2> HIDE DEF e
  <2> QED BY <2>9, <2>10, <2>12, <2>13, <2>14 DEF MovedSoFar
<1> QED BY <1>1, <1>2

\* resize keeps the entries and leaves no tombstone.
LEMMA RehashKeepsEntries ==
  ASSUME NEW m \in Nat \ {0}, NEW c \in Cells(m), Sound(c, m), NEW n \in Nat, m < n
  PROVE  /\ Rehash(c, n) \in Cells(n) /\ Sound(Rehash(c, n), n)
         /\ Entries(Rehash(c, n), n) = Entries(c, m)
         /\ Cardinality(Full(Rehash(c, n), n)) = Cardinality(Full(c, m))
         /\ \A p \in 0 .. n - 1 : Rehash(c, n)[p] # Tomb
<1> DEFINE blank == [p \in 0 .. n - 1 |-> Empty]
           Body(f) == [i \in 0 .. Cardinality(DOMAIN c) |-> IF i = 0 THEN blank ELSE Moved(f[i - 1], n, c[i - 1])]
           moved == CHOOSE f : f = Body(f)
<1>0. n \in Nat \ {0} OBVIOUS
<1>1. Cardinality(DOMAIN c) = m
  <2>1. DOMAIN c = 0 .. m - 1 BY DEF Cells
  <2>2. Cardinality(0 .. m - 1) = m BY FS_Interval
  <2> QED BY <2>1, <2>2
<1>2. Rehash(c, n) = moved[m] BY <1>1 DEF Rehash
<1> DEFINE step == [x \in (1 .. m) \X Cells(n) |-> Moved(x[2], n, c[x[1] - 1])]
<1>3. step \in [(1 .. m) \X Cells(n) -> Cells(n)]
  <2> SUFFICES ASSUME NEW i \in 1 .. m, NEW d \in Cells(n) PROVE Moved(d, n, c[i - 1]) \in Cells(n)
    OBVIOUS
  <2>1. i - 1 \in 0 .. m - 1 OBVIOUS
  <2>2. c[i - 1] \in (Keys \X Values) \union {Empty, Tomb} BY <2>1 DEF Cells
  <2> QED BY <2>2 DEF Moved, Cells
<1>4. blank \in Cells(n) BY DEF Cells
<1>5. moved = Body(moved)
  <2> HIDE DEF step, blank
  <2>0. m \in Nat OBVIOUS
  <2>1. PICK f \in [0 .. m -> Cells(n)] : Solves(f, m, blank, step)
    <3> DEFINE D == Cells(n)
    <3>1. blank \in D /\ step \in [(1 .. m) \X D -> D] BY <1>3, <1>4
    <3> HIDE DEF D
    <3>2. \E f \in [0 .. m -> D] : Solves(f, m, blank, step) BY <2>0, <3>1, Recursion
    <3> QED BY <3>2 DEF D
  <2>2. \A i \in 0 .. m : i # 0 => step[<<i, f[i - 1]>>] = Moved(f[i - 1], n, c[i - 1])
    <3> SUFFICES ASSUME NEW i \in 0 .. m, i # 0 PROVE step[<<i, f[i - 1]>>] = Moved(f[i - 1], n, c[i - 1])
      OBVIOUS
    <3>1. i \in 1 .. m /\ i - 1 \in 0 .. m OBVIOUS
    <3>2. <<i, f[i - 1]>> \in (1 .. m) \X Cells(n) BY <2>1, <3>1
    <3> QED BY <3>2 DEF step
  <2>3. f = Body(f) BY <1>1, <2>1, <2>2 DEF Solves
  <2> HIDE DEF Body
  <2> QED BY <2>3
<1>6. \A i \in 0 .. m : moved[i] = IF i = 0 THEN blank ELSE Moved(moved[i - 1], n, c[i - 1])
  <2> HIDE DEF moved, blank
  <2> QED BY <1>1, <1>5
<1> HIDE DEF moved
<1> DEFINE P == {i \in 0 .. m : MovedSoFar(c, m, n, moved[i], i)}
<1>7. 0 \in P
  <2>1. moved[0] = blank BY <1>6
  <2>2. Before(c, m, 0) = {} BY DEF Before, Full
  <2>3. Full(blank, n) = {} BY DEF Full
  <2>4. Entries(blank, n) = {} /\ Sound(blank, n) BY <2>3 DEF Entries, Sound
  <2>5. \A p \in 0 .. n - 1 : blank[p] # Tomb BY HashMapAssumption
  <2> HIDE DEF blank
  <2>6. MovedSoFar(c, m, n, blank, 0) BY <1>4, <2>2, <2>3, <2>4, <2>5 DEF MovedSoFar
  <2> QED BY <2>1, <2>6
<1>8. ASSUME NEW i \in 0 .. m, i # m, i \in P PROVE i + 1 \in P
  <2>1. i \in 0 .. m - 1 /\ i + 1 \in 0 .. m /\ i + 1 # 0 /\ (i + 1) - 1 = i BY <1>8
  <2>2. moved[i + 1] = Moved(moved[i], n, c[i]) BY <1>6, <2>1
  <2>3. MovedSoFar(c, m, n, moved[i], i) BY <1>8
  <2>4. MovedSoFar(c, m, n, Moved(moved[i], n, c[i]), i + 1) BY <2>1, <2>3, MoveOne
  <2> QED BY <2>1, <2>2, <2>4
<1>9. m \in P
  <2>1. \A i \in 0 .. m : i \in P
    <3> HIDE DEF P
    <3> QED BY <1>7, <1>8, Climb
  <2> QED BY <2>1
<1>10. MovedSoFar(c, m, n, moved[m], m) BY <1>9
<1>11. Before(c, m, m) = Full(c, m) BY DEF Before, Full
<1> QED BY <1>2, <1>10, <1>11 DEF MovedSoFar, Entries

-----------------------------------------------------------------------------
(* The invariant.                                                           *)

\* The keys an iterator at position i has still to return.
Ahead(i) == {cell[p][1] : p \in {q \in Full(cell, cap) : q >= i}}

TableInv ==
  /\ cap \in Nat \ {0}
  /\ cell \in Cells(cap)
  /\ Sound(cell, cap)
  /\ size = Cardinality(Full(cell, cap))

\* What the iterator has returned and what lies ahead of it are disjoint, and
\* together they are all of what it owes.
IterInv ==
  /\ seen \in Seq(Keys) /\ owed \subseteq Keys
  /\ IsInjective(seen)
  /\ iter = NoSlot => seen = <<>> /\ owed = {}
  /\ iter # NoSlot =>
       /\ iter \in 0 .. cap
       /\ iter < cap => Occupied(iter)
       /\ owed \subseteq ToSet(seen) \union Ahead(iter)
       /\ ToSet(seen) \intersect Ahead(iter) = {}

HashInv == TableInv /\ IterInv

LEMMA FullIsOccupied == Full(cell, cap) = {p \in Positions : Occupied(p)}
BY DEF Full, Positions, Occupied

LEMMA FullKeys ==
  ASSUME NEW n, NEW c \in Cells(n), NEW p \in Full(c, n)
  PROVE  p \in 0 .. n - 1 /\ c[p] \in Keys \X Values /\ c[p][1] \in Keys
<1>1. p \in 0 .. n - 1 /\ c[p] \in Keys \X Values BY DEF Full, Cells
<1> QED BY <1>1

\* The next occupied position.
LEMMA NextIs ==
  ASSUME TableInv, NEW p \in 0 .. cap
  PROVE  /\ NextOccupied(p) \in p .. cap
         /\ NextOccupied(p) < cap => NextOccupied(p) \in Full(cell, cap)
         /\ \A q \in Full(cell, cap) : q >= p => q >= NextOccupied(p)
<1> DEFINE T == {q \in p .. cap - 1 : Occupied(q)} \union {cap}
<1>0. cap \in Nat BY DEF TableInv
<1>1. T \in SUBSET Nat /\ T # {} BY <1>0
<1>2. NextOccupied(p) \in T /\ \A q \in T : NextOccupied(p) <= q BY <1>1, MinIsLeast DEF NextOccupied
<1> DEFINE m == NextOccupied(p)
<1> HIDE DEF m
<1>3. m \in T /\ \A q \in T : m <= q BY <1>2 DEF m
<1>4. \A q \in Full(cell, cap) : q \in 0 .. cap - 1 /\ Occupied(q) BY FullIsOccupied DEF Positions
<1>5. \A q \in 0 .. cap - 1 : Occupied(q) => q \in Full(cell, cap) BY FullIsOccupied DEF Positions
<1>6. m \in p .. cap BY <1>0, <1>3
<1>7. m < cap => m \in Full(cell, cap) BY <1>0, <1>3, <1>5
<1>8. ASSUME NEW q \in Full(cell, cap), q >= p PROVE q >= m
  <2>1. q \in T BY <1>0, <1>4, <1>8
  <2> QED BY <1>0, <1>3, <1>4, <1>6, <2>1
<1> QED BY <1>6, <1>7, <1>8 DEF m

-----------------------------------------------------------------------------
(* The contents.                                                            *)

\* No two entries have the same key.
Single(E) == \A d, e \in E : d[1] = e[1] => d = e

\* The map whose graph is E.
MapOf(E) == [k \in {e[1] : e \in E} |-> CHOOSE v : <<k, v>> \in E]

LEMMA EntriesSingle ==
  ASSUME NEW n \in Nat \ {0}, NEW c \in Cells(n), Sound(c, n)
  PROVE  Single(Entries(c, n)) /\ Entries(c, n) \subseteq Keys \X Values
<1>1. ASSUME NEW p \in Full(c, n), NEW q \in Full(c, n), c[p][1] = c[q][1] PROVE c[p] = c[q]
  BY <1>1, KeysOnce
<1>2. \A p \in Full(c, n) : c[p] \in Keys \X Values BY FullKeys
<1> QED BY <1>1, <1>2 DEF Single, Entries

LEMMA MapOfIsFunction ==
  ASSUME NEW E PROVE MapOf(E) = [k \in DOMAIN MapOf(E) |-> MapOf(E)[k]]
<1> DEFINE val(k) == CHOOSE v : <<k, v>> \in E
           keys == {e[1] : e \in E}
<1>1. MapOf(E) = [k \in keys |-> val(k)] BY DEF MapOf
<1> HIDE DEF val, keys
<1> QED BY <1>1

LEMMA MapOfAt ==
  ASSUME NEW E, Single(E), E \subseteq Keys \X Values, NEW k, NEW v, <<k, v>> \in E
  PROVE  k \in DOMAIN MapOf(E) /\ MapOf(E)[k] = v
<1>1. k \in {e[1] : e \in E}
  <2>1. <<k, v>>[1] = k OBVIOUS
  <2> QED BY <2>1
<1>2. (CHOOSE w : <<k, w>> \in E) = v
  <2> DEFINE w == CHOOSE x : <<k, x>> \in E
  <2>1. <<k, w>> \in E OBVIOUS
  <2> HIDE DEF w
  <2>2. <<k, w>>[1] = <<k, v>>[1] OBVIOUS
  <2>3. <<k, w>> = <<k, v>> BY <2>1, <2>2 DEF Single
  <2>4. w = v BY <2>3
  <2> QED BY <2>4 DEF w
<1> QED BY <1>1, <1>2 DEF MapOf

LEMMA MapOfStore ==
  ASSUME NEW E, Single(E), E \subseteq Keys \X Values, NEW k \in Keys, NEW v \in Values
  PROVE  MapOf({e \in E : e[1] # k} \union {<<k, v>>}) = Map!Store(MapOf(E), k, v)
<1> DEFINE F == {e \in E : e[1] # k} \union {<<k, v>>}
<1>0. F \subseteq Keys \X Values OBVIOUS
<1>1. Single(F)
  <2>1. <<k, v>>[1] = k OBVIOUS
  <2> QED BY <2>1 DEF Single
<1>2. DOMAIN MapOf(F) = {e[1] : e \in F} /\ DOMAIN MapOf(E) = {e[1] : e \in E} BY DEF MapOf
<1>3. DOMAIN MapOf(F) = DOMAIN MapOf(E) \union {k}
  <2>1. <<k, v>>[1] = k OBVIOUS
  <2> QED BY <1>2, <2>1
<1>4. ASSUME NEW j \in DOMAIN MapOf(F)
      PROVE  MapOf(F)[j] = IF j = k THEN v ELSE MapOf(E)[j]
  <2>1. CASE j = k
    <3>1. <<k, v>> \in F OBVIOUS
    <3> HIDE DEF F
    <3> QED BY <1>0, <1>1, <2>1, <3>1, MapOfAt
  <2>2. CASE j # k
    <3>1. PICK e \in E : e[1] = j BY <1>2, <1>3, <1>4, <2>2
    <3>2. e = <<j, e[2]>> BY <3>1
    <3>3. <<j, e[2]>> \in E /\ <<j, e[2]>> \in F BY <2>2, <3>1, <3>2
    <3> HIDE DEF F
    <3>4. MapOf(E)[j] = e[2] BY <3>3, MapOfAt
    <3>5. MapOf(F)[j] = e[2] BY <1>0, <1>1, <3>3, MapOfAt
    <3> QED BY <2>2, <3>4, <3>5
  <2> QED BY <2>1, <2>2
<1>5. Map!Store(MapOf(E), k, v) =
        [j \in DOMAIN MapOf(E) \union {k} |-> IF j = k THEN v ELSE MapOf(E)[j]]
  BY DEF Map!Store
<1>6. MapOf(F) = [j \in DOMAIN MapOf(F) |-> MapOf(F)[j]] BY MapOfIsFunction
<1> HIDE DEF F
<1>7. MapOf(F) = [j \in DOMAIN MapOf(E) \union {k} |-> IF j = k THEN v ELSE MapOf(E)[j]]
  BY <1>3, <1>4, <1>6
<1> QED BY <1>5, <1>7 DEF F

LEMMA MapOfWithout ==
  ASSUME NEW E, Single(E), E \subseteq Keys \X Values, NEW k
  PROVE  MapOf({e \in E : e[1] # k}) = Map!Without(MapOf(E), k)
<1> DEFINE F == {e \in E : e[1] # k}
<1>0. F \subseteq Keys \X Values /\ Single(F) BY DEF Single
<1>2. DOMAIN MapOf(F) = {e[1] : e \in F} /\ DOMAIN MapOf(E) = {e[1] : e \in E} BY DEF MapOf
<1>3. DOMAIN MapOf(F) = DOMAIN MapOf(E) \ {k} BY <1>2
<1>4. ASSUME NEW j \in DOMAIN MapOf(F) PROVE MapOf(F)[j] = MapOf(E)[j]
  <2>1. PICK e \in F : e[1] = j BY <1>2
  <2>2. e = <<j, e[2]>> BY <2>1
  <2>3. <<j, e[2]>> \in E /\ <<j, e[2]>> \in F BY <2>1, <2>2
  <2> HIDE DEF F
  <2> QED BY <1>0, <2>3, MapOfAt
<1>5. Map!Without(MapOf(E), k) = [j \in DOMAIN MapOf(E) \ {k} |-> MapOf(E)[j]]
  BY DEF Map!Without
<1>6. MapOf(F) = [j \in DOMAIN MapOf(F) |-> MapOf(F)[j]] BY MapOfIsFunction
<1> HIDE DEF F
<1>7. MapOf(F) = [j \in DOMAIN MapOf(E) \ {k} |-> MapOf(E)[j]] BY <1>3, <1>4, <1>6
<1> QED BY <1>5, <1>7 DEF F

\* tefstd_hashmap_get answers from the entries.
Answers(c, n) ==
  [k \in {j \in Keys : FindSlot(c, n, j).found} |-> c[FindSlot(c, n, k).pos][2]]

LEMMA AnswersAre ==
  ASSUME NEW n \in Nat \ {0}, NEW c \in Cells(n), Sound(c, n)
  PROVE  Answers(c, n) = MapOf(Entries(c, n))
<1> DEFINE E == Entries(c, n)
           keys == {j \in Keys : FindSlot(c, n, j).found}
<1>1. Single(E) /\ E \subseteq Keys \X Values BY EntriesSingle
<1>2. ASSUME NEW k \in Keys
      PROVE  LET f == FindSlot(c, n, k)
             IN  \/ f.found /\ f.pos \in Full(c, n) /\ c[f.pos] \in E /\ c[f.pos][1] = k
                 \/ f.found = FALSE /\ \A p \in Full(c, n) : c[p][1] # k
  <2> DEFINE f == FindSlot(c, n, k)
  <2>1. \/ /\ f.found /\ f.pos \in Full(c, n) /\ Holds(c, f.pos, k) /\ Reaches(c, n, k, f.pos)
           /\ \A p \in Full(c, n) : c[p][1] = k => p = f.pos
        \/ /\ f.found = FALSE
           /\ \A p \in Full(c, n) : c[p][1] # k
           /\ \/ f.pos = NoSlot /\ \A p \in 0 .. n - 1 : c[p] # Empty
              \/ /\ f.pos \in (0 .. n - 1) \ Full(c, n)
                 /\ Reaches(c, n, k, f.pos)
    BY SearchDecides
  <2> HIDE DEF f
  <2>2. f.pos \in Full(c, n) => c[f.pos] \in E BY DEF Entries
  <2> QED BY <2>1, <2>2 DEF Holds, f
<1>3. DOMAIN MapOf(E) = {e[1] : e \in E} BY DEF MapOf
<1>4. ASSUME NEW k \in DOMAIN MapOf(E) PROVE k \in keys
  <2>1. PICK e \in E : e[1] = k BY <1>3
  <2>2. PICK p \in Full(c, n) : e = c[p] BY <2>1 DEF Entries
  <2>3. k \in Keys BY <1>1, <2>1
  <2> QED BY <1>2, <2>1, <2>2, <2>3
<1>5. ASSUME NEW k \in keys
      PROVE  k \in DOMAIN MapOf(E) /\ MapOf(E)[k] = c[FindSlot(c, n, k).pos][2]
  <2> DEFINE x == c[FindSlot(c, n, k).pos]
  <2>1. x \in E /\ x[1] = k BY <1>2
  <2> HIDE DEF x, E
  <2>2. x = <<k, x[2]>> BY <1>1, <2>1
  <2>3. <<k, x[2]>> \in E BY <2>1, <2>2
  <2>4. k \in DOMAIN MapOf(E) /\ MapOf(E)[k] = x[2] BY <1>1, <2>3, MapOfAt
  <2> QED BY <2>4 DEF x
<1>6. keys = DOMAIN MapOf(E) BY <1>4, <1>5
<1>7. MapOf(E) = [k \in DOMAIN MapOf(E) |-> MapOf(E)[k]] BY MapOfIsFunction
<1>8. Answers(c, n) = [k \in keys |-> c[FindSlot(c, n, k).pos][2]] BY DEF Answers
<1> HIDE DEF keys, E
<1>9. Answers(c, n) = [k \in keys |-> MapOf(E)[k]] BY <1>5, <1>8
<1> QED BY <1>6, <1>7, <1>9 DEF E

LEMMA ContentIsAnswers == Content = Answers(cell, cap) /\ Content' = Answers(cell', cap')
BY DEF Content, Answers

-----------------------------------------------------------------------------
(* The steps.  Each keeps the invariant and is a step of the abstract map.  *)

LEMMA InsertKeeps ==
  ASSUME NEW n \in Nat \ {0}, NEW c \in Cells(n), Sound(c, n), size = Cardinality(Full(c, n)),
         NEW k \in Keys, NEW v \in Values, Insert(c, n, k, v)
  PROVE  /\ cap' = n /\ TableInv'
         /\ \/ Entries(cell', cap') = Entries(c, n)
            \/ Entries(cell', cap') = {e \in Entries(c, n) : e[1] # k} \union {<<k, v>>}
         /\ FindSlot(c, n, k).found =>
              /\ Full(cell', n) = Full(c, n)
              /\ \A q \in Full(c, n) : cell'[q][1] = c[q][1]
<1> DEFINE f == FindSlot(c, n, k)
<1>0. NoSlot \notin 0 .. n - 1 BY HashMapAssumption
<1>1. \/ /\ f.found /\ f.pos \in Full(c, n) /\ Holds(c, f.pos, k) /\ Reaches(c, n, k, f.pos)
         /\ \A q \in Full(c, n) : c[q][1] = k => q = f.pos
      \/ /\ f.found = FALSE
         /\ \A q \in Full(c, n) : c[q][1] # k
         /\ \/ f.pos = NoSlot /\ \A q \in 0 .. n - 1 : c[q] # Empty
            \/ /\ f.pos \in (0 .. n - 1) \ Full(c, n)
               /\ Reaches(c, n, k, f.pos)
  BY SearchDecides
<1>2. /\ cap' = n
      /\ IF f.pos = NoSlot THEN cell' = c /\ UNCHANGED size
         ELSE /\ cell' = [c EXCEPT ![f.pos] = <<k, v>>]
              /\ size' = IF f.found THEN size ELSE size + 1
  BY DEF Insert
<1>3. f.pos = FindSlot(c, n, k).pos /\ (f.found <=> FindSlot(c, n, k).found) OBVIOUS
<1> HIDE DEF f
<1>4. CASE f.pos = NoSlot
  <2>1. f.found = FALSE BY <1>0, <1>1, <1>4 DEF Full
  <2> QED BY <1>2, <1>3, <1>4, <2>1 DEF TableInv
<1>5. CASE f.pos \in 0 .. n - 1
  <2>0. PICK p \in 0 .. n - 1 : p = f.pos BY <1>5
  <2> DEFINE d == Written(c, p, k, v)
  <2>1. cell' = d /\ size' = IF f.found THEN size ELSE size + 1 BY <1>0, <1>2, <2>0 DEF Written
  <2>2. p = FindSlot(c, n, k).pos BY <1>3, <2>0
  <2>3. /\ d \in Cells(n) /\ Sound(d, n)
        /\ Full(d, n) = Full(c, n) \union {p}
        /\ FindSlot(c, n, k).found <=> p \in Full(c, n)
        /\ Entries(d, n) = {e \in Entries(c, n) : e[1] # k} \union {<<k, v>>}
    BY <2>2, StoreKeepsSound
  <2>4. size' = Cardinality(Full(d, n))
    <3>0. IsFiniteSet(Full(c, n)) BY FullCount
    <3>1. CASE f.found
      <4>1. Full(d, n) = Full(c, n) BY <1>3, <2>3, <3>1
      <4> QED BY <2>1, <3>1, <4>1
    <3>2. CASE ~f.found
      <4>1. p \notin Full(c, n) BY <1>3, <2>3, <3>2
      <4>2. Cardinality(Full(c, n) \union {p}) = Cardinality(Full(c, n)) + 1 BY <3>0, <4>1, FS_AddElement
      <4> QED BY <2>1, <2>3, <3>2, <4>2
    <3> QED BY <3>1, <3>2
  <2>5. TableInv' BY <1>2, <2>1, <2>3, <2>4 DEF TableInv
  <2>6. ASSUME f.found
        PROVE  Full(d, n) = Full(c, n) /\ \A q \in Full(c, n) : d[q][1] = c[q][1]
    <3>1. p \in Full(c, n) /\ c[p][1] = k BY <1>1, <2>0, <2>6 DEF Holds
    <3>2. \A q \in 0 .. n - 1 : d[q] = IF q = p THEN <<k, v>> ELSE c[q] BY DEF Cells, Written
    <3>3. Full(c, n) \subseteq 0 .. n - 1 BY DEF Full
    <3>4. <<k, v>>[1] = k OBVIOUS
    <3> HIDE DEF d
    <3>5. \A q \in Full(c, n) : d[q][1] = c[q][1] BY <3>1, <3>2, <3>3, <3>4
    <3>6. Full(d, n) = Full(c, n) BY <2>3, <3>1
    <3> QED BY <3>5, <3>6
  <2> HIDE DEF d
  <2> QED BY <1>2, <1>3, <2>1, <2>3, <2>5, <2>6
<1>6. f.pos \in 0 .. n - 1 \/ f.pos = NoSlot BY <1>1 DEF Full
<1> QED BY <1>4, <1>5, <1>6

LEMMA DisturbKeeps == ASSUME Disturb PROVE IterInv'
<1>1. <<>> \in Seq(Keys) /\ DOMAIN <<>> = {} OBVIOUS
<1>2. IsInjective(<<>>) BY <1>1 DEF IsInjective
<1> QED BY <1>1, <1>2 DEF Disturb, IterInv

\* What the iterator invariant says of the table is which positions are full
\* and which keys are there.
LEMMA SameKeys ==
  ASSUME TableInv, TableInv', IterInv, UNCHANGED iterVars, cap' = cap,
         Full(cell', cap) = Full(cell, cap),
         \A q \in Full(cell, cap) : cell'[q][1] = cell[q][1]
  PROVE  IterInv'
<1>1. UNCHANGED <<iter, seen, owed>> BY DEF iterVars
<1>2. Ahead(iter)' = Ahead(iter) BY <1>1 DEF Ahead
<1>3. ASSUME iter < cap, Occupied(iter), iter \in 0 .. cap PROVE Occupied(iter)'
  <2>1. cap \in Nat BY DEF TableInv
  <2>2. iter \in Full(cell, cap) BY <1>3, <2>1 DEF Full, Occupied
  <2>3. iter \in Full(cell', cap) BY <2>2
  <2> QED BY <1>1, <2>3 DEF Full, Occupied
<1> QED BY <1>1, <1>2, <1>3 DEF IterInv

LEMMA PutKeeps ==
  ASSUME HashInv, NEW k \in Keys, NEW v \in Values, Put(k, v)
  PROVE  HashInv' /\ (Content' = Content \/ Content' = Map!Store(Content, k, v))
<1>0. TableInv /\ IterInv BY DEF HashInv
<1>1. cap \in Nat \ {0} /\ cell \in Cells(cap) /\ Sound(cell, cap) /\ size = Cardinality(Full(cell, cap))
  BY <1>0 DEF TableInv
<1> DEFINE n == IF size * 4 >= cap * 3 THEN cap * 2 ELSE cap
           c == IF size * 4 >= cap * 3 THEN Rehash(cell, cap * 2) ELSE cell
<1>2. /\ n \in Nat \ {0} /\ c \in Cells(n) /\ Sound(c, n)
      /\ Entries(c, n) = Entries(cell, cap)
      /\ size = Cardinality(Full(c, n))
  <2>1. cap * 2 \in Nat /\ cap < cap * 2 /\ cap * 2 # 0 BY <1>1
  <2>2. CASE size * 4 >= cap * 3
    <3>1. n = cap * 2 /\ c = Rehash(cell, cap * 2) BY <2>2
    <3> HIDE DEF n, c
    <3> QED BY <1>1, <2>1, <3>1, RehashKeepsEntries
  <2>3. CASE ~(size * 4 >= cap * 3)
    <3>1. n = cap /\ c = cell BY <2>3
    <3> HIDE DEF n, c
    <3> QED BY <1>1, <3>1
  <2> QED BY <2>2, <2>3
<1>3. Insert(c, n, k, v) BY DEF Put
<1>4. (size * 4 < cap * 3 /\ FindSlot(cell, cap, k).found) \/ Disturb BY DEF Put
<1>5. size * 4 < cap * 3 /\ FindSlot(cell, cap, k).found => UNCHANGED iterVars /\ n = cap /\ c = cell
  <2>1. size \in Nat BY <1>1, FullCount
  <2>2. size * 4 < cap * 3 => ~(size * 4 >= cap * 3) BY <1>1, <2>1
  <2> QED BY <2>2 DEF Put
<1> HIDE DEF n, c
<1>6. /\ cap' = n /\ TableInv'
      /\ \/ Entries(cell', cap') = Entries(c, n)
         \/ Entries(cell', cap') = {e \in Entries(c, n) : e[1] # k} \union {<<k, v>>}
      /\ FindSlot(c, n, k).found =>
           /\ Full(cell', n) = Full(c, n)
           /\ \A q \in Full(c, n) : cell'[q][1] = c[q][1]
  BY <1>2, <1>3, InsertKeeps
<1>7. IterInv'
  <2>1. CASE Disturb BY <2>1, DisturbKeeps
  <2>2. CASE size * 4 < cap * 3 /\ FindSlot(cell, cap, k).found
    <3>1. UNCHANGED iterVars /\ n = cap /\ c = cell BY <1>5, <2>2
    <3>2. /\ cap' = cap /\ Full(cell', cap) = Full(cell, cap)
          /\ \A q \in Full(cell, cap) : cell'[q][1] = cell[q][1]
      BY <1>6, <2>2, <3>1
    <3> QED BY <1>0, <1>6, <3>1, <3>2, SameKeys
  <2> QED BY <1>4, <2>1, <2>2
<1>8. Content' = Content \/ Content' = Map!Store(Content, k, v)
  <2> DEFINE E == Entries(cell, cap)
  <2>1. Content = MapOf(E) BY <1>1, ContentIsAnswers, AnswersAre
  <2>2. cap' \in Nat \ {0} /\ cell' \in Cells(cap') /\ Sound(cell', cap') BY <1>6 DEF TableInv
  <2>3. Content' = MapOf(Entries(cell', cap')) BY <2>2, ContentIsAnswers, AnswersAre
  <2>4. Single(E) /\ E \subseteq Keys \X Values BY <1>1, EntriesSingle
  <2> HIDE DEF E
  <2>5. MapOf({e \in E : e[1] # k} \union {<<k, v>>}) = Map!Store(MapOf(E), k, v) BY <2>4, MapOfStore
  <2>6. Entries(cell', cap') = E \/ Entries(cell', cap') = {e \in E : e[1] # k} \union {<<k, v>>}
    BY <1>2, <1>6 DEF E
  <2> QED BY <2>1, <2>3, <2>5, <2>6
<1> QED BY <1>6, <1>7, <1>8 DEF HashInv

LEMMA DelKeeps ==
  ASSUME HashInv, NEW k \in Keys, Del(k)
  PROVE  HashInv' /\ k \in DOMAIN Content /\ Content' = Map!Without(Content, k)
<1>0. TableInv /\ IterInv BY DEF HashInv
<1>1. cap \in Nat \ {0} /\ cell \in Cells(cap) /\ Sound(cell, cap) /\ size = Cardinality(Full(cell, cap))
  BY <1>0 DEF TableInv
<1> DEFINE f == FindSlot(cell, cap, k)
<1>2. /\ f.found /\ cell' = [cell EXCEPT ![f.pos] = Tomb] /\ size' = size - 1 /\ cap' = cap
      /\ IF k \in ToSet(seen) THEN owed' = owed \ {k} /\ UNCHANGED <<iter, seen>> ELSE Disturb
  BY DEF Del
<1>3. PICK p : p = FindSlot(cell, cap, k).pos /\ cell' = Erased(cell, p) BY <1>2 DEF Erased
<1>4. /\ p \in Full(cell, cap) /\ cell[p][1] = k
      /\ cell' \in Cells(cap) /\ Sound(cell', cap)
      /\ Full(cell', cap) = Full(cell, cap) \ {p}
      /\ Entries(cell', cap) = {e \in Entries(cell, cap) : e[1] # k}
  <2> DEFINE d == Erased(cell, p)
  <2>1. /\ p \in Full(cell, cap) /\ cell[p][1] = k
        /\ d \in Cells(cap) /\ Sound(d, cap)
        /\ Full(d, cap) = Full(cell, cap) \ {p}
        /\ Entries(d, cap) = {e \in Entries(cell, cap) : e[1] # k}
    BY <1>1, <1>2, <1>3, DeleteKeepsSound
  <2> QED BY <1>3, <2>1
<1> HIDE DEF f
<1>5. size' = Cardinality(Full(cell', cap))
  <2>1. IsFiniteSet(Full(cell, cap)) BY <1>1, FullCount
  <2>2. Cardinality(Full(cell, cap) \ {p}) = Cardinality(Full(cell, cap)) - 1
    BY <1>4, <2>1, FS_RemoveElement
  <2> QED BY <1>1, <1>2, <1>4, <2>2
<1>6. TableInv' BY <1>1, <1>2, <1>4, <1>5 DEF TableInv
<1>7. IterInv'
  <2>1. CASE k \notin ToSet(seen) BY <1>2, <2>1, DisturbKeeps
  <2>2. CASE k \in ToSet(seen)
    <3>1. owed' = owed \ {k} /\ iter' = iter /\ seen' = seen BY <1>2, <2>2
    <3>2. iter # NoSlot
      <4>1. ToSet(<<>>) = {} BY DEF ToSet
      <4> QED BY <1>0, <2>2, <4>1 DEF IterInv
    <3>3. /\ iter \in 0 .. cap /\ (iter < cap => Occupied(iter))
          /\ owed \subseteq ToSet(seen) \union Ahead(iter)
          /\ ToSet(seen) \intersect Ahead(iter) = {}
          /\ seen \in Seq(Keys) /\ owed \subseteq Keys /\ IsInjective(seen)
      BY <1>0, <3>2 DEF IterInv
    <3>4. \A q \in Full(cell, cap) : q # p => cell'[q] = cell[q]
      BY <1>1, <1>3, <1>4 DEF Full, Cells, Erased
    <3>5. ~(p >= iter) /\ p \in 0 .. cap - 1
      <4>1. p >= iter => k \in Ahead(iter) BY <1>4 DEF Ahead
      <4> QED BY <1>4, <2>2, <3>3, <4>1 DEF Full
    <3>6. Ahead(iter)' = Ahead(iter)
      <4> DEFINE A == {q \in Full(cell, cap) : q >= iter}
      <4>1. {q \in Full(cell', cap) : q >= iter} = A BY <1>4, <3>5
      <4>2. \A q \in A : cell'[q] = cell[q] BY <3>4, <3>5
      <4>3. Ahead(iter)' = {cell'[q][1] : q \in {r \in Full(cell', cap) : r >= iter}}
        BY <1>2, <3>1 DEF Ahead
      <4>4. Ahead(iter) = {cell[q][1] : q \in A} BY DEF Ahead
      <4> HIDE DEF A
      <4>5. Ahead(iter)' = {cell'[q][1] : q \in A} BY <4>1, <4>3
      <4> QED BY <4>2, <4>4, <4>5
    <3>7. iter < cap => Occupied(iter)'
      <4> SUFFICES ASSUME iter < cap PROVE Occupied(iter)' OBVIOUS
      <4>1. iter \in Full(cell, cap) BY <1>1, <3>3 DEF Full, Occupied
      <4>2. iter # p BY <1>1, <3>3, <3>5
      <4>3. iter \in Full(cell', cap) BY <1>4, <4>1, <4>2
      <4> QED BY <3>1, <4>3 DEF Full, Occupied
    <3> QED BY <1>2, <3>1, <3>2, <3>3, <3>6, <3>7 DEF IterInv
  <2> QED BY <2>1, <2>2
<1>8. k \in DOMAIN Content /\ Content' = Map!Without(Content, k)
  <2> DEFINE E == Entries(cell, cap)
  <2>1. Content = MapOf(E) BY <1>1, ContentIsAnswers, AnswersAre
  <2>2. cap' \in Nat \ {0} /\ cell' \in Cells(cap') /\ Sound(cell', cap') BY <1>6 DEF TableInv
  <2>3. Content' = MapOf(Entries(cell', cap')) BY <2>2, ContentIsAnswers, AnswersAre
  <2>4. Single(E) /\ E \subseteq Keys \X Values BY <1>1, EntriesSingle
  <2>5. cell[p] \in E BY <1>4 DEF Entries
  <2>6. Entries(cell', cap') = {e \in E : e[1] # k} BY <1>2, <1>4
  <2> HIDE DEF E
  <2>7. MapOf({e \in E : e[1] # k}) = Map!Without(MapOf(E), k) BY <2>4, MapOfWithout
  <2>8. k \in DOMAIN MapOf(E) BY <1>4, <2>5 DEF MapOf
  <2> QED BY <2>1, <2>3, <2>6, <2>7, <2>8
<1> QED BY <1>6, <1>7, <1>8 DEF HashInv

\* A table without entries is sound, and answers nothing.
LEMMA BlankIsSound ==
  ASSUME NEW n \in Nat \ {0}, NEW c, c = [p \in 0 .. n - 1 |-> Empty]
  PROVE  c \in Cells(n) /\ Sound(c, n) /\ Cardinality(Full(c, n)) = 0 /\ Answers(c, n) = [k \in {} |-> k]
<1>1. c \in Cells(n) BY DEF Cells
<1>2. Full(c, n) = {} BY DEF Full
<1>3. Sound(c, n) /\ Entries(c, n) = {} BY <1>2 DEF Sound, Entries
<1>4. Cardinality(Full(c, n)) = 0 BY <1>2, FS_EmptySet
<1>5. Answers(c, n) = MapOf({}) BY <1>1, <1>3, AnswersAre
<1>6. MapOf({}) = [k \in {} |-> k] BY DEF MapOf
<1> QED BY <1>1, <1>3, <1>4, <1>5, <1>6

LEMMA ClearKeeps ==
  ASSUME HashInv, Clear PROVE HashInv' /\ Content' = [k \in {} |-> k]
<1>1. cap \in Nat \ {0} BY DEF HashInv, TableInv
<1>2. cell' = [p \in 0 .. cap - 1 |-> Empty] /\ size' = 0 /\ cap' = cap /\ Disturb BY DEF Clear, Positions
<1>3. /\ cell' \in Cells(cap) /\ Sound(cell', cap) /\ Cardinality(Full(cell', cap)) = 0
      /\ Answers(cell', cap) = [k \in {} |-> k]
  BY <1>1, <1>2, BlankIsSound
<1>4. TableInv' BY <1>1, <1>2, <1>3 DEF TableInv
<1>5. IterInv' BY <1>2, DisturbKeeps
<1> QED BY <1>2, <1>3, <1>4, <1>5, ContentIsAnswers DEF HashInv

LEMMA InitKeeps == TableInit => HashInv /\ Content = [k \in {} |-> k]
<1> SUFFICES ASSUME TableInit PROVE HashInv /\ Content = [k \in {} |-> k] OBVIOUS
<1>1. /\ cap = InitialCap /\ InitialCap \in Nat \ {0} /\ size = 0
      /\ cell = [p \in 0 .. cap - 1 |-> Empty]
      /\ iter = NoSlot /\ seen = <<>> /\ owed = {}
  BY HashMapAssumption DEF TableInit
<1>2. /\ cell \in Cells(cap) /\ Sound(cell, cap) /\ Cardinality(Full(cell, cap)) = 0
      /\ Answers(cell, cap) = [k \in {} |-> k]
  BY <1>1, BlankIsSound
<1>3. TableInv BY <1>1, <1>2 DEF TableInv
<1>4. IterInv
  <2>1. <<>> \in Seq(Keys) /\ DOMAIN <<>> = {} OBVIOUS
  <2>2. IsInjective(<<>>) BY <2>1 DEF IsInjective
  <2> QED BY <1>1, <2>1, <2>2 DEF IterInv
<1> QED BY <1>2, <1>3, <1>4, ContentIsAnswers DEF HashInv

LEMMA IterBeginKeeps ==
  ASSUME HashInv, IterBegin PROVE HashInv'
<1>0. TableInv /\ IterInv BY DEF HashInv
<1>1. /\ iter' = NextOccupied(0) /\ seen' = <<>>
      /\ owed' = {cell[p][1] : p \in {q \in Positions : Occupied(q)}}
      /\ cap' = cap /\ cell' = cell /\ size' = size
  BY DEF IterBegin, tableVars
<1>2. cap \in Nat \ {0} /\ cell \in Cells(cap) BY <1>0 DEF TableInv
<1>3. 0 \in 0 .. cap BY <1>2
<1> DEFINE m == NextOccupied(0)
<1>4. /\ m \in 0 .. cap /\ m < cap => m \in Full(cell, cap)
      /\ \A q \in Full(cell, cap) : q >= 0 => q >= m
  BY <1>0, <1>3, NextIs
<1>5. m \in 0 .. cap BY <1>0, <1>3, NextIs
<1> HIDE DEF m
<1>6. iter' = m /\ m # NoSlot
  <2>1. m \in Nat BY <1>2, <1>5
  <2> QED BY <1>1, <2>1, HashMapAssumption DEF m
<1>7. TableInv' BY <1>0, <1>1 DEF TableInv
<1>8. <<>> \in Seq(Keys) /\ IsInjective(<<>>) /\ ToSet(<<>>) = {}
  <2>1. <<>> \in Seq(Keys) /\ DOMAIN <<>> = {} OBVIOUS
  <2> QED BY <2>1 DEF IsInjective, ToSet
<1>9. owed' = {cell[p][1] : p \in Full(cell, cap)} BY <1>1, FullIsOccupied
<1>10. Ahead(iter)' = {cell[p][1] : p \in Full(cell, cap)}
  <2>1. Full(cell, cap) \subseteq 0 .. cap - 1 BY DEF Full
  <2>2. {q \in Full(cell, cap) : q >= m} = Full(cell, cap) BY <1>2, <1>4, <1>5, <2>1
  <2>3. Ahead(iter)' = {cell[p][1] : p \in {q \in Full(cell, cap) : q >= m}} BY <1>1, <1>6 DEF Ahead
  <2> QED BY <2>2, <2>3
<1>11. owed' \subseteq Keys
  <2>1. \A p \in Full(cell, cap) : cell[p][1] \in Keys BY <1>2, FullKeys
  <2> QED BY <1>9, <2>1
<1>12. iter' < cap => Occupied(iter)' BY <1>1, <1>4, <1>5, <1>6 DEF Full, Occupied
<1>13. IterInv' BY <1>1, <1>5, <1>6, <1>8, <1>9, <1>10, <1>11, <1>12 DEF IterInv
<1> QED BY <1>7, <1>13 DEF HashInv

LEMMA AppendNew ==
  ASSUME NEW S, NEW s \in Seq(S), NEW e \in S, IsInjective(s), e \notin ToSet(s)
  PROVE  Append(s, e) \in Seq(S) /\ IsInjective(Append(s, e)) /\ ToSet(Append(s, e)) = ToSet(s) \union {e}
<1> DEFINE t == Append(s, e)  n == Len(s)
<1>1. /\ t \in Seq(S) /\ Len(t) = n + 1 /\ n \in Nat /\ t[n+1] = e /\ \A i \in 1..n : t[i] = s[i]
      /\ DOMAIN s = 1..n /\ DOMAIN t = 1..(n+1)
  BY AppendProperties, LenProperties
<1> HIDE DEF t, n
<1>2. IsInjective(t)
  <2> SUFFICES ASSUME NEW i \in 1..(n+1), NEW j \in 1..(n+1), t[i] = t[j] PROVE i = j
    BY <1>1 DEF IsInjective
  <2>1. \A l \in 1..n : t[l] # e BY <1>1 DEF ToSet
  <2>2. \A l \in 1..(n+1) : l = n + 1 \/ l \in 1..n BY <1>1
  <2>3. CASE i \in 1..n /\ j \in 1..n BY <1>1, <2>3 DEF IsInjective
  <2>4. CASE i = n + 1 \/ j = n + 1 BY <1>1, <2>1, <2>2, <2>4
  <2> QED BY <2>2, <2>3, <2>4
<1>3. ToSet(t) = ToSet(s) \union {e}
  <2>1. ToSet(t) = {t[i] : i \in 1..(n+1)} /\ ToSet(s) = {s[i] : i \in 1..n} BY <1>1 DEF ToSet
  <2>2. 1..(n+1) = (1..n) \union {n+1} BY <1>1
  <2> QED BY <1>1, <2>1, <2>2
<1> QED BY <1>1, <1>2, <1>3 DEF t

LEMMA IterNextKeeps ==
  ASSUME HashInv, IterNext PROVE HashInv'
<1>0. TableInv /\ IterInv BY DEF HashInv
<1>1. /\ iter # NoSlot /\ iter < cap /\ Occupied(iter)
      /\ seen' = Append(seen, cell[iter][1]) /\ iter' = NextOccupied(iter + 1)
      /\ owed' = owed /\ cap' = cap /\ cell' = cell /\ size' = size
  BY DEF IterNext, HasNext, tableVars
<1>2. cap \in Nat \ {0} /\ cell \in Cells(cap) /\ Sound(cell, cap) BY <1>0 DEF TableInv
<1>3. /\ iter \in 0 .. cap /\ owed \subseteq ToSet(seen) \union Ahead(iter)
      /\ ToSet(seen) \intersect Ahead(iter) = {}
      /\ seen \in Seq(Keys) /\ owed \subseteq Keys /\ IsInjective(seen)
  BY <1>0, <1>1 DEF IterInv
<1> DEFINE k == cell[iter][1]
           m == NextOccupied(iter + 1)
<1>4. iter \in Full(cell, cap) BY <1>1, <1>2, <1>3 DEF Full, Occupied
<1>5. k \in Keys BY <1>2, <1>4, FullKeys
<1>6. iter + 1 \in 0 .. cap BY <1>1, <1>2, <1>3
<1>7. m \in iter + 1 .. cap BY <1>0, <1>6, NextIs
<1>8. m < cap => m \in Full(cell, cap) BY <1>0, <1>6, NextIs
<1>9. \A q \in Full(cell, cap) : q >= iter + 1 => q >= m BY <1>0, <1>6, NextIs
<1> HIDE DEF m
<1>10. iter' = m /\ m # NoSlot /\ m \in 0 .. cap
  <2>1. m \in Nat /\ m \in 0 .. cap BY <1>2, <1>3, <1>7
  <2> QED BY <1>1, <2>1, HashMapAssumption DEF m
<1>11. TableInv' BY <1>0, <1>1 DEF TableInv
<1>12. Full(cell, cap) \subseteq 0 .. cap - 1 BY DEF Full
<1>13. {q \in Full(cell, cap) : q >= iter} = {iter} \union {q \in Full(cell, cap) : q >= m}
  BY <1>2, <1>3, <1>4, <1>7, <1>9, <1>12
<1>14. Ahead(iter) = {k} \union Ahead(m) BY <1>13 DEF Ahead
<1>15. k \notin Ahead(m)
  <2> SUFFICES ASSUME NEW q \in Full(cell, cap), q >= m, cell[q][1] = cell[iter][1] PROVE FALSE
    BY DEF Ahead
  <2>1. q = iter BY <1>2, <1>4, KeysOnce
  <2> QED BY <1>3, <1>7, <2>1
<1>16. k \notin ToSet(seen) BY <1>3, <1>14
<1> HIDE DEF k
<1>17. seen' \in Seq(Keys) /\ IsInjective(seen') /\ ToSet(seen') = ToSet(seen) \union {k}
  BY <1>1, <1>3, <1>5, <1>16, AppendNew DEF k
<1>18. Ahead(iter)' = Ahead(m) BY <1>1, <1>10 DEF Ahead
<1>19. iter' < cap => Occupied(iter)' BY <1>1, <1>8, <1>10 DEF Full, Occupied
<1>20. /\ owed' \subseteq ToSet(seen') \union Ahead(iter)'
       /\ ToSet(seen') \intersect Ahead(iter)' = {}
  BY <1>1, <1>3, <1>14, <1>15, <1>17, <1>18
<1>21. IterInv' BY <1>1, <1>3, <1>10, <1>17, <1>19, <1>20 DEF IterInv
<1> QED BY <1>11, <1>21 DEF HashInv

\* The contents stay when the table does.
LEMMA ContentStays == ASSUME UNCHANGED tableVars PROVE Content' = Content
BY ContentIsAnswers DEF tableVars

LEMMA HashStep == HashInv /\ [TableNext]_hashMapVars => HashInv' /\ [Map!Next]_Content
<1> SUFFICES ASSUME HashInv, [TableNext]_hashMapVars PROVE HashInv' /\ [Map!Next]_Content OBVIOUS
<1>1. ASSUME NEW k \in Keys, NEW v \in Values, Put(k, v) PROVE HashInv' /\ [Map!Next]_Content
  BY <1>1, PutKeeps DEF Map!Next, Map!After
<1>2. ASSUME NEW k \in Keys, Del(k) PROVE HashInv' /\ [Map!Next]_Content
  BY <1>2, DelKeeps DEF Map!Next, Map!After
<1>3. CASE Clear BY <1>3, ClearKeeps DEF Map!Next, Map!After
<1>4. CASE IterBegin BY <1>4, IterBeginKeeps, ContentStays DEF IterBegin
<1>5. CASE IterNext
  <2>1. UNCHANGED tableVars BY <1>5 DEF IterNext, tableVars
  <2> QED BY <1>5, <2>1, IterNextKeeps, ContentStays
<1>6. CASE IterEnd
  <2>1. UNCHANGED tableVars /\ Disturb BY <1>6 DEF IterEnd
  <2>2. TableInv' BY <2>1 DEF HashInv, TableInv, tableVars
  <2> QED BY <2>1, <2>2, DisturbKeeps, ContentStays DEF HashInv
<1>7. CASE UNCHANGED hashMapVars
  <2>1. UNCHANGED tableVars /\ UNCHANGED iterVars BY <1>7 DEF hashMapVars
  <2>2. TableInv' BY <2>1 DEF HashInv, TableInv, tableVars
  <2>3. IterInv' BY <2>1 DEF HashInv, IterInv, iterVars, tableVars, Ahead, Occupied
  <2> QED BY <2>1, <2>2, <2>3, ContentStays DEF HashInv
<1> QED BY <1>1, <1>2, <1>3, <1>4, <1>5, <1>6, <1>7 DEF TableNext

-----------------------------------------------------------------------------
(* The theorems.                                                            *)

LEMMA HashInvariant == TableSpec => []HashInv
<1>1. TableInit => HashInv BY InitKeeps
<1>2. HashInv /\ [TableNext]_hashMapVars => HashInv' BY HashStep
<1> QED BY <1>1, <1>2, PTL DEF TableSpec

\* The table is well typed in every state.
THEOREM TableTypeCorrect == TableSpec => []TableTypeOK
<1>1. HashInv => TableTypeOK
  <2> SUFFICES ASSUME HashInv PROVE TableTypeOK OBVIOUS
  <2>1. cap \in Nat /\ cell \in Cells(cap) /\ size = Cardinality(Full(cell, cap)) BY DEF HashInv, TableInv
  <2>2. size \in 0 .. cap BY <2>1, FullCount
  <2>3. seen \in Seq(Keys) /\ owed \subseteq Keys /\ iter \in (0 .. cap) \union {NoSlot}
    BY DEF HashInv, IterInv
  <2> QED BY <2>1, <2>2, <2>3 DEF TableTypeOK, Cells, Positions
<1> QED BY <1>1, HashInvariant, PTL

\* Every key in the table is found by its search, whatever puts, deletions and
\* resizes came before: a tombstone never cuts a probe sequence, and no key is
\* stored twice.
THEOREM KeysAreFound == TableSpec => []EveryKeyFound
<1>1. HashInv => EveryKeyFound
  <2> SUFFICES ASSUME HashInv, NEW p \in Positions, Occupied(p)
               PROVE  FindSlot(cell, cap, cell[p][1]) = [found |-> TRUE, pos |-> p]
    BY DEF EveryKeyFound
  <2>1. cap \in Nat \ {0} /\ cell \in Cells(cap) /\ Sound(cell, cap) BY DEF HashInv, TableInv
  <2>2. p \in Full(cell, cap) BY FullIsOccupied
  <2>3. cell[p][1] \in Keys BY <2>1, <2>2, FullKeys
  <2>4. Reaches(cell, cap, cell[p][1], p) BY <2>1, <2>2 DEF Sound
  <2>5. Holds(cell, p, cell[p][1]) BY <2>2 DEF Holds, Full
  <2> QED BY <2>1, <2>3, <2>4, <2>5, SearchFinds
<1> QED BY <1>1, HashInvariant, PTL

\* size, from which a put decides to resize, is the number of occupied cells.
THEOREM SizeCountsEntries == TableSpec => []SizeIsCount
<1>1. HashInv => SizeIsCount BY FullIsOccupied DEF HashInv, TableInv, SizeIsCount
<1> QED BY <1>1, HashInvariant, PTL

\* An iterator that has no next element has returned every key it owed, and
\* none of them twice.
THEOREM IterationIsComplete == TableSpec => []IterationComplete
<1>1. HashInv => IterationComplete
  <2> SUFFICES ASSUME HashInv, iter # NoSlot, ~HasNext
               PROVE  owed \subseteq ToSet(seen) /\ IsInjective(seen)
    BY DEF IterationComplete
  <2>1. /\ iter \in 0 .. cap /\ (iter < cap => Occupied(iter))
        /\ owed \subseteq ToSet(seen) \union Ahead(iter) /\ IsInjective(seen) /\ cap \in Nat
    BY DEF HashInv, IterInv, TableInv
  <2>2. iter = cap BY <2>1 DEF HasNext
  <2>3. {q \in Full(cell, cap) : q >= iter} = {} BY <2>1, <2>2 DEF Full
  <2>4. Ahead(iter) = {} BY <2>3 DEF Ahead
  <2> QED BY <2>1, <2>4
<1> QED BY <1>1, HashInvariant, PTL

\* What tefstd_hashmap_get answers is a finite map that a put, a delete and a
\* clear change as a map is changed, and nothing else does.
THEOREM TableImplementsMap == TableSpec => ImplementsMap
<1>1. TableInit => Map!Init BY InitKeeps DEF Map!Init
<1>2. HashInv /\ [TableNext]_hashMapVars => [Map!Next]_Content BY HashStep
<1> QED BY <1>1, <1>2, HashInvariant, PTL DEF TableSpec, ImplementsMap, Map!Spec
=============================================================================
