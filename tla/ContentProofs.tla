---------------------------- MODULE ContentProofs -----------------------------
(* What ContentRegistry promises, for every set of handles, every base and   *)
(* every limit.  The inductive invariant has two parts that share nothing    *)
(* but the list of active buffs.  RegistryInv says what assign_ids leaves:   *)
(* as long as nothing came late (settled), the handle at index k has the id  *)
(* Base + k - 1 and k - 1 handles of smaller name before it; a replacement   *)
(* keeps both, since it has the name of what it replaces.  TickInv says that *)
(* each buff a tick still owes is at the index it looks at next, or behind   *)
(* it, as long as no call from a callback moved an entry it had passed.      *)
EXTENDS ContentRegistry, InductionProofs, FiniteSetTheorems

\* No two handles of s have the same name.
NamesOnce(s) == \A i, j \in DOMAIN s : NameOf[s[i]] = NameOf[s[j]] => i = j

\* What was numbered and not added to since: assign_ids has put each handle at
\* the place its id says.
Numbered ==
  /\ assigned
  /\ kind = "prefix" => Base + Len(registry) <= PrefixLimit
  /\ \A k \in DOMAIN registry :
       runtimeId[registry[k]] = Base + (k - 1) /\ Before(registry[k], registry) = k - 1

RegistryInv ==
  /\ kind \in Kinds /\ assigned \in BOOLEAN /\ settled \in BOOLEAN /\ declared \subseteq Handles
  /\ registry \in Seq(Handles) /\ NamesOnce(registry)
  /\ runtimeId \in [Handles -> Ids]
  /\ ~assigned => \A h \in Handles : runtimeId[h] = -1
  /\ settled => Numbered

\* The active list: no buff twice on one player.
Entries == [who : Players, id : Ids \ {-1}, time : 1..MaxTime]
Once(s) == \A i, j \in DOMAIN s : s[i].who = s[j].who /\ s[i].id = s[j].id => i = j
Lists   == {s \in Seq(Entries) : Once(s) /\ Len(s) <= ActiveMax}

\* What a tick owes is at the index it looks at next, or behind, unless a call moved entries.
Owes(id, i, who, s) == \E j \in DOMAIN s : j >= i /\ s[j].who = who /\ s[j].id = id
Ticks    == [who : Players, i : 1..(ActiveMax + 1), calling : BOOLEAN, moved : BOOLEAN, owed : SUBSET Ids]
Looks(t) == IF t.calling THEN t.i + 1 ELSE t.i
TickInv ==
  /\ active \in Lists
  /\ tick = NoTick \/ /\ tick \in Ticks /\ (tick.calling => tick.i <= ActiveMax)
                      /\ ~tick.moved => \A id \in tick.owed : Owes(id, Looks(tick), tick.who, active)

ContentInv == RegistryInv /\ TickInv

-----------------------------------------------------------------------------
(* The vector and its sorting. *)
LEMMA Constants ==
  /\ IsFiniteSet(Handles) /\ NameOf \in [Handles -> Nat] /\ Base \in Nat /\ PrefixLimit \in Nat
  /\ ActiveMax \in Nat /\ MaxTime \in Nat /\ Cardinality(Handles) \in Nat
BY ContentAssumption, FS_CardinalityType DEF ContentAssumption

\* As many names as handles.
LEMMA RangeOfVector ==
  ASSUME NEW s \in Seq(Handles), NamesOnce(s)
  PROVE  /\ IsFiniteSet(ToSet(s)) /\ Cardinality(ToSet(s)) = Len(s) /\ ToSet(s) \subseteq Handles
         /\ \A g, h \in ToSet(s) : NameOf[g] = NameOf[h] => g = h
         /\ IsFiniteSet({NameOf[h] : h \in ToSet(s)}) /\ Cardinality({NameOf[h] : h \in ToSet(s)}) = Len(s)
<1>0. DOMAIN s = 1..Len(s) /\ Len(s) \in Nat /\ \A i \in 1..Len(s) : s[i] \in Handles
  BY LenProperties, ElementOfSeq
<1>1. ToSet(s) = {s[i] : i \in 1..Len(s)} BY <1>0 DEF ToSet
<1>2. \A i, j \in 1..Len(s) : NameOf[s[i]] = NameOf[s[j]] => i = j BY <1>0 DEF NamesOnce
<1>3. IsFiniteSet(1..Len(s)) /\ Cardinality(1..Len(s)) = Len(s)
  <2>1. \A n \in Nat : IsFiniteSet(1..n) /\ Cardinality(1..n) = IF 1 > n THEN 0 ELSE n - 1 + 1
    <3> TAKE n \in Nat
    <3> QED BY ONLY 1 \in Int, n \in Int, FS_Interval
  <2>2. \A n \in Nat : (IF 1 > n THEN 0 ELSE n - 1 + 1) = n OBVIOUS
  <2> QED BY <1>0, <2>1, <2>2, Zenon
<1> DEFINE f == [i \in 1..Len(s) |-> s[i]]
           names == {NameOf[h] : h \in ToSet(s)}
           g == [i \in 1..Len(s) |-> NameOf[s[i]]]
<1>4. f \in Surjection(1..Len(s), ToSet(s)) BY <1>1 DEF Surjection
<1>5. f \in Injection(1..Len(s), ToSet(s)) BY <1>2, <1>4 DEF Injection, IsInjective, Surjection
<1>6. g \in Surjection(1..Len(s), names) BY <1>1 DEF Surjection
<1>7. g \in Injection(1..Len(s), names) BY <1>2, <1>6 DEF Injection, IsInjective, Surjection
<1> HIDE DEF f, g, names
<1>8. IsFiniteSet(ToSet(s)) /\ Cardinality(ToSet(s)) = Len(s) BY <1>3, <1>4, <1>5, FS_Surjection
<1>9. IsFiniteSet(names) /\ Cardinality(names) = Len(s) BY <1>3, <1>6, <1>7, FS_Surjection
<1>10. \A x, y \in ToSet(s) : NameOf[x] = NameOf[y] => x = y BY <1>1, <1>2
<1>11. ToSet(s) \subseteq Handles BY <1>0, <1>1
<1> QED BY <1>8, <1>9, <1>10, <1>11 DEF names

\* How many of s come before h.
LEMMA BeforeBounds ==
  ASSUME NEW s \in Seq(Handles), NEW h \in Handles
  PROVE  /\ Before(h, s) \in Nat /\ Before(h, s) <= Cardinality(Handles)
         /\ h \in ToSet(s) => Before(h, s) < Cardinality(ToSet(s))
<1> DEFINE R == ToSet(s)  less == {g \in R : NameOf[g] < NameOf[h]}
<1>0. R \subseteq Handles BY ElementOfSeq, LenProperties DEF ToSet
<1>1. IsFiniteSet(R) BY <1>0, Constants, FS_Subset
<1>2. IsFiniteSet(less) /\ Cardinality(less) <= Cardinality(R) /\ (Cardinality(R) = Cardinality(less) => R = less)
  BY <1>1, FS_Subset
<1>3. Cardinality(R) <= Cardinality(Handles) BY <1>0, Constants, FS_Subset
<1>4. Cardinality(less) \in Nat /\ Cardinality(R) \in Nat BY <1>1, <1>2, FS_CardinalityType
<1>5. h \in R => R # less BY Constants
<1>6. Before(h, s) = Cardinality(less) BY DEF Before
<1> HIDE DEF less, R
<1> QED BY <1>2, <1>3, <1>4, <1>5, <1>6, Constants DEF R

\* A greater name has more before it.
LEMMA BeforeIncreases ==
  ASSUME NEW s \in Seq(Handles), NEW g \in ToSet(s), NEW h \in ToSet(s), NameOf[g] < NameOf[h]
  PROVE  Before(g, s) < Before(h, s)
<1> DEFINE R == ToSet(s)
           low == {x \in R : NameOf[x] < NameOf[g]}  high == {x \in R : NameOf[x] < NameOf[h]}
<1>0. R \subseteq Handles BY ElementOfSeq, LenProperties DEF ToSet
<1>1. IsFiniteSet(R) BY <1>0, Constants, FS_Subset
<1>2. low \subseteq high /\ high \subseteq R /\ g \in high /\ g \notin low
  <2>1. \A x \in R : NameOf[x] \in Nat BY <1>0, Constants
  <2> QED BY <2>1
<1>3. IsFiniteSet(high) BY <1>1, <1>2, FS_Subset
<1>4. IsFiniteSet(low) /\ Cardinality(low) <= Cardinality(high) /\ (Cardinality(high) = Cardinality(low) => high = low)
  BY <1>2, <1>3, FS_Subset
<1>5. Cardinality(low) \in Nat /\ Cardinality(high) \in Nat BY <1>3, <1>4, FS_CardinalityType
<1>6. Before(g, s) = Cardinality(low) /\ Before(h, s) = Cardinality(high) BY DEF Before
<1> HIDE DEF low, high
<1> QED BY <1>2, <1>4, <1>5, <1>6

\* Every place is taken by one handle.
LEMMA Places ==
  ASSUME NEW s \in Seq(Handles), NamesOnce(s)
  PROVE  /\ \A g, h \in ToSet(s) : Before(g, s) = Before(h, s) => g = h
         /\ \A h \in ToSet(s) : Before(h, s) + 1 \in 1..Len(s)
         /\ \A k \in 1..Len(s) : \E h \in ToSet(s) : Before(h, s) = k - 1
<1>0. /\ IsFiniteSet(ToSet(s)) /\ Cardinality(ToSet(s)) = Len(s) /\ ToSet(s) \subseteq Handles
      /\ \A g, h \in ToSet(s) : NameOf[g] = NameOf[h] => g = h
  BY RangeOfVector
<1>00. Len(s) \in Nat BY LenProperties
<1>1. ASSUME NEW g \in ToSet(s), NEW h \in ToSet(s), Before(g, s) = Before(h, s) PROVE g = h
  <2>1. g \in Handles /\ h \in Handles /\ NameOf[g] \in Nat /\ NameOf[h] \in Nat BY <1>0, Constants
  <2>2. Before(g, s) \in Nat /\ Before(h, s) \in Nat BY <2>1, BeforeBounds
  <2>3. NameOf[g] < NameOf[h] => Before(g, s) < Before(h, s) BY BeforeIncreases
  <2>4. NameOf[h] < NameOf[g] => Before(h, s) < Before(g, s) BY BeforeIncreases
  <2>5. NameOf[g] = NameOf[h] BY <1>1, <2>1, <2>2, <2>3, <2>4
  <2> QED BY <1>0, <2>5
<1>2. ASSUME NEW h \in ToSet(s) PROVE Before(h, s) \in Nat /\ Before(h, s) + 1 \in 1..Len(s)
  <2>1. h \in Handles BY <1>0
  <2>2. Before(h, s) \in Nat /\ Before(h, s) < Len(s) BY <1>0, <2>1, BeforeBounds
  <2> QED BY <2>2, <1>00
<1>3. ASSUME NEW k \in 1..Len(s) PROVE \E h \in ToSet(s) : Before(h, s) = k - 1
  <2> DEFINE f == [h \in ToSet(s) |-> Before(h, s) + 1]
  <2>1. f \in [ToSet(s) -> 1..Len(s)] BY <1>2
  <2>2. f \in Injection(ToSet(s), 1..Len(s))
    <3>1. \A g, h \in ToSet(s) : f[g] = f[h] => g = h BY <1>1, <1>2
    <3> QED BY <2>1, <3>1 DEF Injection, IsInjective
  <2>3. IsFiniteSet(1..Len(s)) /\ Cardinality(1..Len(s)) = Len(s)
    <3>1. \A n \in Nat : IsFiniteSet(1..n) /\ Cardinality(1..n) = IF 1 > n THEN 0 ELSE n - 1 + 1
      <4> TAKE n \in Nat
      <4> QED BY ONLY 1 \in Int, n \in Int, FS_Interval
    <3>2. \A n \in Nat : (IF 1 > n THEN 0 ELSE n - 1 + 1) = n OBVIOUS
    <3> QED BY <1>00, <3>1, <3>2, Zenon
  <2> HIDE DEF f
  <2>4. f \in Surjection(ToSet(s), 1..Len(s)) BY <1>0, <2>2, <2>3, FS_Injection
  <2>5. PICK h \in ToSet(s) : f[h] = k BY <2>4 DEF Surjection
  <2>6. f[h] = Before(h, s) + 1 BY DEF f
  <2> QED BY <1>2, <2>5, <2>6
<1> QED BY <1>1, <1>2, <1>3

\* qsort: the same handles, each at its place.
LEMMA SortedSorts ==
  ASSUME NEW s \in Seq(Handles), NamesOnce(s)
  PROVE  /\ Sorted(s) \in Seq(Handles) /\ Len(Sorted(s)) = Len(s) /\ ToSet(Sorted(s)) = ToSet(s)
         /\ NamesOnce(Sorted(s))
         /\ \A k \in DOMAIN Sorted(s) : Sorted(s)[k] \in ToSet(s) /\ Before(Sorted(s)[k], s) = k - 1
<1> DEFINE r == Sorted(s)
<1>0. DOMAIN s = 1..Len(s) /\ Len(s) \in Nat BY LenProperties
<1>1. /\ \A g, h \in ToSet(s) : Before(g, s) = Before(h, s) => g = h
      /\ \A h \in ToSet(s) : Before(h, s) + 1 \in 1..Len(s)
      /\ \A k \in 1..Len(s) : \E h \in ToSet(s) : Before(h, s) = k - 1
  BY Places
<1>2. ToSet(s) \subseteq Handles /\ \A g, h \in ToSet(s) : NameOf[g] = NameOf[h] => g = h BY RangeOfVector
<1>3. r = [k \in 1..Len(s) |-> CHOOSE h \in ToSet(s) : Before(h, s) = k - 1] BY <1>0 DEF Sorted
<1>4. \A k \in 1..Len(s) : r[k] \in ToSet(s) /\ Before(r[k], s) = k - 1 BY <1>1, <1>3
<1>5. DOMAIN r = 1..Len(s) BY <1>3
<1>5a. r = [k \in 1..Len(s) |-> r[k]] BY <1>3
<1> HIDE DEF r
<1>6. r \in [1..Len(s) -> Handles] BY <1>2, <1>4, <1>5a
<1>7. r \in Seq(Handles) /\ Len(r) = Len(s) BY <1>0, <1>6
<1>8. \A h \in ToSet(s) : \E k \in 1..Len(s) : r[k] = h
  <2> SUFFICES ASSUME NEW h \in ToSet(s) PROVE \E k \in 1..Len(s) : r[k] = h OBVIOUS
  <2> DEFINE k == Before(h, s) + 1
  <2>1. k \in 1..Len(s) /\ Before(h, s) \in Nat BY <1>1, <1>2, BeforeBounds
  <2>2. Before(r[k], s) = Before(h, s) BY <1>4, <2>1
  <2> QED BY <1>1, <1>4, <2>1, <2>2
<1>9. ToSet(r) = ToSet(s)
  <2>1. ToSet(r) = {r[k] : k \in 1..Len(s)} BY <1>5 DEF ToSet
  <2> QED BY <1>4, <1>8, <2>1
<1>10. NamesOnce(r)
  <2> SUFFICES ASSUME NEW i \in 1..Len(s), NEW j \in 1..Len(s), NameOf[r[i]] = NameOf[r[j]] PROVE i = j
    BY <1>5 DEF NamesOnce
  <2>1. r[i] = r[j] BY <1>2, <1>4
  <2>2. i - 1 = j - 1 BY <1>4, <2>1
  <2> QED BY <2>2
<1> QED BY <1>4, <1>5, <1>7, <1>9, <1>10 DEF r

\* A vector without one handle.
LEMMA ErasedVector ==
  ASSUME NEW s \in Seq(Handles), NamesOnce(s), NEW i \in DOMAIN s
  PROVE  /\ RemoveAt(s, i) \in Seq(Handles) /\ Len(RemoveAt(s, i)) = Len(s) - 1 /\ NamesOnce(RemoveAt(s, i))
         /\ \A h \in ToSet(RemoveAt(s, i)) : h \in ToSet(s) /\ NameOf[h] # NameOf[s[i]]
<1> DEFINE r == RemoveAt(s, i)
<1>1. /\ r \in Seq(Handles) /\ Len(r) = Len(s) - 1
      /\ \A k \in 1..(Len(s) - 1) : r[k] = s[IF k < i THEN k ELSE k + 1]
  BY EntryRemoved
<1> HIDE DEF r
<1>2. DOMAIN s = 1..Len(s) /\ Len(s) \in Nat /\ DOMAIN r = 1..(Len(s)-1) /\ i \in 1..Len(s) BY <1>1, LenProperties
<1> DEFINE old(k) == IF k < i THEN k ELSE k + 1
<1>3. \A k \in 1..(Len(s)-1) : old(k) \in 1..Len(s) /\ old(k) # i BY <1>2
<1>4. \A j, k \in 1..(Len(s)-1) : old(j) = old(k) => j = k BY <1>2
<1>5. \A k \in 1..(Len(s)-1) : r[k] = s[old(k)] BY <1>1
<1> HIDE DEF old
<1>6. NamesOnce(r) BY <1>2, <1>3, <1>4, <1>5 DEF NamesOnce
<1>7. \A h \in ToSet(r) : h \in ToSet(s) /\ NameOf[h] # NameOf[s[i]]
  BY <1>2, <1>3, <1>5 DEF NamesOnce, ToSet
<1> QED BY <1>1, <1>6, <1>7 DEF r

-----------------------------------------------------------------------------
(* The active list. *)
\* What is taken from a list is one.
LEMMA ListsPicked ==
  ASSUME NEW s \in Lists, NEW r \in PicksOf(Entries, s) PROVE r \in Lists
<1>1. s \in Seq(Entries) /\ Once(s) /\ Len(s) <= ActiveMax /\ r \in Seq(Entries) /\ Len(r) <= Len(s) BY DEF Lists, PicksOf
<1>2. /\ Len(s) \in Nat /\ Len(r) \in Nat /\ DOMAIN s = 1..Len(s) /\ DOMAIN r = 1..Len(r)
      /\ ActiveMax \in Nat
  BY <1>1, LenProperties, Constants
<1>3. PICK f : Picked(r, s, f) BY DEF PicksOf
<1>4. Once(r)
  <2> SUFFICES ASSUME NEW j \in 1..Len(r), NEW k \in 1..Len(r), r[j].who = r[k].who, r[j].id = r[k].id PROVE j = k
    BY <1>2 DEF Once
  <2>1. r[j] = s[f[j]] /\ r[k] = s[f[k]] /\ f[j] \in 1..Len(s) /\ f[k] \in 1..Len(s) BY <1>3 DEF Picked
  <2>2. f[j] = f[k] BY <1>1, <1>2, <2>1 DEF Once
  <2> QED BY <1>3, <2>2 DEF Picked
<1>5. Len(r) <= ActiveMax BY <1>1, <1>2
<1> QED BY <1>1, <1>4, <1>5 DEF Lists

\* What taking one off the list leaves: the last one is in its place.
LEMMA EntryErased ==
  ASSUME NEW s \in Lists, NEW i \in Nat
  PROVE  /\ SwapErase(s, i) \in Lists
         /\ i \in DOMAIN s => /\ Len(SwapErase(s, i)) = Len(s) - 1
                              /\ \A k \in 1..(Len(s) - 1) : SwapErase(s, i)[k] = s[IF k = i THEN Len(s) ELSE k]
<1>1. s \in Seq(Entries) BY DEF Lists
<1>2. SwapErase(s, i) \in PicksOf(Entries, s) BY <1>1, SwapErased
<1>3. SwapErase(s, i) \in Lists BY <1>2, ListsPicked
<1> QED BY <1>1, <1>3, SwapErased

\* The loops that take off several keep what a list is.
LEMMA WithoutIsList ==
  ASSUME NEW s \in Lists, NEW gone
  PROVE  Without(s, gone) \in Lists
<1>1. s \in Seq(Entries) BY DEF Lists
<1>2. Without(s, gone) \in PicksOf(Entries, s) BY <1>1, WithoutPicks
<1> QED BY <1>2, ListsPicked

-----------------------------------------------------------------------------
(* Each step keeps the registry. *)
\* Numbering establishes what settled promises, or, beyond the limit, touches no id.
LEMMA AssignKeeps ==
  ASSUME RegistryInv, NEW s \in Seq(Handles), NamesOnce(s), Len(s) <= Len(registry),
         kind # "item" \/ s # <<>> \/ assigned, AssignIds(s), UNCHANGED kind, declared' \subseteq Handles
  PROVE  RegistryInv'
<1> USE DEF RegistryInv
<1>0. Len(s) \in Nat /\ Len(registry) \in Nat BY LenProperties
<1>1. CASE kind = "prefix" /\ Base + Len(s) > PrefixLimit
  <2>1. registry' = s /\ UNCHANGED <<runtimeId, assigned, settled>> BY <1>1 DEF AssignIds
  <2>2. ~settled
    <3>1. settled => Base + Len(registry) <= PrefixLimit BY <1>1 DEF Numbered
    <3> QED BY <1>0, <1>1, <3>1, Constants
  <2> QED BY <2>1, <2>2
<1>2. CASE ~(kind = "prefix" /\ Base + Len(s) > PrefixLimit)
  <2>1. /\ registry' = Sorted(s) /\ settled' = TRUE /\ assigned' = TRUE
        /\ runtimeId' = [h \in Handles |-> IF h \in ToSet(s) THEN Base + Before(h, s) ELSE runtimeId[h]]
    BY <1>2 DEF AssignIds
  <2> DEFINE r == Sorted(s)
  <2>2. /\ r \in Seq(Handles) /\ Len(r) = Len(s) /\ ToSet(r) = ToSet(s) /\ NamesOnce(r)
        /\ \A k \in DOMAIN r : r[k] \in ToSet(s) /\ Before(r[k], s) = k - 1
    BY SortedSorts
  <2> HIDE DEF r
  <2>3. ToSet(s) \subseteq Handles BY RangeOfVector
  <2>4. \A h \in Handles : Base + Before(h, s) \in Ids
    <3> SUFFICES ASSUME NEW h \in Handles PROVE Base + Before(h, s) \in Ids OBVIOUS
    <3>1. Before(h, s) \in Nat /\ Before(h, s) <= Cardinality(Handles) BY BeforeBounds
    <3> DEFINE x == Before(h, s)  c == Cardinality(Handles)
    <3>2. x \in Nat /\ x <= c /\ c \in Nat /\ Base \in Nat BY <3>1, Constants
    <3> HIDE DEF x, c
    <3>3. Base + x \in -1..(Base + c) BY <3>2
    <3> QED BY <3>3 DEF Ids, x, c
  <2>5. runtimeId' \in [Handles -> Ids] BY <2>1, <2>4
  <2>6. \A k \in DOMAIN r : runtimeId'[r[k]] = Base + (k - 1) BY <2>1, <2>2, <2>3
  <2>7. \A h : Before(h, r) = Before(h, s) BY <2>2 DEF Before
  <2>8. \A k \in DOMAIN r : Before(r[k], r) = k - 1 BY <2>2, <2>7
  <2>9. kind = "prefix" => Base + Len(r) <= PrefixLimit BY <1>0, <1>2, <2>2, Constants
  <2>10. registry' = r BY <2>1 DEF r
  <2>11. Numbered' BY <2>1, <2>6, <2>8, <2>9, <2>10 DEF Numbered, Before
  <2> QED BY <2>1, <2>2, <2>5, <2>10, <2>11 DEF NamesOnce
<1> QED BY <1>1, <1>2

\* What unregistering does to the registry: the others are numbered anew, unless
\* nothing is numbered yet.
Erases(i) ==
  /\ i \in DOMAIN registry /\ UNCHANGED kind
  /\ \/ AssignIds(RemoveAt(registry, i)) /\ (assigned \/ kind # "item")
     \/ ~assigned /\ registry' = RemoveAt(registry, i) /\ UNCHANGED <<runtimeId, assigned, settled>>

\* Every form of unregistering is one of these.
LEMMA EraseErases ==
  ASSUME NEW k, NEW i
  PROVE  /\ Erase(k, i, assigned) => Erases(i)
         /\ Erase(k, i, TRUE) /\ k # "item" => Erases(i)
BY DEF Erase, Erases

\* Unregistering keeps the registry.
LEMMA EraseKeeps ==
  ASSUME RegistryInv, NEW i, Erases(i), declared' \subseteq Handles
  PROVE  RegistryInv'
<1> USE DEF RegistryInv
<1> DEFINE s == RemoveAt(registry, i)
<1>1. i \in DOMAIN registry /\ UNCHANGED kind BY DEF Erases
<1>2. s \in Seq(Handles) /\ Len(s) = Len(registry) - 1 /\ NamesOnce(s) BY <1>1, ErasedVector
<1>3. Len(registry) \in Nat BY LenProperties
<1>4. CASE AssignIds(s) /\ (assigned \/ kind # "item")
  <2> HIDE DEF s
  <2>2. Len(s) <= Len(registry) BY <1>2, <1>3
  <2>3. kind # "item" \/ s # <<>> \/ assigned BY <1>4
  <2> QED BY <1>1, <1>2, <1>4, <2>2, <2>3, AssignKeeps
<1>5. CASE ~assigned /\ registry' = s /\ UNCHANGED <<runtimeId, assigned, settled>>
  <2>2. ~settled BY <1>5 DEF Numbered
  <2> HIDE DEF s
  <2> QED BY <1>1, <1>2, <1>5, <2>2
<1> QED BY <1>4, <1>5 DEF Erases

\* A replacement has the name and the id of what it replaces.
LEMMA Replaced ==
  ASSUME RegistryInv, NEW h \in Handles, Replace(h)
  PROVE  /\ registry' \in Seq(Handles) /\ Len(registry') = Len(registry) /\ DOMAIN registry' = DOMAIN registry
         /\ \A k \in DOMAIN registry : /\ NameOf[registry'[k]] = NameOf[registry[k]]
                                      /\ runtimeId'[registry'[k]] = runtimeId[registry[k]]
         /\ runtimeId' \in [Handles -> Ids] /\ settled' = settled
         /\ \E i \in ByName(NameOf[h]) :
              /\ runtimeId'[h] = runtimeId[registry[i]] /\ \A g \in Handles : g # h => runtimeId'[g] = runtimeId[g]
              /\ registry'[i] = h /\ \A k \in DOMAIN registry : k # i => registry'[k] = registry[k]
<1> USE DEF RegistryInv
<1>1. PICK i \in ByName(NameOf[h]) :
        /\ registry' = [registry EXCEPT ![i] = h]
        /\ runtimeId' = [runtimeId EXCEPT ![h] = runtimeId[registry[i]]]
  BY DEF Replace
<1>2. settled' = settled BY DEF Replace
<1>3. i \in DOMAIN registry /\ NameOf[registry[i]] = NameOf[h] BY DEF ByName
<1>4. DOMAIN registry = 1..Len(registry) /\ Len(registry) \in Nat /\ \A k \in DOMAIN registry : registry[k] \in Handles
  BY LenProperties, ElementOfSeq
<1>5. /\ registry' \in Seq(Handles) /\ Len(registry') = Len(registry) /\ DOMAIN registry' = DOMAIN registry
      /\ registry'[i] = h /\ \A k \in DOMAIN registry : k # i => registry'[k] = registry[k]
  BY <1>1, <1>3, <1>4
<1>6. \A k \in DOMAIN registry : NameOf[registry'[k]] = NameOf[registry[k]] BY <1>3, <1>5
<1>8. runtimeId' \in [Handles -> Ids] /\ runtimeId'[h] = runtimeId[registry[i]]
      /\ \A g \in Handles : g # h => runtimeId'[g] = runtimeId[g]
  BY <1>1, <1>3, <1>4
<1>9. \A k \in DOMAIN registry : runtimeId'[registry'[k]] = runtimeId[registry[k]]
  <2> SUFFICES ASSUME NEW k \in DOMAIN registry PROVE runtimeId'[registry'[k]] = runtimeId[registry[k]] OBVIOUS
  <2>1. CASE k = i BY <2>1, <1>5, <1>8
  <2>2. CASE k # i
    <3>1. registry[k] # h BY <2>2, <1>3 DEF NamesOnce
    <3> QED BY <2>2, <3>1, <1>4, <1>5, <1>8
  <2> QED BY <2>1, <2>2
<1> QED BY <1>1, <1>2, <1>5, <1>6, <1>8, <1>9

\* A reload keeps the registry: the order of the names is the same.
LEMMA ReplaceKeeps ==
  ASSUME RegistryInv, NEW h \in Handles, Replace(h), UNCHANGED <<kind, assigned, declared>>
  PROVE  RegistryInv'
<1> USE DEF RegistryInv
<1>2. /\ registry' \in Seq(Handles) /\ Len(registry') = Len(registry) /\ DOMAIN registry' = DOMAIN registry
      /\ runtimeId' \in [Handles -> Ids] /\ settled' = settled
  BY Replaced
<1>6. \A k \in DOMAIN registry : NameOf[registry'[k]] = NameOf[registry[k]] BY Replaced
<1>9. \A k \in DOMAIN registry : runtimeId'[registry'[k]] = runtimeId[registry[k]] BY Replaced
<1>1. PICK i \in ByName(NameOf[h]) :
        /\ runtimeId'[h] = runtimeId[registry[i]] /\ \A g \in Handles : g # h => runtimeId'[g] = runtimeId[g]
        /\ registry'[i] = h /\ \A k \in DOMAIN registry : k # i => registry'[k] = registry[k]
  BY Replaced
<1>3. i \in DOMAIN registry /\ NameOf[registry[i]] = NameOf[h] BY DEF ByName
<1>4. DOMAIN registry = 1..Len(registry) /\ Len(registry) \in Nat /\ \A k \in DOMAIN registry : registry[k] \in Handles
  BY LenProperties, ElementOfSeq
<1>5. /\ registry' \in Seq(Handles) /\ Len(registry') = Len(registry) /\ DOMAIN registry' = DOMAIN registry
      /\ registry'[i] = h /\ \A k \in DOMAIN registry : k # i => registry'[k] = registry[k]
  BY <1>1, <1>2
<1>7. NamesOnce(registry') BY <1>5, <1>6 DEF NamesOnce
<1>8. runtimeId' \in [Handles -> Ids] /\ runtimeId'[h] = runtimeId[registry[i]]
      /\ \A g \in Handles : g # h => runtimeId'[g] = runtimeId[g]
  BY <1>1, <1>2
<1>10. ASSUME NEW k \in DOMAIN registry PROVE Before(registry'[k], registry') = Before(registry[k], registry)
  <2> DEFINE old == {g \in ToSet(registry) : NameOf[g] < NameOf[registry[k]]}
             new == {g \in ToSet(registry') : NameOf[g] < NameOf[registry'[k]]}
             f == [g \in old |-> IF g = registry[i] THEN h ELSE g]
  <2>1. new = {f[g] : g \in old}
    <3>1. ASSUME NEW j \in DOMAIN registry, NameOf[registry[j]] < NameOf[registry[k]]
          PROVE  registry[j] \in old /\ f[registry[j]] = registry'[j]
      <4>1. registry[j] \in old BY <3>1 DEF ToSet
      <4>2. CASE j = i BY <4>1, <4>2, <1>5
      <4>3. CASE j # i
        <5>1. registry[j] # registry[i] BY <4>3, <1>3 DEF NamesOnce
        <5> QED BY <4>1, <4>3, <5>1, <1>5
      <4> QED BY <4>1, <4>2, <4>3
    <3>2. \A j \in DOMAIN registry : NameOf[registry'[j]] < NameOf[registry'[k]] <=> NameOf[registry[j]] < NameOf[registry[k]]
      BY <1>6
    <3>3. new = {registry'[j] : j \in {n \in DOMAIN registry : NameOf[registry[n]] < NameOf[registry[k]]}}
      BY <1>5, <3>2 DEF ToSet
    <3>4. old = {registry[j] : j \in {n \in DOMAIN registry : NameOf[registry[n]] < NameOf[registry[k]]}}
      BY DEF ToSet
    <3> HIDE DEF old, new, f
    <3>5. ASSUME NEW x \in new PROVE x \in {f[g] : g \in old}
      <4>1. PICK j \in DOMAIN registry : NameOf[registry[j]] < NameOf[registry[k]] /\ x = registry'[j] BY <3>3
      <4> QED BY <3>1, <4>1
    <3>6. ASSUME NEW g \in old PROVE f[g] \in new
      <4>1. PICK j \in DOMAIN registry : NameOf[registry[j]] < NameOf[registry[k]] /\ g = registry[j] BY <3>4
      <4>2. f[g] = registry'[j] BY <3>1, <4>1
      <4> QED BY <3>3, <4>1, <4>2
    <3> QED BY <3>5, <3>6
  <2>2. \A x, y \in old : f[x] = f[y] => x = y
    <3>1. \A x \in old : \E j \in DOMAIN registry : x = registry[j] BY DEF ToSet
    <3>2. \A x \in old : x = h => x = registry[i] BY <1>3, <3>1 DEF NamesOnce
    <3> QED BY <3>2
  <2>3. f \in Surjection(old, new)
    <3> HIDE DEF old, new
    <3>1. \A g \in old : f[g] \in new BY <2>1
    <3>2. f \in [old -> new] BY <3>1
    <3> HIDE DEF f
    <3> QED BY <2>1, <3>2 DEF Surjection
  <2>4. f \in Injection(old, new)
    <3> HIDE DEF old, new, f
    <3> QED BY <2>2, <2>3 DEF Injection, IsInjective, Surjection
  <2>5. IsFiniteSet(old)
    <3>1. ToSet(registry) \subseteq Handles BY <1>4 DEF ToSet
    <3>2. old \subseteq Handles BY <3>1
    <3> QED BY <3>2, Constants, FS_Subset
  <2>6. Before(registry[k], registry) = Cardinality(old) /\ Before(registry'[k], registry') = Cardinality(new)
    BY DEF Before
  <2> HIDE DEF old, new, f
  <2>7. Cardinality(new) = Cardinality(old) BY <2>3, <2>4, <2>5, FS_Surjection
  <2> QED BY <2>6, <2>7
<1>11. settled => Numbered' BY <1>5, <1>9, <1>10 DEF Numbered, Before
<1>12. ~assigned => \A g \in Handles : runtimeId'[g] = -1 BY <1>3, <1>4, <1>8
<1> QED BY <1>2, <1>5, <1>7, <1>8, <1>11, <1>12

\* A new handle goes to the end, and nothing is settled any more.
LEMMA AppendKeeps ==
  ASSUME RegistryInv, NEW h \in Handles, Append1(h), UNCHANGED <<kind, assigned, declared>>
  PROVE  RegistryInv'
<1> USE DEF RegistryInv
<1>1. registry' = Append(registry, h) /\ settled' = FALSE /\ runtimeId' = runtimeId BY DEF Append1
<1>2. DOMAIN registry = 1..Len(registry) /\ Len(registry) \in Nat BY LenProperties
<1>3. /\ registry' \in Seq(Handles) /\ Len(registry') = Len(registry) + 1
      /\ registry'[Len(registry)+1] = h /\ \A k \in 1..Len(registry) : registry'[k] = registry[k]
  BY <1>1, AppendProperties
<1>4. DOMAIN registry' = 1..(Len(registry)+1) BY <1>3, LenProperties
<1>5. \A k \in DOMAIN registry : NameOf[registry[k]] # NameOf[h] BY DEF Append1, ByName
<1>6. NamesOnce(registry')
  <2> SUFFICES ASSUME NEW i \in 1..(Len(registry)+1), NEW j \in 1..(Len(registry)+1),
                      NameOf[registry'[i]] = NameOf[registry'[j]]
               PROVE  i = j
    BY <1>4 DEF NamesOnce
  <2>1. (i \in 1..Len(registry) \/ i = Len(registry) + 1) /\ (j \in 1..Len(registry) \/ j = Len(registry) + 1)
    BY <1>2
  <2> QED BY <2>1, <1>2, <1>3, <1>5 DEF NamesOnce
<1> QED BY <1>1, <1>3, <1>6

\* Registering, whichever the registry.
LEMMA RegisterKeeps ==
  ASSUME RegistryInv, NEW h \in Handles, RegisterAny(h)
  PROVE  RegistryInv' /\ UNCHANGED <<kind, assigned, declared, active, tick>>
<1>1. PICK k : Register(k, h)
  BY DEF RegisterAny, RegisterItem, RegisterBuff, RegisterNpc, RegisterProjectile, RegisterPrefix
<1>2. UNCHANGED <<kind, assigned, declared, active, tick>> BY <1>1 DEF Register
<1>3. CASE Replace(h) BY <1>2, <1>3, ReplaceKeeps
<1>4. CASE Append1(h) BY <1>2, <1>4, AppendKeeps
<1> QED BY <1>1, <1>2, <1>3, <1>4 DEF Register

\* Unregistering, whichever the registry and by id or by handle.
LEMMA UnregisterKeeps ==
  ASSUME RegistryInv, active \in Lists, UnregisterAny
  PROVE  /\ RegistryInv' /\ active' \in Lists /\ (AfterCall \/ UNCHANGED <<active, tick>>)
         /\ \E i \in DOMAIN registry : Erases(i)
<1> DEFINE Fits == /\ declared' \subseteq declared
                   /\ \/ UNCHANGED <<active, tick>>
                      \/ AfterCall /\ (active' = active \/ \E gone : active' = Without(active, gone))
<1>1. PICK i : Erases(i) /\ Fits
  <2>1. ASSUME NEW h \in Handles, UnregisterItem(h) \/ UnregisterBuff(h) \/ UnregisterNpc(h) \/ UnregisterProjectile(h)
        PROVE  \E i : Erases(i) /\ Fits
    <3>1. CASE UnregisterItem(h)
      <4>1. Erases(Position(h)) BY <3>1, EraseErases DEF UnregisterItem
      <4>2. Fits BY <3>1 DEF UnregisterItem
      <4> QED BY <4>1, <4>2
    <3>2. CASE UnregisterBuff(h)
      <4>1. Erases(Position(h)) BY <3>2, EraseErases DEF UnregisterBuff
      <4>2. Fits BY <3>2 DEF UnregisterBuff, ClearActiveOf
      <4> QED BY <4>1, <4>2
    <3>3. CASE UnregisterNpc(h)
      <4>1. Erases(Position(h)) BY <3>3, EraseErases DEF UnregisterNpc
      <4>2. Fits BY <3>3 DEF UnregisterNpc
      <4> QED BY <4>1, <4>2
    <3>4. CASE UnregisterProjectile(h)
      <4>1. Erases(Position(h)) BY <3>4, EraseErases DEF UnregisterProjectile
      <4>2. Fits BY <3>4 DEF UnregisterProjectile
      <4> QED BY <4>1, <4>2
    <3> QED BY <2>1, <3>1, <3>2, <3>3, <3>4
  <2>2. ASSUME NEW id \in Ids, UnregisterItemById(id) \/ UnregisterBuffById(id) \/ UnregisterNpcById(id)
                               \/ UnregisterProjectileById(id) \/ UnregisterPrefixById(id)
        PROVE  \E i : Erases(i) /\ Fits
    <3>1. CASE UnregisterItemById(id)
      <4>1. PICK i \in FirstWith(id) : Erase("item", i, assigned) /\ Fits BY <3>1 DEF UnregisterItemById
      <4>2. Erases(i) BY <4>1, EraseErases
      <4> QED BY <4>1, <4>2
    <3>2. CASE UnregisterBuffById(id)
      <4>1. PICK i \in FirstWith(id) : Erase("buff", i, TRUE) BY <3>2 DEF UnregisterBuffById
      <4>2. Erases(i) BY <4>1, EraseErases
      <4>3. Fits BY <3>2 DEF UnregisterBuffById, ClearActiveOf
      <4> QED BY <4>2, <4>3
    <3>3. CASE UnregisterNpcById(id)
      <4>1. PICK i \in FirstWith(id) : Erase("npc", i, TRUE) /\ Fits BY <3>3 DEF UnregisterNpcById
      <4>2. Erases(i) BY <4>1, EraseErases
      <4> QED BY <4>1, <4>2
    <3>4. CASE UnregisterProjectileById(id)
      <4>1. PICK i \in FirstWith(id) : Erase("projectile", i, TRUE) /\ Fits BY <3>4 DEF UnregisterProjectileById
      <4>2. Erases(i) BY <4>1, EraseErases
      <4> QED BY <4>1, <4>2
    <3>5. CASE UnregisterPrefixById(id)
      <4>1. PICK i \in FirstWith(id) : Erase("prefix", i, TRUE) /\ Fits BY <3>5 DEF UnregisterPrefixById
      <4>2. Erases(i) BY <4>1, EraseErases
      <4> QED BY <4>1, <4>2
    <3> QED BY <2>2, <3>1, <3>2, <3>3, <3>4, <3>5
  <2> QED BY <2>1, <2>2 DEF UnregisterAny
<1>2. declared' \subseteq Handles BY <1>1 DEF RegistryInv
<1>3. RegistryInv' BY <1>1, <1>2, EraseKeeps
<1>4. i \in DOMAIN registry BY <1>1 DEF Erases
<1>5. active' \in Lists BY <1>1, WithoutIsList
<1> QED BY <1>1, <1>3, <1>4, <1>5

-----------------------------------------------------------------------------
\* Adding a buff prolongs it or puts it at the end.
LEMMA PutAtEnd ==
  ASSUME NEW s \in Lists, NEW e \in Entries, Len(s) < ActiveMax,
         \A k \in DOMAIN s : ~(s[k].who = e.who /\ s[k].id = e.id)
  PROVE  /\ Append(s, e) \in Lists /\ Len(Append(s, e)) = Len(s) + 1
         /\ \A k \in 1..Len(s) : Append(s, e)[k] = s[k]
<1>0. s \in Seq(Entries) /\ Once(s) BY DEF Lists
<1>00. DOMAIN s = 1..Len(s) /\ Len(s) \in Nat BY <1>0, LenProperties
<1> DEFINE r == Append(s, e)
<1>1. /\ r \in Seq(Entries) /\ Len(r) = Len(s) + 1 /\ r[Len(s)+1] = e /\ \A k \in 1..Len(s) : r[k] = s[k]
  BY <1>0, AppendProperties
<1> HIDE DEF r
<1>2. DOMAIN r = 1..(Len(s)+1) BY <1>1, LenProperties
<1>3. Once(r)
  <2> SUFFICES ASSUME NEW j \in 1..(Len(s)+1), NEW k \in 1..(Len(s)+1), r[j].who = r[k].who, r[j].id = r[k].id
               PROVE  j = k
    BY <1>2 DEF Once
  <2>1. (j \in 1..Len(s) \/ j = Len(s) + 1) /\ (k \in 1..Len(s) \/ k = Len(s) + 1) BY <1>00
  <2> QED BY <2>1, <1>0, <1>00, <1>1 DEF Once
<1>4. Len(r) <= ActiveMax BY <1>00, <1>1, Constants
<1> QED BY <1>1, <1>3, <1>4 DEF Lists, r

\* Counting down or prolonging changes the times only.
LEMMA NewTimes ==
  ASSUME NEW s \in Lists, NEW r, r \in [DOMAIN s -> Entries],
         \A k \in DOMAIN s : r[k].who = s[k].who /\ r[k].id = s[k].id
  PROVE  r \in Lists /\ Len(r) = Len(s)
<1>0. s \in Seq(Entries) /\ Once(s) BY DEF Lists
<1>00. DOMAIN s = 1..Len(s) /\ Len(s) \in Nat /\ Len(s) <= ActiveMax BY <1>0, LenProperties DEF Lists
<1>1. r \in Seq(Entries) /\ Len(r) = Len(s) /\ DOMAIN r = 1..Len(s) BY <1>00
<1>2. Once(r) BY <1>0, <1>00, <1>1 DEF Once
<1> QED BY <1>00, <1>1, <1>2 DEF Lists

\* terraria_buff_manager_add keeps what a list is.
LEMMA AddedIsList ==
  ASSUME active \in Lists, NEW h \in Handles, NEW p \in Players, NEW t \in 1..MaxTime,
         runtimeId \in [Handles -> Ids], runtimeId[h] >= 0
  PROVE  Added(h, p, t) \in Lists
<1> DEFINE mine == {i \in DOMAIN active : active[i].who = p /\ active[i].id = runtimeId[h]}
           e == [who |-> p, id |-> runtimeId[h], time |-> t]
           longer == [i \in DOMAIN active |-> IF i \in mine /\ active[i].time < t THEN [active[i] EXCEPT !.time = t] ELSE active[i]]
<1>0. active \in Seq(Entries) /\ DOMAIN active = 1..Len(active) /\ Len(active) \in Nat
      /\ \A k \in DOMAIN active : active[k] \in Entries
  BY ElementOfSeq, LenProperties DEF Lists
<1>1. runtimeId[h] \in Ids \ {-1} OBVIOUS
<1>2. e \in Entries BY <1>1 DEF Entries
<1>3. CASE mine # {}
  <2>1. \A k \in DOMAIN active : /\ longer[k] \in Entries
                                 /\ longer[k].who = active[k].who /\ longer[k].id = active[k].id
    <3> SUFFICES ASSUME NEW k \in DOMAIN active
                 PROVE  longer[k] \in Entries /\ longer[k].who = active[k].who /\ longer[k].id = active[k].id
      OBVIOUS
    <3>1. active[k] \in Entries BY <1>0
    <3>2. [active[k] EXCEPT !.time = t] \in Entries /\ [active[k] EXCEPT !.time = t].who = active[k].who
          /\ [active[k] EXCEPT !.time = t].id = active[k].id
      BY <3>1 DEF Entries
    <3>3. longer[k] = active[k] \/ longer[k] = [active[k] EXCEPT !.time = t] OBVIOUS
    <3> QED BY <3>1, <3>2, <3>3
  <2>2. longer \in [DOMAIN active -> Entries] BY <2>1
  <2>3. Added(h, p, t) = longer BY <1>3 DEF Added
  <2> HIDE DEF longer
  <2> QED BY <2>1, <2>2, <2>3, NewTimes
<1>4. CASE mine = {}
  <2>1. \A k \in DOMAIN active : ~(active[k].who = e.who /\ active[k].id = e.id) BY <1>4
  <2>2. Added(h, p, t) = IF Len(active) >= ActiveMax THEN active ELSE Append(active, e) BY <1>4 DEF Added
  <2> HIDE DEF e
  <2>3. CASE Len(active) >= ActiveMax BY <2>2, <2>3
  <2>4. CASE ~(Len(active) >= ActiveMax)
    <3>1. Len(active) < ActiveMax BY <1>0, <2>4, Constants
    <3> QED BY <1>2, <2>1, <2>2, <2>4, <3>1, PutAtEnd
  <2> QED BY <2>3, <2>4
<1> QED BY <1>3, <1>4

-----------------------------------------------------------------------------
(* Each step keeps what a tick owes. *)
\* What a tick is, and its entry.
LEMMA InTick ==
  ASSUME TickInv, tick # NoTick
  PROVE  /\ active \in Lists /\ active \in Seq(Entries) /\ Len(active) <= ActiveMax
         /\ DOMAIN active = 1..Len(active) /\ Len(active) \in Nat
         /\ \A k \in DOMAIN active : active[k] \in Entries
         /\ tick \in Ticks
         /\ ~tick.moved => \A id \in tick.owed : Owes(id, Looks(tick), tick.who, active)
BY ElementOfSeq, LenProperties DEF Lists, TickInv

\* A step of a tick that is not in a callback keeps what its new index and list make of it.
LEMMA TickGoesOn ==
  ASSUME TickInv, tick # NoTick, active' \in Lists, NEW i \in 1..(ActiveMax + 1), NEW calling \in BOOLEAN,
         NEW owed \in SUBSET Ids, calling => i <= ActiveMax,
         tick' = [tick EXCEPT !.i = i, !.calling = calling, !.owed = owed],
         ~tick.moved => \A id \in owed : Owes(id, IF calling THEN i + 1 ELSE i, tick.who, active')
  PROVE  TickInv'
<1>1. tick \in Ticks BY InTick
<1>2. tick' \in Ticks /\ tick'.i = i /\ tick'.calling = calling /\ tick'.owed = owed
      /\ tick'.who = tick.who /\ tick'.moved = tick.moved
  BY <1>1 DEF Ticks
<1> QED BY <1>2 DEF TickInv, Looks

\* A call of a mod: if it moved nothing that was passed, what is owed is still ahead, for the
\* list has each buff once.
LEMMA CallKeeps ==
  ASSUME TickInv, tick = NoTick \/ tick.calling, active' \in Lists, AfterCall \/ UNCHANGED <<active, tick>>
  PROVE  TickInv'
<1>1. CASE UNCHANGED <<active, tick>> BY <1>1 DEF TickInv
<1>2. CASE AfterCall /\ tick = NoTick
  <2>1. NoTick.owed = {} /\ NoTick.i = 0 /\ NoTick.moved = FALSE BY DEF NoTick
  <2>2. {id \in NoTick.owed : \E a \in ToSet(active') : a.who = tick.who /\ a.id = id} = NoTick.owed BY <2>1
  <2>3. (NoTick.moved \/ \E k \in 1..NoTick.i : k \in DOMAIN active /\ ~Stays(k)) = NoTick.moved
    <3>1. 1..0 = {} OBVIOUS
    <3>2. ~\E k \in 1..NoTick.i : k \in DOMAIN active /\ ~Stays(k)
      <4>1. 1..NoTick.i = {} BY <2>1, <3>1
      <4> QED BY ONLY <4>1, Zenon
    <3> DEFINE none == \E k \in 1..NoTick.i : k \in DOMAIN active /\ ~Stays(k)
    <3> HIDE DEF none
    <3>3. none = FALSE BY <3>2 DEF none
    <3>4. (NoTick.moved \/ none) = NoTick.moved BY <2>1, <3>3
    <3> QED BY ONLY <3>4 DEF none
  <2>4. tick' = [NoTick EXCEPT !.owed = NoTick.owed, !.moved = NoTick.moved] BY <1>2, <2>2, <2>3 DEF AfterCall
  <2>5. tick' = NoTick BY <2>4 DEF NoTick
  <2> QED BY <2>5 DEF TickInv
<1>3. CASE AfterCall /\ tick # NoTick
  <2>0. /\ tick.calling /\ tick \in Ticks /\ tick.i <= ActiveMax
        /\ DOMAIN active = 1..Len(active) /\ Len(active) \in Nat
        /\ ~tick.moved => \A id \in tick.owed : Owes(id, tick.i + 1, tick.who, active)
    BY <1>3, InTick DEF TickInv, Looks
  <2> DEFINE owed == {id \in tick.owed : \E a \in ToSet(active') : a.who = tick.who /\ a.id = id}
             moved == tick.moved \/ \E k \in 1..tick.i : k \in DOMAIN active /\ ~Stays(k)
  <2>1. tick' = [tick EXCEPT !.owed = owed, !.moved = moved] BY <1>3 DEF AfterCall
  <2>2. owed \subseteq tick.owed /\ moved \in BOOLEAN BY <2>0 DEF Ticks
  <2>3. ASSUME ~moved, NEW id \in owed PROVE Owes(id, tick.i + 1, tick.who, active')
    <3>1. PICK j \in DOMAIN active' : active'[j].who = tick.who /\ active'[j].id = id BY DEF ToSet
    <3>2. DOMAIN active' = 1..Len(active') /\ Len(active') \in Nat BY LenProperties DEF Lists
    <3>3. PICK m \in DOMAIN active : m >= tick.i + 1 /\ active[m].who = tick.who /\ active[m].id = id
      BY <2>0, <2>3 DEF Owes
    <3>4. tick.i \in Nat BY <2>0 DEF Ticks
    <3>5. ASSUME j <= tick.i PROVE FALSE
      <4>1. j \in 1..tick.i /\ j \in DOMAIN active /\ j # m BY <2>0, <3>2, <3>3, <3>4, <3>5
      <4>2. Stays(j) BY <2>3, <4>1
      <4>3. active[j].who = active[m].who /\ active[j].id = active[m].id BY <3>1, <3>3, <4>2 DEF Stays
      <4> QED BY <3>3, <4>1, <4>3 DEF TickInv, Lists, Once
    <3>6. j >= tick.i + 1 BY <3>2, <3>4, <3>5
    <3> QED BY <3>1, <3>6 DEF Owes
  <2> HIDE DEF owed, moved
  <2>4. tick' \in Ticks /\ tick'.calling /\ tick'.i = tick.i /\ tick'.owed = owed /\ tick'.moved = moved
        /\ tick'.who = tick.who
    BY <2>0, <2>1, <2>2 DEF Ticks
  <2> QED BY <2>0, <2>3, <2>4 DEF TickInv, Looks
<1> QED BY <1>1, <1>2, <1>3

\* A buff of another player is passed over: nothing owed was there.
LEMMA TickSkipKeeps ==
  ASSUME TickInv, tick # NoTick, ~tick.calling, TickSkip PROVE TickInv'
<1>0. /\ active \in Lists /\ DOMAIN active = 1..Len(active) /\ Len(active) \in Nat /\ Len(active) <= ActiveMax
      /\ tick \in Ticks
      /\ ~tick.moved => \A id \in tick.owed : Owes(id, tick.i, tick.who, active)
  BY InTick DEF Looks
<1>1. /\ tick.i \in DOMAIN active /\ active[tick.i].who # tick.who /\ active' = active
      /\ tick' = [tick EXCEPT !.i = @ + 1]
  BY DEF TickSkip
<1> DEFINE i == tick.i + 1
<1>2. tick' = [tick EXCEPT !.i = i, !.calling = FALSE, !.owed = tick.owed] BY <1>0, <1>1 DEF Ticks
<1>3. i \in 1..(ActiveMax + 1) BY <1>0, <1>1, Constants
<1>4. ASSUME ~tick.moved, NEW id \in tick.owed PROVE Owes(id, i, tick.who, active)
  <2>1. PICK j \in DOMAIN active : j >= tick.i /\ active[j].who = tick.who /\ active[j].id = id
    BY <1>0, <1>4 DEF Owes
  <2>2. j # tick.i BY <1>1, <2>1
  <2>3. j >= i BY <1>0, <1>1, <2>1, <2>2
  <2> QED BY <2>1, <2>3 DEF Owes
<1>5. tick.owed \in SUBSET Ids BY <1>0 DEF Ticks
<1> HIDE DEF i
<1>6. FALSE \in BOOLEAN /\ (FALSE => i <= ActiveMax) OBVIOUS
<1>7. ~tick.moved => \A id \in tick.owed : Owes(id, IF FALSE THEN i + 1 ELSE i, tick.who, active') BY <1>1, <1>4
<1>8. active' \in Lists BY <1>0, <1>1
<1> QED BY <1>2, <1>3, <1>5, <1>6, <1>7, <1>8, TickGoesOn

\* The entry moved in is looked at next, so that it is owed at the same index.
LEMMA TickDropKeeps ==
  ASSUME TickInv, tick # NoTick, ~tick.calling, TickDrop PROVE TickInv'
<1>0. /\ active \in Lists /\ DOMAIN active = 1..Len(active) /\ Len(active) \in Nat /\ tick \in Ticks
      /\ ~tick.moved => \A id \in tick.owed : Owes(id, tick.i, tick.who, active)
  BY InTick DEF Looks
<1> DEFINE a == active[tick.i]  r == SwapErase(active, tick.i)  owed == tick.owed \ {a.id}
<1>1. tick.i \in DOMAIN active /\ a.who = tick.who /\ active' = r /\ tick' = [tick EXCEPT !.owed = @ \ {a.id}]
  BY DEF TickDrop
<1>2. tick.i \in Nat BY <1>0 DEF Ticks
<1>3. /\ r \in Lists /\ Len(r) = Len(active) - 1
      /\ \A k \in 1..(Len(active) - 1) : r[k] = active[IF k = tick.i THEN Len(active) ELSE k]
  BY <1>0, <1>1, <1>2, EntryErased
<1>3a. DOMAIN r = 1..(Len(active) - 1) BY <1>3, LenProperties DEF Lists
<1> HIDE DEF r
<1>4. tick' = [tick EXCEPT !.i = tick.i, !.calling = FALSE, !.owed = owed] BY <1>0, <1>1 DEF Ticks
<1>5. tick.i \in 1..(ActiveMax + 1) BY <1>0 DEF Ticks
<1>6. ASSUME ~tick.moved, NEW id \in owed PROVE Owes(id, tick.i, tick.who, r)
  <2>1. PICK j \in DOMAIN active : j >= tick.i /\ active[j].who = tick.who /\ active[j].id = id
    BY <1>0, <1>6 DEF Owes
  <2>2. j # tick.i BY <2>1
  <2>3. CASE j = Len(active)
    <3>1. tick.i \in 1..(Len(active)-1) /\ r[tick.i] = active[j] /\ tick.i >= tick.i BY <1>0, <1>1, <1>3, <2>1, <2>2, <2>3
    <3> QED BY <1>3a, <2>1, <3>1 DEF Owes
  <2>4. CASE j # Len(active)
    <3>1. j \in 1..(Len(active)-1) /\ r[j] = active[j] BY <1>0, <1>3, <2>2, <2>4
    <3> QED BY <1>3a, <2>1, <3>1 DEF Owes
  <2> QED BY <2>3, <2>4
<1>7. owed \in SUBSET Ids BY <1>0 DEF Ticks
<1> HIDE DEF owed
<1>8. FALSE \in BOOLEAN /\ (FALSE => tick.i <= ActiveMax) OBVIOUS
<1>9. ~tick.moved => \A id \in owed : Owes(id, IF FALSE THEN tick.i + 1 ELSE tick.i, tick.who, active')
  BY <1>1, <1>6
<1>10. active' \in Lists BY <1>1, <1>3
<1> QED BY <1>4, <1>5, <1>7, <1>8, <1>9, <1>10, TickGoesOn

\* Counting down changes a time; the callback begins with the rest of the list ahead.
LEMMA TickCountKeeps ==
  ASSUME TickInv, tick # NoTick, ~tick.calling, TickCount
  PROVE  TickInv'
<1>0. /\ active \in Lists /\ DOMAIN active = 1..Len(active) /\ Len(active) \in Nat /\ Len(active) <= ActiveMax
      /\ \A k \in DOMAIN active : active[k] \in Entries
      /\ tick \in Ticks
      /\ ~tick.moved => \A id \in tick.owed : Owes(id, tick.i, tick.who, active)
  BY InTick DEF Looks
<1> DEFINE a == active[tick.i]  down == [active EXCEPT ![tick.i].time = @ - 1]  owed == tick.owed \ {a.id}
<1>1. /\ tick.i \in DOMAIN active /\ a.who = tick.who /\ a.time > 1
      /\ tick' = [tick EXCEPT !.calling = TRUE, !.owed = @ \ {a.id}]
      /\ active' = down
  BY DEF TickCount
<1>3. \A k \in DOMAIN active : down[k] \in Entries /\ down[k].who = active[k].who /\ down[k].id = active[k].id
  <2> SUFFICES ASSUME NEW k \in DOMAIN active
               PROVE  down[k] \in Entries /\ down[k].who = active[k].who /\ down[k].id = active[k].id
    OBVIOUS
  <2>1. active[k] \in Entries BY <1>0
  <2>2. CASE k = tick.i
    <3>1. active[k].time - 1 \in 1..MaxTime BY <1>1, <2>1, <2>2, Constants DEF Entries
    <3>2. down[k] = [active[k] EXCEPT !.time = @ - 1] BY <2>2
    <3>3. [active[k] EXCEPT !.time = @ - 1] \in Entries /\ [active[k] EXCEPT !.time = @ - 1].who = active[k].who
          /\ [active[k] EXCEPT !.time = @ - 1].id = active[k].id
      BY <2>1, <3>1 DEF Entries
    <3> QED BY <3>2, <3>3
  <2>3. CASE k # tick.i BY <2>1, <2>3
  <2> QED BY <2>2, <2>3
<1>4. down \in [DOMAIN active -> Entries] BY <1>3
<1> HIDE DEF down
<1>5. down \in Lists /\ Len(down) = Len(active) /\ DOMAIN down = DOMAIN active BY <1>0, <1>3, <1>4, NewTimes
<1>6. tick' = [tick EXCEPT !.i = tick.i, !.calling = TRUE, !.owed = owed] BY <1>0, <1>1 DEF Ticks
<1>7. tick.i \in 1..(ActiveMax + 1) /\ tick.i <= ActiveMax BY <1>0, <1>1, Constants
<1>8. ASSUME ~tick.moved, NEW id \in owed PROVE Owes(id, tick.i + 1, tick.who, active')
  <2>1. PICK j \in DOMAIN active : j >= tick.i /\ active[j].who = tick.who /\ active[j].id = id
    BY <1>0, <1>8 DEF Owes
  <2>2. j # tick.i BY <2>1
  <2>3. j >= tick.i + 1 BY <1>0, <1>1, <2>1, <2>2
  <2>4. j \in DOMAIN active' /\ active'[j].who = tick.who /\ active'[j].id = id BY <1>1, <1>3, <1>5, <2>1
  <2> QED BY <2>3, <2>4 DEF Owes
<1>9. owed \in SUBSET Ids BY <1>0 DEF Ticks
<1> HIDE DEF owed
<1>10. TRUE \in BOOLEAN /\ (TRUE => tick.i <= ActiveMax) BY <1>7
<1>11. ~tick.moved => \A id \in owed : Owes(id, IF TRUE THEN tick.i + 1 ELSE tick.i, tick.who, active') BY <1>8
<1>12. active' \in Lists BY <1>1, <1>5
<1> QED BY <1>6, <1>7, <1>9, <1>10, <1>11, <1>12, TickGoesOn

\* The callback returns to the index behind.
LEMMA TickReturnKeeps ==
  ASSUME TickInv, tick.calling, TickReturn PROVE TickInv'
<1>0. tick # NoTick BY DEF NoTick
<1>1. /\ tick \in Ticks /\ tick.i <= ActiveMax /\ active \in Lists
      /\ ~tick.moved => \A id \in tick.owed : Owes(id, tick.i + 1, tick.who, active)
  BY <1>0, InTick DEF TickInv, Looks
<1>2. tick' = [tick EXCEPT !.i = tick.i + 1, !.calling = FALSE, !.owed = tick.owed] /\ active' = active
  BY <1>1 DEF TickReturn, Ticks
<1> DEFINE i == tick.i + 1
<1>3. i \in 1..(ActiveMax + 1) /\ tick.owed \in SUBSET Ids BY <1>1, Constants DEF Ticks
<1> HIDE DEF i
<1>4. FALSE \in BOOLEAN /\ (FALSE => i <= ActiveMax) OBVIOUS
<1>5. ~tick.moved => \A id \in tick.owed : Owes(id, IF FALSE THEN i + 1 ELSE i, tick.who, active') BY <1>1, <1>2 DEF i
<1>6. active' \in Lists /\ tick' = [tick EXCEPT !.i = i, !.calling = FALSE, !.owed = tick.owed] BY <1>1, <1>2 DEF i
<1> QED BY <1>0, <1>3, <1>4, <1>5, <1>6, TickGoesOn

-----------------------------------------------------------------------------
\* Between ticks nothing is owed.
LEMMA Idle ==
  ASSUME active' \in Lists, tick' = NoTick PROVE TickInv'
BY DEF TickInv

\* The empty registry.
LEMMA ContentStart == ContentInit => ContentInv
<1> SUFFICES ASSUME ContentInit PROVE ContentInv OBVIOUS
<1> USE DEF ContentInit
<1>1. registry = <<>> /\ registry \in Seq(Handles) /\ DOMAIN registry = {} OBVIOUS
<1>2. NamesOnce(registry) BY <1>1 DEF NamesOnce
<1>3. \A h \in Handles : runtimeId[h] = -1 OBVIOUS
<1>4. runtimeId \in [Handles -> Ids]
  <2>1. -1 \in Ids
    <3> DEFINE c == Cardinality(Handles)
    <3>1. c \in Nat /\ Base \in Nat BY Constants
    <3> HIDE DEF c
    <3>2. -1 \in -1..(Base + c) BY <3>1
    <3> QED BY <3>2 DEF Ids, c
  <2> QED BY <2>1
<1>5. RegistryInv BY <1>1, <1>2, <1>3, <1>4 DEF RegistryInv
<1>6. active = <<>> /\ active \in Seq(Entries) /\ DOMAIN active = {} /\ Len(active) = 0 OBVIOUS
<1>7. active \in Lists BY <1>6, Constants DEF Lists, Once
<1>8. TickInv BY <1>7 DEF TickInv
<1> QED BY <1>5, <1>8 DEF ContentInv

\* A tick begins by owing what is on the list.
LEMMA TickBeginKeeps ==
  ASSUME TickInv, NEW p \in Players, TickBegin(p) PROVE TickInv'
<1>1. active \in Lists BY DEF TickInv
<1>2. active \in Seq(Entries) /\ \A k \in DOMAIN active : active[k] \in Entries
  BY <1>1, ElementOfSeq, LenProperties DEF Lists
<1>3. DOMAIN active = 1..Len(active) /\ Len(active) \in Nat BY <1>2, LenProperties
<1> DEFINE owed == {a.id : a \in {b \in ToSet(active) : b.who = p}}
<1>4. tick' = [who |-> p, i |-> 1, calling |-> FALSE, moved |-> FALSE, owed |-> owed] /\ active' = active
  BY DEF TickBegin
<1>5. owed \in SUBSET Ids /\ \A id \in owed : Owes(id, 1, p, active)
  <2> SUFFICES ASSUME NEW id \in owed PROVE id \in Ids /\ Owes(id, 1, p, active) OBVIOUS
  <2>1. PICK k \in DOMAIN active : active[k].who = p /\ active[k].id = id BY DEF ToSet
  <2>2. active[k] \in Entries BY <1>2
  <2>3. id \in Ids BY <2>1, <2>2 DEF Entries
  <2>4. k >= 1 BY <1>3
  <2> QED BY <2>1, <2>3, <2>4 DEF Owes
<1> HIDE DEF owed
<1>6. 1 \in 1..(ActiveMax + 1) BY Constants
<1>7. tick' \in Ticks /\ tick'.i = 1 /\ ~tick'.calling /\ tick'.owed = owed /\ tick'.who = p
  BY <1>4, <1>5, <1>6 DEF Ticks
<1> QED BY <1>1, <1>4, <1>5, <1>7 DEF TickInv, Looks

\* An operation on the active list leaves the registry alone.
LEMMA RegistryStays ==
  ASSUME RegistryInv, UNCHANGED <<kind, registry, runtimeId, assigned, declared, settled>>
  PROVE  RegistryInv'
BY DEF RegistryInv, NamesOnce, Numbered, Before

\* Every step keeps both parts.
LEMMA ContentStep ==
  ASSUME ContentInv, [ContentNext]_contentVars PROVE ContentInv'
<1> USE DEF ContentInv
<1>0. RegistryInv /\ active \in Lists /\ runtimeId \in [Handles -> Ids] BY DEF TickInv, RegistryInv
<1>1. ASSUME tick = NoTick \/ tick.calling, ModCall PROVE ContentInv'
  <2>1. ASSUME NEW h \in Handles, RegisterAny(h) PROVE ContentInv'
    <3>1. RegistryInv' /\ active' = active /\ tick' = tick BY <2>1, RegisterKeeps
    <3> QED BY <3>1 DEF TickInv
  <2>2. ASSUME NEW h \in Handles, DeclarePrefixClass(h) PROVE ContentInv'
    <3>1. active' = active /\ tick' = tick BY <2>2 DEF DeclarePrefixClass
    <3>2. RegistryInv' BY <2>2 DEF DeclarePrefixClass, RegistryInv, NamesOnce, Numbered, Before
    <3> QED BY <3>1, <3>2 DEF TickInv
  <2>3. ASSUME UnregisterAny PROVE ContentInv'
    <3>1. RegistryInv' /\ active' \in Lists /\ (AfterCall \/ UNCHANGED <<active, tick>>)
      BY <1>0, <2>3, UnregisterKeeps
    <3> QED BY <1>1, <3>1, CallKeeps
  <2>4. ASSUME NEW h \in Handles, NEW p \in Players, NEW t \in 1..MaxTime, AddBuff(h, p, t) PROVE ContentInv'
    <3>1. active' = Added(h, p, t) /\ runtimeId[h] >= 0 /\ AfterCall BY <2>4 DEF AddBuff
    <3>2. active' \in Lists BY <1>0, <3>1, AddedIsList
    <3>3. RegistryInv' BY <1>0, <2>4, RegistryStays DEF AddBuff
    <3> QED BY <1>1, <3>1, <3>2, <3>3, CallKeeps
  <2>5. ASSUME NEW h \in Handles, NEW p \in Players, RemoveBuff(h, p) PROVE ContentInv'
    <3>1. active' = Dropped(h, p) /\ AfterCall BY <2>5 DEF RemoveBuff
    <3>2. active' \in Lists BY <1>0, <3>1, WithoutIsList DEF Dropped
    <3>3. RegistryInv' BY <1>0, <2>5, RegistryStays DEF RemoveBuff
    <3> QED BY <1>1, <3>1, <3>2, <3>3, CallKeeps
  <2>6. ASSUME NEW p \in Players, ClearDebuffs(p) PROVE ContentInv'
    <3>1. AfterCall BY <2>6 DEF ClearDebuffs
    <3>2. active' \in Lists BY <1>0, <2>6, WithoutIsList DEF ClearDebuffs
    <3>3. RegistryInv' BY <1>0, <2>6, RegistryStays DEF ClearDebuffs
    <3> QED BY <1>1, <3>1, <3>2, <3>3, CallKeeps
  <2> QED BY <1>1, <2>1, <2>2, <2>3, <2>4, <2>5, <2>6 DEF ModCall, BuffCall
<1>2. ASSUME tick = NoTick, InitializeIds PROVE ContentInv'
  <2>1. active' = active /\ tick' = tick /\ kind' = kind /\ declared' = declared /\ registry # <<>>
        /\ AssignIds(registry)
    BY <1>2 DEF InitializeIds
  <2>2. registry \in Seq(Handles) /\ NamesOnce(registry) /\ declared \subseteq Handles BY DEF RegistryInv
  <2>3. Len(registry) <= Len(registry) BY <2>2, LenProperties
  <2>4. RegistryInv' BY <1>0, <2>1, <2>2, <2>3, AssignKeeps
  <2> QED BY <1>0, <1>2, <2>1, <2>4, Idle
<1>3. ASSUME NEW p \in Players, TickBegin(p) PROVE ContentInv'
  <2>1. RegistryInv' BY <1>0, <1>3, RegistryStays DEF TickBegin
  <2> QED BY <1>3, <2>1, TickBeginKeeps
<1>4. ASSUME tick # NoTick, ~tick.calling, TickSkip PROVE ContentInv'
  <2>1. RegistryInv' BY <1>0, <1>4, RegistryStays DEF TickSkip
  <2> QED BY <1>4, <2>1, TickSkipKeeps
<1>5. ASSUME tick # NoTick, ~tick.calling, TickDrop PROVE ContentInv'
  <2>1. RegistryInv' BY <1>0, <1>5, RegistryStays DEF TickDrop
  <2> QED BY <1>5, <2>1, TickDropKeeps
<1>6. ASSUME tick # NoTick, ~tick.calling, TickCount PROVE ContentInv'
  <2>1. RegistryInv' BY <1>0, <1>6, RegistryStays DEF TickCount
  <2> QED BY <1>6, <2>1, TickCountKeeps
<1>7. ASSUME tick.calling, TickReturn PROVE ContentInv'
  <2>1. RegistryInv' BY <1>0, <1>7, RegistryStays DEF TickReturn
  <2> QED BY <1>7, <2>1, TickReturnKeeps
<1>8. ASSUME TickEnd PROVE ContentInv'
  <2>1. RegistryInv' BY <1>0, <1>8, RegistryStays DEF TickEnd
  <2>2. tick' = NoTick /\ active' = active BY <1>8 DEF TickEnd
  <2> QED BY <1>0, <2>1, <2>2, Idle
<1>9. ASSUME UNCHANGED contentVars PROVE ContentInv'
  <2>1. RegistryInv' BY <1>0, <1>9, RegistryStays DEF contentVars
  <2>2. TickInv' BY <1>9 DEF contentVars, TickInv
  <2> QED BY <2>1, <2>2
<1> QED BY <1>1, <1>2, <1>3, <1>4, <1>5, <1>6, <1>7, <1>8, <1>9 DEF ContentNext, TickStep

\* The invariant of ContentRegistry.
LEMMA ContentAlways == ContentSpec => []ContentInv
BY ContentStart, ContentStep, PTL DEF ContentSpec

-----------------------------------------------------------------------------
\* What the invariant says of types.
LEMMA ContentTyped == ContentInv => ContentTypeOK
<1> SUFFICES ASSUME ContentInv PROVE ContentTypeOK OBVIOUS
<1> USE DEF ContentInv
<1>1. Cardinality(NamesTaken) = Len(registry) BY RangeOfVector DEF RegistryInv, NamesTaken, Registered
<1>2. active \in Seq([who : Players, id : Ids \ {-1}, time : 1..MaxTime]) /\ Len(active) <= ActiveMax
      /\ \A i, j \in DOMAIN active : active[i].who = active[j].who /\ active[i].id = active[j].id => i = j
  BY DEF TickInv, Lists, Entries, Once
<1>3. tick \in [who : Players, i : 0..(ActiveMax + 1), calling : BOOLEAN, moved : BOOLEAN, owed : SUBSET Ids]
  <2>1. CASE tick = NoTick
    <3>1. (CHOOSE p \in Players : TRUE) \in Players BY ContentAssumption DEF ContentAssumption
    <3> QED BY <2>1, <3>1, Constants DEF NoTick
  <2>2. CASE tick # NoTick
    <3>1. tick \in Ticks BY <2>2 DEF TickInv
    <3> QED BY <3>1 DEF Ticks
  <2> QED BY <2>1, <2>2
<1> QED BY <1>1, <1>2, <1>3 DEF RegistryInv, ContentTypeOK

\* The types of the registries and of the list: no name is registered twice, and no buff
\* is twice on one player, whatever is loaded, reloaded, unregistered and ticked.
THEOREM ContentTypeCorrect == ContentSpec => []ContentTypeOK
BY ContentTyped, ContentAlways, PTL

\* Property TicksUnlessMoved: a pass of player_tick leaves no buff of the player out, whatever its
\* callbacks add, prolong, take off, register or unregister, unless one of them took a buff off at
\* an index the pass had reached.
THEOREM TickReachesAll == ContentSpec => []TicksUnlessMoved
<1>1. ContentInv => TicksUnlessMoved
  <2> SUFFICES ASSUME ContentInv, tick # NoTick, ~tick.calling, tick.i > Len(active), ~tick.moved, NEW id \in tick.owed
               PROVE  FALSE
    BY DEF TicksUnlessMoved, TickEnds
  <2>0. DOMAIN active = 1..Len(active) /\ Len(active) \in Nat /\ tick \in Ticks
        /\ \A x \in tick.owed : Owes(x, tick.i, tick.who, active)
    BY InTick DEF ContentInv, Looks
  <2>1. PICK j \in DOMAIN active : j >= tick.i BY <2>0 DEF Owes
  <2>2. tick.i \in Nat BY <2>0 DEF Ticks
  <2> QED BY <2>0, <2>1, <2>2
<1> QED BY <1>1, ContentAlways, PTL

\* Of handles that are numbered, as many names are smaller as their id says.
LEMMA IdsFollow == ContentInv => IdsFollowTheNames
<1> SUFFICES ASSUME ContentInv, settled, NEW h \in Registered
             PROVE  /\ runtimeId[h] = Base + Cardinality({n \in NamesTaken : n < NameOf[h]})
                    /\ registry[runtimeId[h] - Base + 1] = h
  BY DEF IdsFollowTheNames
<1>0. registry \in Seq(Handles) /\ NamesOnce(registry) /\ Numbered BY DEF ContentInv, RegistryInv
<1>00. DOMAIN registry = 1..Len(registry) /\ Len(registry) \in Nat BY <1>0, LenProperties
<1>1. PICK k \in DOMAIN registry : h = registry[k] BY DEF Registered, ToSet
<1>2. runtimeId[h] = Base + (k - 1) /\ Before(h, registry) = k - 1 BY <1>0, <1>1 DEF Numbered
<1>3. Before(h, registry) = Cardinality({n \in NamesTaken : n < NameOf[h]})
  <2> DEFINE R == ToSet(registry)
             less == {g \in R : NameOf[g] < NameOf[h]}
             names == {n \in NamesTaken : n < NameOf[h]}
             f == [g \in less |-> NameOf[g]]
  <2>1. R \subseteq Handles /\ \A x, y \in R : NameOf[x] = NameOf[y] => x = y BY <1>0, RangeOfVector
  <2>2. IsFiniteSet(less)
    <3>1. less \subseteq Handles BY <2>1
    <3> QED BY <3>1, Constants, FS_Subset
  <2>3. f \in Surjection(less, names) BY DEF Surjection, NamesTaken, Registered
  <2>4. \A x, y \in less : f[x] = f[y] => x = y BY <2>1
  <2>5. Before(h, registry) = Cardinality(less) BY DEF Before
  <2> HIDE DEF f, less, names
  <2>6. f \in Injection(less, names) BY <2>3, <2>4 DEF Injection, IsInjective, Surjection
  <2>7. Cardinality(names) = Cardinality(less) BY <2>2, <2>3, <2>6, FS_Surjection
  <2> QED BY <2>5, <2>7 DEF names
<1>4. runtimeId[h] - Base + 1 = k BY <1>00, <1>2, Constants
<1>5. registry[runtimeId[h] - Base + 1] = h BY <1>1, <1>4
<1> QED BY <1>2, <1>3, <1>5

\* Property IdsFollowTheNames: the ids are a function of the set of names that is loaded.
THEOREM IdsAreNames == ContentSpec => []IdsFollowTheNames
BY IdsFollow, ContentAlways, PTL

-----------------------------------------------------------------------------
(* What an active buff means. *)
\* A buff that means something has the id of a handle.
LEMMA Means ==
  ASSUME NEW a, MeaningOf(a) # -1
  PROVE  \E i \in FirstWith(a.id) : MeaningOf(a) = NameOf[registry[i]]
BY DEF MeaningOf, Found

\* The same ids up to the one that is found, and the same name there.
LEMMA StillMeans ==
  ASSUME RegistryInv, registry' \in Seq(Handles), NEW a, MeaningOf(a) # -1,
         \A k \in DOMAIN registry : /\ k \in DOMAIN registry'
                                    /\ NameOf[registry'[k]] = NameOf[registry[k]]
                                    /\ runtimeId'[registry'[k]] = runtimeId[registry[k]]
  PROVE  MeaningOf(a)' = MeaningOf(a)
<1>1. PICK i \in FirstWith(a.id) : MeaningOf(a) = NameOf[registry[i]] BY Means
<1>2. DOMAIN registry = 1..Len(registry) /\ Len(registry) \in Nat BY LenProperties DEF RegistryInv
<1>3. DOMAIN registry' = 1..Len(registry') /\ Len(registry') \in Nat BY LenProperties
<1>4. /\ i \in 1..Len(registry) /\ runtimeId[registry[i]] = a.id
      /\ \A j \in 1..(i-1) : runtimeId[registry[j]] # a.id
  BY <1>1, <1>2 DEF FirstWith
<1>5. \A j \in 1..(i-1) : j \in DOMAIN registry BY <1>2, <1>4
<1>6. i \in FirstWith(a.id)' BY <1>2, <1>4, <1>5 DEF FirstWith
<1>7. \A j \in FirstWith(a.id)' : j = i
  <2> SUFFICES ASSUME NEW j \in 1..Len(registry'), runtimeId'[registry'[j]] = a.id,
                      \A k \in 1..(j-1) : runtimeId'[registry'[k]] # a.id
               PROVE  j = i
    BY <1>3 DEF FirstWith
  <2>1. ~(j < i) BY <1>2, <1>3, <1>4, <1>5
  <2>2. ~(i < j) BY <1>2, <1>3, <1>4
  <2> QED BY <1>2, <1>3, <1>4, <2>1, <2>2
<1>8. FirstWith(a.id)' = {i} BY <1>6, <1>7
<1>9. Found(a.id)' = i BY <1>8 DEF Found
<1>10. i # 0 BY <1>2, <1>4
<1>11. MeaningOf(a)' = NameOf[registry'[i]] BY <1>9, <1>10 DEF MeaningOf
<1> QED BY <1>1, <1>2, <1>4, <1>11

\* Erasing takes a name away.
LEMMA EraseTakesAName ==
  ASSUME RegistryInv, NEW i, Erases(i) PROVE ~(NamesTaken \subseteq NamesTaken')
<1> DEFINE s == RemoveAt(registry, i)
<1>0. i \in DOMAIN registry /\ registry \in Seq(Handles) /\ NamesOnce(registry) BY DEF Erases, RegistryInv
<1>1. /\ s \in Seq(Handles) /\ NamesOnce(s)
      /\ \A h \in ToSet(s) : NameOf[h] # NameOf[registry[i]]
  BY <1>0, ErasedVector
<1>2. registry' = s \/ registry' = Sorted(s) BY DEF Erases, AssignIds
<1> HIDE DEF s
<1>3. ToSet(registry') = ToSet(s) BY <1>1, <1>2, SortedSorts
<1>4. NameOf[registry[i]] \in NamesTaken BY <1>0 DEF NamesTaken, Registered, ToSet
<1>5. NamesTaken' = {NameOf[h] : h \in ToSet(s)} BY <1>3 DEF NamesTaken, Registered
<1> QED BY <1>1, <1>4, <1>5

\* No step that keeps the names turns an active buff into another.
LEMMA MeaningStep ==
  ASSUME ContentInv, [ContentNext]_contentVars, NamesTaken \subseteq NamesTaken',
         NEW a \in ToSet(active), MeaningOf(a) # -1
  PROVE  MeaningOf(a)' = MeaningOf(a)
<1>0. RegistryInv /\ registry \in Seq(Handles) /\ active \in Lists BY DEF ContentInv, RegistryInv, TickInv
<1>1. DOMAIN registry = 1..Len(registry) /\ Len(registry) \in Nat BY <1>0, LenProperties
<1>2. CASE UNCHANGED <<registry, runtimeId>> BY <1>2 DEF MeaningOf, Found, FirstWith
<1>3. ASSUME NEW h \in Handles, RegisterAny(h) PROVE MeaningOf(a)' = MeaningOf(a)
  <2>1. CASE Replace(h)
    <3>1. /\ registry' \in Seq(Handles)
          /\ \A k \in DOMAIN registry : /\ k \in DOMAIN registry' /\ NameOf[registry'[k]] = NameOf[registry[k]]
                                        /\ runtimeId'[registry'[k]] = runtimeId[registry[k]]
      BY <1>0, <2>1, Replaced
    <3> QED BY <1>0, <3>1, StillMeans
  <2>2. CASE Append1(h)
    <3>1. registry' = Append(registry, h) /\ runtimeId' = runtimeId BY <2>2 DEF Append1
    <3>2. /\ registry' \in Seq(Handles) /\ Len(registry') = Len(registry) + 1
          /\ \A k \in 1..Len(registry) : registry'[k] = registry[k]
      BY <1>0, <3>1, AppendProperties
    <3>3. DOMAIN registry' = 1..(Len(registry) + 1) BY <3>2, LenProperties
    <3>4. \A k \in DOMAIN registry : /\ k \in DOMAIN registry' /\ NameOf[registry'[k]] = NameOf[registry[k]]
                                     /\ runtimeId'[registry'[k]] = runtimeId[registry[k]]
      BY <1>1, <3>1, <3>2, <3>3
    <3> QED BY <1>0, <3>2, <3>4, StillMeans
  <2> QED BY <1>3, <2>1, <2>2 DEF RegisterAny, RegisterItem, RegisterBuff, RegisterNpc, RegisterProjectile,
                                RegisterPrefix, Register
<1>4. ASSUME InitializeIds PROVE FALSE
  <2>1. \A h \in Handles : runtimeId[h] = -1 BY <1>0, <1>4 DEF InitializeIds, RegistryInv
  <2>2. PICK i \in FirstWith(a.id) : TRUE BY Means
  <2>3. runtimeId[registry[i]] = a.id /\ registry[i] \in Handles BY <1>0, <2>2, ElementOfSeq, <1>1 DEF FirstWith
  <2>4. a \in Entries
    <3>1. active \in Seq(Entries) BY <1>0 DEF Lists
    <3> QED BY <3>1, ElementOfSeq, LenProperties DEF ToSet
  <2>5. a.id # -1 BY <2>4 DEF Entries
  <2> QED BY <2>1, <2>3, <2>5
<1>5. ASSUME UnregisterAny PROVE FALSE
  <2>1. PICK i \in DOMAIN registry : Erases(i) BY <1>0, <1>5, UnregisterKeeps
  <2> QED BY <1>0, <2>1, EraseTakesAName
<1>6. ASSUME NEW h \in Handles, DeclarePrefixClass(h) PROVE UNCHANGED <<registry, runtimeId>>
  BY <1>6 DEF DeclarePrefixClass
<1>7. ASSUME BuffCall PROVE UNCHANGED <<registry, runtimeId>>
  BY <1>7 DEF BuffCall, AddBuff, RemoveBuff, ClearDebuffs
<1>8. ASSUME TickStep \/ TickReturn PROVE UNCHANGED <<registry, runtimeId>>
  BY <1>8 DEF TickStep, TickSkip, TickDrop, TickEnd, TickCount, TickReturn
<1>9. ASSUME NEW p \in Players, TickBegin(p) PROVE UNCHANGED <<registry, runtimeId>>
  BY <1>9 DEF TickBegin
<1>10. ASSUME UNCHANGED contentVars PROVE UNCHANGED <<registry, runtimeId>> BY <1>10 DEF contentVars
<1> QED BY <1>2, <1>3, <1>4, <1>5, <1>6, <1>7, <1>8, <1>9, <1>10 DEF ContentNext, ModCall

\* Property BuffsKeepTheirMeaning: only unregistering changes what an active buff is.
THEOREM BuffsKeepMeaning == ContentSpec => BuffsKeepTheirMeaning
<1>1. ContentInv /\ [ContentNext]_contentVars =>
        [NamesTaken \subseteq NamesTaken' => \A a \in ToSet(active) : MeaningOf(a) # -1 => MeaningOf(a)' = MeaningOf(a)]_contentVars
  BY MeaningStep
<1> QED BY <1>1, ContentAlways, PTL DEF ContentSpec, BuffsKeepTheirMeaning
=============================================================================
