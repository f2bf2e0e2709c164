------------------------------ MODULE WorldProofs ------------------------------
(******************************************************************************)
(* Theorems about ModSaves, Handshake and PackageFile, for any mods, bases,   *)
(* containers, peers, slots, lists of modules and mods, names and contents,   *)
(* and about the four modules of WorldMC side by side (those of the content   *)
(* registries are in ContentProofs).  The four share no state.                *)
(*                                                                            *)
(* That an item comes back as itself rests on the numbering: within a session *)
(* names and numbers determine each other (RankInjective), so the names a     *)
(* save records say what its numbers meant, and say it to sessions that       *)
(* number differently.  The invariant of the handshake ties the error of a    *)
(* slot, which slots keep from one peer to the next, to the peer that has the *)
(* slot: from the connect packet on it is what the comparison said of that    *)
(* peer (Judged).  An entry of a package reads back because its blocks are in *)
(* the memory or in the file from the moment it is in the table on (MemoryInv *)
(* and FileInv), and what is written later goes behind the entries there are. *)
(******************************************************************************)
EXTENDS WorldMC, ContentProofs

--------------------------------------------------------------------------------
(* The companion file of a save.                                              *)
(* The numbering of one session. *)
LEMMA RankBounds ==
  ASSUME NEW S, IsFiniteSet(S), S \subseteq Nat, NEW n \in Nat
  PROVE  /\ Rank(n, S) \in Nat /\ Rank(n, S) <= Cardinality(S) /\ Cardinality(S) \in Nat
         /\ n \in S => Rank(n, S) < Cardinality(S)
<1> DEFINE below == {m \in S : m < n}
<1>1. below \subseteq S OBVIOUS
<1>2. /\ IsFiniteSet(below) /\ Cardinality(below) <= Cardinality(S)
      /\ Cardinality(below) = Cardinality(S) => below = S
  BY <1>1, FS_Subset
<1>3. Cardinality(below) \in Nat /\ Cardinality(S) \in Nat BY <1>2, FS_CardinalityType
<1>4. n \notin below OBVIOUS
<1> QED BY <1>2, <1>3, <1>4 DEF Rank

LEMMA RankIncreases ==
  ASSUME NEW S, IsFiniteSet(S), S \subseteq Nat, NEW m \in S, NEW n \in S, m < n
  PROVE  Rank(m, S) < Rank(n, S)
<1> DEFINE low == {k \in S : k < m}  high == {k \in S : k < n}
<1>0. m \in Nat /\ n \in Nat /\ \A k \in S : k \in Nat OBVIOUS
<1>1. low \subseteq high /\ high \subseteq S /\ m \in high /\ m \notin low
  <2>1. \A k \in S : k < m => k < n BY <1>0
  <2>2. ~(m < m) BY <1>0
  <2> QED BY <2>1, <2>2
<1>2. IsFiniteSet(high) BY <1>1, FS_Subset
<1>3. IsFiniteSet(low) /\ Cardinality(low) <= Cardinality(high) /\ (Cardinality(low) = Cardinality(high) => low = high)
  BY <1>1, <1>2, FS_Subset
<1>4. Cardinality(low) \in Nat /\ Cardinality(high) \in Nat BY <1>2, <1>3, FS_CardinalityType
<1> QED BY <1>1, <1>3, <1>4 DEF Rank

LEMMA RankInjective ==
  ASSUME NEW S, IsFiniteSet(S), S \subseteq Nat, NEW m \in S, NEW n \in S, Rank(m, S) = Rank(n, S)
  PROVE  m = n
<1>1. m \in Nat /\ n \in Nat /\ Rank(m, S) \in Nat BY RankBounds
<1>2. ~(m < n)
  <2>1. m < n => Rank(m, S) < Rank(n, S) BY RankIncreases
  <2> QED BY <1>1, <2>1
<1>3. ~(n < m)
  <2>1. n < m => Rank(n, S) < Rank(m, S) BY RankIncreases
  <2> QED BY <1>1, <2>1
<1> QED BY <1>1, <1>2, <1>3

\* What a session knows about its names and numbers.
Numbering ==
  /\ ItemCount \in Nat /\ ItemBase < ItemCount /\ ItemCount <= ItemBase + Cardinality(Mods) + 1
  /\ \A n \in ItemNames : /\ TypeOf(n) \in Nat /\ ItemBase <= TypeOf(n) /\ TypeOf(n) < ItemCount
                          /\ NameOfType(TypeOf(n)) = n
  /\ \A t \in Nat : t < ItemBase => NameOfType(t) = NoName
  /\ \A t \in Nat : NameOfType(t) \in ItemNames \union {NoName}
  /\ \A n \in loaded : /\ PrefixOf(n) \in Nat /\ PrefixBase <= PrefixOf(n) /\ PrefixOf(n) < PrefixBase + Cardinality(Mods)
                       /\ NameOfPrefix(PrefixOf(n)) = n
  /\ \A p \in Nat : p < PrefixBase => NameOfPrefix(p) = NoName
  /\ \A p \in Nat : NameOfPrefix(p) \in loaded \union {NoName}

LEMMA NumberingHolds == ASSUME loaded \subseteq Mods PROVE Numbering
<1> USE SavesAssumption DEF SavesAssumption
<1>1. IsFiniteSet(Mods) /\ Cardinality(Mods) \in Nat /\ ItemBase \in Nat /\ PrefixBase \in Nat BY FS_CardinalityType
<1>2. /\ IsFiniteSet(loaded) /\ Cardinality(loaded) \in Nat /\ Cardinality(loaded) <= Cardinality(Mods) /\ loaded \subseteq Nat
  BY <1>1, FS_Subset, FS_CardinalityType
<1>3. /\ IsFiniteSet(ItemNames) /\ Cardinality(ItemNames) = Cardinality(loaded) + 1 /\ ItemNames \subseteq Nat
  <2>1. Unknown \notin loaded OBVIOUS
  <2> QED BY <1>2, <2>1, FS_AddElement DEF ItemNames
<1>4. /\ ItemCount \in Nat /\ ItemBase < ItemCount /\ ItemCount <= ItemBase + Cardinality(Mods) + 1
  BY <1>1, <1>2, <1>3 DEF ItemCount
<1>5. ASSUME NEW n \in ItemNames
      PROVE  /\ TypeOf(n) \in Nat /\ ItemBase <= TypeOf(n) /\ TypeOf(n) < ItemCount
             /\ NameOfType(TypeOf(n)) = n
  <2>1. n \in Nat BY <1>3
  <2>2. Rank(n, ItemNames) \in Nat /\ Rank(n, ItemNames) < Cardinality(ItemNames) /\ Cardinality(ItemNames) \in Nat
    BY <1>3, <2>1, RankBounds
  <2>3. TypeOf(n) \in Nat /\ ItemBase <= TypeOf(n) /\ TypeOf(n) < ItemCount BY <1>1, <2>2 DEF TypeOf, ItemCount
  <2>4. ASSUME NEW m \in ItemNames, TypeOf(m) = TypeOf(n) PROVE m = n
    <3>1. m \in Nat BY <1>3
    <3>2. Rank(m, ItemNames) \in Nat BY <1>3, <3>1, RankBounds
    <3>3. Rank(m, ItemNames) = Rank(n, ItemNames) BY <1>1, <2>2, <2>4, <3>2 DEF TypeOf
    <3> QED BY <1>3, <3>3, RankInjective
  <2> QED BY <2>3, <2>4 DEF NameOfType
<1>6. ASSUME NEW n \in loaded
      PROVE  /\ PrefixOf(n) \in Nat /\ PrefixBase <= PrefixOf(n) /\ PrefixOf(n) < PrefixBase + Cardinality(Mods)
             /\ NameOfPrefix(PrefixOf(n)) = n
  <2>1. n \in Nat BY <1>2
  <2>2. Rank(n, loaded) \in Nat /\ Rank(n, loaded) < Cardinality(loaded) BY <1>2, <2>1, RankBounds
  <2>3. PrefixOf(n) \in Nat /\ PrefixBase <= PrefixOf(n) /\ PrefixOf(n) < PrefixBase + Cardinality(Mods)
    BY <1>1, <1>2, <2>2 DEF PrefixOf
  <2>4. ASSUME NEW m \in loaded, PrefixOf(m) = PrefixOf(n) PROVE m = n
    <3>1. m \in Nat BY <1>2
    <3>2. Rank(m, loaded) \in Nat BY <1>2, <3>1, RankBounds
    <3>3. Rank(m, loaded) = Rank(n, loaded) BY <1>1, <2>2, <2>4, <3>2 DEF PrefixOf
    <3> QED BY <1>2, <3>3, RankInjective
  <2> QED BY <2>3, <2>4 DEF NameOfPrefix
<1>7. ASSUME NEW t \in Nat, t < ItemBase PROVE NameOfType(t) = NoName
  BY <1>1, <1>5, <1>7 DEF NameOfType
<1>8. ASSUME NEW p \in Nat, p < PrefixBase PROVE NameOfPrefix(p) = NoName
  BY <1>1, <1>6, <1>8 DEF NameOfPrefix
<1>9. \A t \in Nat : NameOfType(t) \in ItemNames \union {NoName} BY DEF NameOfType
<1>10. \A p \in Nat : NameOfPrefix(p) \in loaded \union {NoName} BY DEF NameOfPrefix
<1> QED BY <1>4, <1>5, <1>6, <1>7, <1>8, <1>9, <1>10 DEF Numbering

-----------------------------------------------------------------------------
(* What is on disk, said without the numbering of the session that wrote it:  *)
(* the numbers in the game's file, and the names they had, which is truth.     *)
Items0   == {it \in SlotType : it.type = 0 => it.prefix = 0}
Bags     == [Slots -> Items0]
NamesSaved    == Mods \union {Unknown, NoName}
Element  == [slot : Slots, item : [id : Nat \ {0}, name : NamesSaved, prefix : Nat, pname : NamesSaved]]
Readable(f) == Whole(f) => f.holds \subseteq Element /\ \A e, d \in f.holds : e.slot = d.slot => e = d

\* The thing in a slot as the elements describe it, and the elements for a whole bag.
NameIn(x) == IF x[1] = "mod" THEN x[2] ELSE NoName
Described(it, seen) == [id |-> it.type, name |-> NameIn(seen.type), prefix |-> it.prefix, pname |-> NameIn(seen.prefix)]
Descriptions(g, tr) == {[slot |-> s, item |-> Described(g[s], tr[s])] : s \in {x \in Slots : OfMods(g[x])}}

\* Numbers of the game stand for themselves, others for a name.
Fits(it, seen) ==
  /\ it.type < ItemBase => seen.type = <<"game", it.type>>
  /\ it.type >= ItemBase => \E n \in NamesSaved : seen.type = <<"mod", n>>
  /\ it.prefix < PrefixBase => seen.prefix = <<"game", it.prefix>>
  /\ it.prefix >= PrefixBase => \E n \in NamesSaved : seen.prefix = <<"mod", n>>

SeenIn(b) == [s \in Slots |-> Seen(b[s])]
AtSave == {"written", "writing", "removing", "renaming"}

SavesIInv ==
  /\ pc \in {"off", "menu", "play", "erasing"} \union AtSave /\ inSync \in BOOLEAN
  /\ loaded \subseteq Mods /\ bag \in Bags
  /\ Readable(disk) /\ Readable(tmp)
  /\ gameFile = NoFile \/ (Whole(gameFile) /\ gameFile.holds \in Bags /\ \A s \in Slots : Fits(gameFile.holds[s], truth[s]))
  /\ inSync => gameFile # NoFile /\ Whole(disk) /\ disk.holds = Descriptions(gameFile.holds, truth)
  /\ pc \in AtSave => gameFile = File(bag) /\ truth = SeenIn(bag) /\ ~inSync
  /\ pc \in {"removing", "renaming"} => Whole(tmp) /\ tmp = File(Elements(bag)) /\ tmp.holds = Elements(bag)
  /\ pc \in {"written", "writing", "removing"} => disk = old
  /\ pc = "renaming" => disk \in {old, NoFile}
  /\ pc = "erasing" => ~inSync

LEMMA ItemsTyped ==
  ASSUME NEW it \in Items0
  PROVE  it.type \in Nat /\ it.prefix \in Nat /\ it \in SlotType /\ (it.type = 0 => it.prefix = 0)
<1>1. Cardinality(Mods) \in Nat /\ ItemBase \in Nat /\ PrefixBase \in Nat
  BY SavesAssumption, FS_CardinalityType DEF SavesAssumption
<1> QED BY <1>1 DEF Items0, SlotType

\* What a session sees in its own bag fits, and what it writes are the descriptions.
LEMMA SeenFits ==
  ASSUME loaded \subseteq Mods, NEW it \in Items0
  PROVE  Fits(it, Seen(it)) /\ Saved(it) = Described(it, Seen(it))
<1>1. it.type \in Nat /\ it.prefix \in Nat BY ItemsTyped
<1>2. Numbering BY NumberingHolds
<1>3. NameOfType(it.type) \in NamesSaved /\ NameOfPrefix(it.prefix) \in NamesSaved
  BY <1>1, <1>2 DEF Numbering, NamesSaved, ItemNames
<1>4. ItemBase \in Nat /\ PrefixBase \in Nat BY SavesAssumption DEF SavesAssumption
<1>5. Fits(it, Seen(it)) BY <1>1, <1>3, <1>4 DEF Fits, Seen
<1>6. NameIn(Seen(it).type) = NameOfType(it.type)
  BY <1>1, <1>2, <1>4 DEF Seen, NameIn, Numbering
<1>7. NameIn(Seen(it).prefix) = NameOfPrefix(it.prefix)
  BY <1>1, <1>2, <1>4 DEF Seen, NameIn, Numbering
<1> QED BY <1>5, <1>6, <1>7 DEF Saved, Described

LEMMA ElementsAreDescriptions ==
  ASSUME loaded \subseteq Mods, NEW b \in Bags
  PROVE  Elements(b) = Descriptions(b, SeenIn(b))
<1>1. \A s \in Slots : b[s] \in Items0 /\ Saved(b[s]) = Described(b[s], SeenIn(b)[s])
  BY SeenFits DEF Bags, SeenIn
<1> QED BY <1>1 DEF Elements, Descriptions

LEMMA ElementsReadable ==
  ASSUME loaded \subseteq Mods, NEW b \in Bags
  PROVE  Elements(b) \subseteq Element /\ \A e, d \in Elements(b) : e.slot = d.slot => e = d
<1>1. Numbering BY NumberingHolds
<1>2. ASSUME NEW s \in Slots, OfMods(b[s]) PROVE [slot |-> s, item |-> Saved(b[s])] \in Element
  <2>1. b[s].type \in Nat \ {0} /\ b[s].prefix \in Nat
    <3>1. b[s] \in Items0 BY DEF Bags
    <3>2. b[s].type \in Nat /\ b[s].prefix \in Nat BY <3>1, ItemsTyped
    <3> QED BY <1>2, <3>2 DEF OfMods
  <2>2. NameOfType(b[s].type) \in NamesSaved /\ NameOfPrefix(b[s].prefix) \in NamesSaved
    BY <1>1, <2>1 DEF Numbering, NamesSaved, ItemNames
  <2> QED BY <2>1, <2>2 DEF Element, Saved
<1> QED BY <1>2 DEF Elements

-----------------------------------------------------------------------------
(* Loading. *)
\* What is resolved has a number of this session or one of the game.
LEMMA ResolvedInRange ==
  ASSUME loaded \subseteq Mods, NEW e \in [id : Nat \ {0}, name : NamesSaved, prefix : Nat, pname : NamesSaved]
  PROVE  /\ ResolveType(e) \in Nat \ {0} /\ ResolveType(e) < ItemCount
         /\ ResolvePrefix(e) \in Nat /\ ResolvePrefix(e) < PrefixBase + Cardinality(Mods)
<1>1. Numbering BY NumberingHolds
<1>2. ItemBase \in Nat \ {0} /\ PrefixBase \in Nat \ {0} /\ Cardinality(Mods) \in Nat
  BY SavesAssumption, FS_CardinalityType DEF SavesAssumption
<1>3. Unknown \in ItemNames BY DEF ItemNames
<1>4. e.id \in Nat \ {0} /\ e.prefix \in Nat OBVIOUS
<1>5. \A n \in ItemNames : TypeOf(n) \in Nat \ {0} /\ TypeOf(n) < ItemCount BY <1>1, <1>2 DEF Numbering
<1>6. ResolveType(e) \in Nat \ {0} /\ ResolveType(e) < ItemCount BY <1>3, <1>4, <1>5 DEF ResolveType
<1>7. \A n \in loaded : PrefixOf(n) \in Nat /\ PrefixOf(n) < PrefixBase + Cardinality(Mods) BY <1>1 DEF Numbering
<1>8. ResolvePrefix(e) \in Nat /\ ResolvePrefix(e) < PrefixBase + Cardinality(Mods)
  BY <1>2, <1>4, <1>7 DEF ResolvePrefix
<1> QED BY <1>6, <1>8

\* Resolving a description of a thing that had names gives what was expected.
LEMMA ResolveDescribed ==
  ASSUME loaded \subseteq Mods, NEW it \in Items0, NEW seen, Fits(it, seen), seen.type # <<"mod", NoName>>
  PROVE  LET e == Described(it, seen)
         IN  Seen([type |-> ResolveType(e), prefix |-> ResolvePrefix(e)]) = Expected(seen)
<1> DEFINE e == Described(it, seen)
<1>1. Numbering BY NumberingHolds
<1>2. ItemBase \in Nat \ {0} /\ PrefixBase \in Nat \ {0} BY SavesAssumption DEF SavesAssumption
<1>3. it.type \in Nat /\ it.prefix \in Nat BY ItemsTyped
<1>4. Unknown \in ItemNames BY DEF ItemNames
<1>5. Seen([type |-> ResolveType(e), prefix |-> ResolvePrefix(e)]).type = Expected(seen).type
  <2>1. CASE it.type < ItemBase
    <3>1. seen.type = <<"game", it.type>> BY <2>1 DEF Fits
    <3>2. e.name = NoName /\ e.id = it.type BY <3>1 DEF Described, NameIn
    <3>3. ResolveType(e) = it.type BY <1>1, <1>2, <1>3, <2>1, <3>2 DEF ResolveType, Numbering
    <3>4. Seen([type |-> ResolveType(e), prefix |-> ResolvePrefix(e)]).type = <<"game", it.type>>
      BY <2>1, <3>3 DEF Seen
    <3>5. Expected(seen).type = <<"game", it.type>> BY <3>1 DEF Expected
    <3> QED BY <3>4, <3>5
  <2>2. CASE it.type >= ItemBase
    <3>1. PICK n \in NamesSaved : seen.type = <<"mod", n>> BY <2>2 DEF Fits
    <3>2. n # NoName BY <3>1
    <3>3. e.name = n BY <3>1 DEF Described, NameIn
    <3> DEFINE m == IF n \in ItemNames THEN n ELSE Unknown
    <3>4. ResolveType(e) = TypeOf(m) /\ m \in ItemNames BY <1>4, <3>2, <3>3 DEF ResolveType
    <3>5. TypeOf(m) \in Nat /\ ItemBase <= TypeOf(m) /\ NameOfType(TypeOf(m)) = m BY <1>1, <3>4 DEF Numbering
    <3>6. ~(TypeOf(m) < ItemBase) BY <1>2, <3>5
    <3>7. Seen([type |-> ResolveType(e), prefix |-> ResolvePrefix(e)]).type = <<"mod", m>>
      BY <3>4, <3>5, <3>6 DEF Seen
    <3>8. Expected(seen).type = <<"mod", m>> BY <3>1 DEF Expected
    <3> QED BY <3>7, <3>8
  <2> QED BY <1>2, <1>3, <2>1, <2>2
<1>6. Seen([type |-> ResolveType(e), prefix |-> ResolvePrefix(e)]).prefix = Expected(seen).prefix
  <2>1. CASE it.prefix < PrefixBase
    <3>1. seen.prefix = <<"game", it.prefix>> BY <2>1 DEF Fits
    <3>2. ResolvePrefix(e) = it.prefix BY <2>1 DEF ResolvePrefix, Described
    <3>3. Seen([type |-> ResolveType(e), prefix |-> ResolvePrefix(e)]).prefix = <<"game", it.prefix>>
      BY <2>1, <3>2 DEF Seen
    <3>4. Expected(seen).prefix = <<"game", it.prefix>> BY <3>1 DEF Expected
    <3> QED BY <3>3, <3>4
  <2>2. CASE it.prefix >= PrefixBase
    <3>1. PICK n \in NamesSaved : seen.prefix = <<"mod", n>> BY <2>2 DEF Fits
    <3>2. e.pname = n /\ ~(e.prefix < PrefixBase) BY <1>2, <1>3, <2>2, <3>1 DEF Described, NameIn
    <3>3. CASE n \in loaded
      <4>1. ResolvePrefix(e) = PrefixOf(n) BY <3>2, <3>3 DEF ResolvePrefix
      <4>2. ~(PrefixOf(n) < PrefixBase) /\ NameOfPrefix(PrefixOf(n)) = n BY <1>1, <1>2, <3>3 DEF Numbering
      <4> QED BY <3>1, <3>3, <4>1, <4>2 DEF Seen, Expected
    <3>4. CASE n \notin loaded
      <4>1. ResolvePrefix(e) = 0 /\ 0 < PrefixBase BY <1>2, <3>2, <3>4 DEF ResolvePrefix
      <4> QED BY <3>1, <3>4, <4>1 DEF Seen, Expected
    <3> QED BY <3>3, <3>4
  <2> QED BY <1>2, <1>3, <2>1, <2>2
<1> QED BY <1>5, <1>6 DEF Seen, Expected

\* Whatever file is overlaid, the bag stays in range.
LEMMA LoadedInRange ==
  ASSUME loaded \subseteq Mods, NEW b \in Bags, NEW file, Readable(file)
  PROVE  Sanitize(Overlay(b, file)) \in Bags
<1>1. Numbering BY NumberingHolds
<1>2. ItemBase \in Nat \ {0} /\ PrefixBase \in Nat \ {0} /\ Cardinality(Mods) \in Nat
  BY SavesAssumption, FS_CardinalityType DEF SavesAssumption
<1>3. \A t, p \in Nat : t # 0 /\ t < ItemCount /\ p < PrefixBase + Cardinality(Mods) => [type |-> t, prefix |-> p] \in Items0
  BY <1>1, <1>2 DEF Items0, SlotType, Numbering
<1>4. ASSUME NEW s \in Slots PROVE Overlay(b, file)[s] \in Items0
  <2>1. CASE Whole(file) /\ \E e \in file.holds : e.slot = s
    <3> DEFINE e == CHOOSE x \in file.holds : x.slot = s
    <3>1. e \in file.holds BY <2>1
    <3>2. e.item \in [id : Nat \ {0}, name : NamesSaved, prefix : Nat, pname : NamesSaved] BY <2>1, <3>1 DEF Readable, Element
    <3>3. [type |-> ResolveType(e.item), prefix |-> ResolvePrefix(e.item)] \in Items0
      BY <1>1, <1>3, <3>2, ResolvedInRange
    <3> QED BY <2>1, <3>3 DEF Overlay
  <2>2. CASE ~(Whole(file) /\ \E e \in file.holds : e.slot = s) BY <2>2 DEF Overlay, Bags
  <2> QED BY <2>1, <2>2
<1>5. [type |-> TypeOf(Unknown), prefix |-> 0] \in Items0
  <2>1. Unknown \in ItemNames BY DEF ItemNames
  <2>2. TypeOf(Unknown) \in Nat \ {0} /\ TypeOf(Unknown) < ItemCount BY <1>1, <1>2, <2>1 DEF Numbering
  <2> QED BY <1>2, <1>3, <2>2
<1> QED BY <1>4, <1>5 DEF Sanitize, Bags

\* What the player can be given is in range.
LEMMA ItemsInRange == ASSUME loaded \subseteq Mods PROVE Items \subseteq Items0
<1>1. Numbering BY NumberingHolds
<1>2. ItemBase \in Nat \ {0} /\ PrefixBase \in Nat \ {0} /\ Cardinality(Mods) \in Nat
  BY SavesAssumption, FS_CardinalityType DEF SavesAssumption
<1>3. \A t, p \in Nat : t # 0 /\ t < ItemCount /\ p < PrefixBase + Cardinality(Mods) => [type |-> t, prefix |-> p] \in Items0
  BY <1>1, <1>2 DEF Items0, SlotType, Numbering
<1>4. 1 < ItemCount /\ 0 < PrefixBase + Cardinality(Mods) BY <1>1, <1>2 DEF Numbering
<1>5. Empty \in Items0 BY <1>2 DEF Items0, SlotType, Empty
<1>6. \A n \in ItemNames : TypeOf(n) \in Nat /\ TypeOf(n) # 0 /\ TypeOf(n) < ItemCount BY <1>1, <1>2 DEF Numbering
<1>7. \A n \in loaded : PrefixOf(n) \in Nat /\ PrefixOf(n) < PrefixBase + Cardinality(Mods) /\ n \in ItemNames
  BY <1>1 DEF Numbering, ItemNames
<1>8. [type : {1}, prefix : {0} \union {PrefixOf(n) : n \in loaded}] \subseteq Items0
  <2> SUFFICES ASSUME NEW x \in [type : {1}, prefix : {0} \union {PrefixOf(n) : n \in loaded}] PROVE x \in Items0
    OBVIOUS
  <2>1. x = [type |-> 1, prefix |-> x.prefix] OBVIOUS
  <2>2. x.prefix \in Nat /\ x.prefix < PrefixBase + Cardinality(Mods) BY <1>2, <1>4, <1>7
  <2>3. [type |-> 1, prefix |-> x.prefix] \in Items0 BY <1>3, <1>4, <2>2
  <2> QED BY <2>1, <2>3
<1>9. [type : {TypeOf(n) : n \in ItemNames}, prefix : {0}] \subseteq Items0
  <2>1. \A n \in ItemNames : [type |-> TypeOf(n), prefix |-> 0] \in Items0 BY <1>2, <1>3, <1>4, <1>6
  <2>2. ASSUME NEW x \in [type : {TypeOf(n) : n \in ItemNames}, prefix : {0}]
        PROVE  \E n \in ItemNames : x = [type |-> TypeOf(n), prefix |-> 0]
    OBVIOUS
  <2> QED BY <2>1, <2>2
<1>10. {[type |-> TypeOf(n), prefix |-> PrefixOf(n)] : n \in loaded} \subseteq Items0 BY <1>3, <1>6, <1>7
<1> QED BY <1>5, <1>8, <1>9, <1>10 DEF Items

-----------------------------------------------------------------------------
LEMMA SavesInitInv == SavesInit => SavesIInv
<1> SUFFICES ASSUME SavesInit PROVE SavesIInv OBVIOUS
<1>1. Cardinality(Mods) \in Nat /\ ItemBase \in Nat /\ PrefixBase \in Nat
  BY SavesAssumption, FS_CardinalityType DEF SavesAssumption
<1>2. bag \in Bags BY <1>1 DEF SavesInit, Bags, Items0, SlotType, Empty
<1>3. Readable(NoFile) BY DEF Readable, Whole, NoFile
<1> QED BY <1>2, <1>3 DEF SavesInit, SavesIInv, AtSave

LEMMA SavesStepInv == SavesIInv /\ [SavesNext]_savesVars => SavesIInv'
<1> SUFFICES ASSUME SavesIInv, [SavesNext]_savesVars PROVE SavesIInv' OBVIOUS
<1> USE DEF SavesIInv, AtSave
<1>0. Readable(NoFile) /\ Readable(Torn) /\ ~Whole(NoFile) /\ ~Whole(Torn) BY DEF Readable, Whole, NoFile, Torn
<1>1. CASE UNCHANGED savesVars
  <2>1. Elements(bag)' = Elements(bag) /\ SeenIn(bag)' = SeenIn(bag) /\ File(Elements(bag))' = File(Elements(bag))
    BY <1>1 DEF savesVars, File, Elements, Saved, SeenIn, Seen, NameOfType, NameOfPrefix, TypeOf, PrefixOf, ItemNames
  <2> QED BY <1>1, <2>1 DEF savesVars, Readable
<1>2. ASSUME NEW M \in SUBSET Mods, Start(M) PROVE SavesIInv' BY <1>2 DEF Start, Readable
<1>3. CASE NewGame
  <2>1. Cardinality(Mods) \in Nat /\ ItemBase \in Nat /\ PrefixBase \in Nat
    BY SavesAssumption, FS_CardinalityType DEF SavesAssumption
  <2>2. bag' \in Bags BY <1>3, <2>1 DEF NewGame, Bags, Items0, SlotType, Empty
  <2> QED BY <1>3, <2>2 DEF NewGame, Readable
<1>4. CASE Load
  <2>1. gameFile.holds \in Bags BY <1>4 DEF Load
  <2>2. bag' \in Bags BY <1>4, <2>1, LoadedInRange DEF Load
  <2> QED BY <1>4, <2>2 DEF Load, Readable
<1>5. CASE SaveGame
  <2>1. \A s \in Slots : Fits(bag[s], truth'[s])
    BY <1>5, SeenFits DEF SaveGame, Bags
  <2>2. truth' = SeenIn(bag)' BY <1>5 DEF SaveGame, SeenIn, Seen, NameOfType, NameOfPrefix, TypeOf, PrefixOf, ItemNames
  <2>3. Whole(gameFile') /\ gameFile'.holds = bag /\ gameFile' = File(bag)' BY <1>5 DEF SaveGame, Whole, File
  <2> QED BY <1>5, <2>1, <2>2, <2>3 DEF SaveGame, Readable
<1>6. ASSUME NEW s \in Slots, NEW it \in Items, Put(s, it) PROVE SavesIInv'
  <2>1. it \in Items0 BY ItemsInRange
  <2>2. bag' \in Bags BY <1>6, <2>1 DEF Put, Bags
  <2> QED BY <1>6, <2>2 DEF Put, Readable
<1>7. ASSUME UNCHANGED <<loaded, bag, gameFile, truth>>
      PROVE  /\ Elements(bag)' = Elements(bag) /\ SeenIn(bag)' = SeenIn(bag) /\ File(bag)' = File(bag)
             /\ File(Elements(bag))' = File(Elements(bag))
  BY <1>7 DEF Elements, Saved, SeenIn, Seen, NameOfType, NameOfPrefix, TypeOf, PrefixOf, ItemNames, File
<1>8. CASE OpenTmp BY <1>0, <1>7, <1>8 DEF OpenTmp, Readable
<1>9. CASE WriteTmp
  <2>1. Whole(tmp') /\ tmp' = File(Elements(bag))' /\ tmp'.holds = Elements(bag)
    BY <1>7, <1>9 DEF WriteTmp, File, Whole
  <2>2. Readable(tmp') BY <2>1, ElementsReadable DEF Readable
  <2> QED BY <1>7, <1>9, <2>1, <2>2 DEF WriteTmp, Readable
<1>10. CASE WriteFails BY <1>0, <1>10 DEF WriteFails, Readable
<1>11. CASE RemoveOld BY <1>0, <1>7, <1>11 DEF RemoveOld, Readable
<1>12. CASE Rename
  <2>1. disk' = tmp /\ Whole(tmp) /\ tmp.holds = Elements(bag) BY <1>12 DEF Rename
  <2>2. gameFile = File(bag) /\ gameFile.holds = bag /\ truth = SeenIn(bag) /\ gameFile # NoFile
    BY <1>12 DEF Rename, File, NoFile
  <2>3. disk'.holds = Descriptions(gameFile.holds, truth) BY <2>1, <2>2, ElementsAreDescriptions
  <2> QED BY <1>0, <1>12, <2>1, <2>2, <2>3 DEF Rename, Readable
<1>13. CASE RenameFails BY <1>0, <1>13 DEF RenameFails, Readable
<1>14. CASE ToMenu BY <1>14 DEF ToMenu, Readable
<1>15. CASE EraseCompanion BY <1>0, <1>15 DEF EraseCompanion, Readable
<1>16. CASE EraseGame BY <1>16 DEF EraseGame, Readable
<1>17. CASE Stop
  <2>1. Cardinality(Mods) \in Nat /\ ItemBase \in Nat /\ PrefixBase \in Nat
    BY SavesAssumption, FS_CardinalityType DEF SavesAssumption
  <2>2. bag' \in Bags BY <1>17, <2>1 DEF Stop, Bags, Items0, SlotType, Empty
  <2> QED BY <1>17, <2>2 DEF Stop, Readable
<1> QED BY <1>1, <1>2, <1>3, <1>4, <1>5, <1>6, <1>8, <1>9, <1>10, <1>11, <1>12, <1>13, <1>14, <1>15, <1>16, <1>17
        DEF SavesNext

-----------------------------------------------------------------------------
\* What the invariant says of types.
LEMMA SavesTyped == SavesIInv => SavesTypeOK
<1> SUFFICES ASSUME SavesIInv PROVE SavesTypeOK OBVIOUS
<1>1. Bags \subseteq [Slots -> SlotType] BY DEF Bags, Items0
<1>2. \A f : Readable(f) => (Whole(f) => \A e, d \in f.holds : e.slot \in Slots /\ (e.slot = d.slot => e = d))
  BY DEF Readable, Element
<1>3. ~Whole(NoFile) BY DEF Whole, NoFile
<1> QED BY <1>1, <1>2, <1>3 DEF SavesIInv, SavesTypeOK, AtSave

\* A bag always holds numbers the session can show, and a companion file describes each
\* slot once, although saves are interrupted and read under other numberings.
THEOREM SavesTypeCorrect == SavesSpec => []SavesTypeOK
BY SavesTyped, SavesInitInv, SavesStepInv, PTL DEF SavesSpec

\* However a save ends, the companion is the file there was, the complete new one or, once the
\* new one was complete beside it, none; the save may fail or be cut off at every step.
THEOREM SavesEndWhole == SavesSpec => SaveEnds
<1> DEFINE Ends == pc \in Saving /\ pc' \notin Saving
                   => disk' \in {old, File(Elements(bag))} \/ (disk' = NoFile /\ pc = "renaming")
<1>1. SavesIInv /\ [SavesNext]_savesVars => Ends
  <2> SUFFICES ASSUME SavesIInv, [SavesNext]_savesVars, pc \in Saving, pc' \notin Saving
               PROVE  disk' \in {old, File(Elements(bag))} \/ (disk' = NoFile /\ pc = "renaming")
    OBVIOUS
  <2>1. WriteFails \/ Rename \/ RenameFails \/ Stop
    BY DEF SavesNext, savesVars, Start, NewGame, Load, Put, SaveGame, OpenTmp, WriteTmp, RemoveOld, ToMenu,
           EraseCompanion, EraseGame, Saving
  <2> QED BY <2>1 DEF SavesIInv, AtSave, Saving, WriteFails, Rename, RenameFails, Stop
<1>2. SavesIInv /\ [SavesNext]_savesVars => [Ends]_savesVars BY <1>1
<1> QED BY <1>2, SavesInitInv, SavesStepInv, PTL DEF SavesSpec, SaveEnds

\* Loading what one save put on disk gives back every item of every slot as itself, for any two sets
\* of mods, or as the placeholder when its mod is missing: never as another mod's.
THEOREM SavesLoadRestores == SavesSpec => LoadRestores
<1> DEFINE Restores == Load /\ inSync /\ (\A s \in Slots : truth[s].type # <<"mod", NoName>>)
                       => \A s \in Slots : Seen(bag[s])' = Expected(truth[s])
<1>1. SavesIInv => Restores
  <2> SUFFICES ASSUME SavesIInv, Load, inSync, \A s \in Slots : truth[s].type # <<"mod", NoName>>, NEW s \in Slots
               PROVE  Seen(bag[s])' = Expected(truth[s])
    OBVIOUS
  <2> DEFINE g == gameFile.holds  it == g[s]  seen == truth[s]
  <2>1. g \in Bags /\ it \in Items0 /\ Fits(it, seen) /\ loaded \subseteq Mods /\ seen.type # <<"mod", NoName>>
    BY DEF SavesIInv, Load, Bags
  <2>2. Whole(disk) /\ disk.holds = Descriptions(g, truth) BY DEF SavesIInv
  <2>3. bag' = Sanitize(Overlay(g, disk)) /\ loaded' = loaded BY DEF Load
  <2>4. Numbering BY <2>1, NumberingHolds
  <2>5. ItemBase \in Nat \ {0} /\ PrefixBase \in Nat \ {0} BY SavesAssumption DEF SavesAssumption
  <2>6. it.type \in Nat /\ it.prefix \in Nat /\ (it.type = 0 => it.prefix = 0) BY <2>1, ItemsTyped
  <2>7. Seen(Overlay(g, disk)[s]) = Expected(seen) /\ Overlay(g, disk)[s].type < ItemCount
    <3>1. CASE OfMods(it)
      <4> DEFINE d == [slot |-> s, item |-> Described(it, seen)]
      <4>1. d \in disk.holds BY <2>2, <3>1 DEF Descriptions
      <4>2. \A e \in disk.holds : e.slot = s => e = d BY <2>2 DEF Descriptions
      <4>3. (CHOOSE x \in disk.holds : x.slot = s) = d BY <4>1, <4>2
      <4>4. Overlay(g, disk)[s] = [type |-> ResolveType(d.item), prefix |-> ResolvePrefix(d.item)]
        BY <2>2, <4>1, <4>3 DEF Overlay
      <4>5. d.item \in [id : Nat \ {0}, name : NamesSaved, prefix : Nat, pname : NamesSaved]
        BY <2>2, <4>1 DEF SavesIInv, Readable, Element
      <4>6. ResolveType(d.item) < ItemCount BY <2>1, <4>5, ResolvedInRange
      <4> QED BY <2>1, <4>4, <4>6, ResolveDescribed
    <3>2. CASE ~OfMods(it)
      <4>1. \A e \in disk.holds : e.slot # s BY <2>2, <3>2 DEF Descriptions
      <4>2. Overlay(g, disk)[s] = it BY <4>1 DEF Overlay
      <4>3. it.type < ItemBase /\ it.prefix < PrefixBase BY <2>5, <2>6, <3>2 DEF OfMods
      <4>4. Seen(it) = Expected(seen) BY <2>1, <4>3 DEF Fits, Seen, Expected
      <4>5. it.type < ItemCount BY <2>4, <2>5, <2>6, <4>3 DEF Numbering
      <4> QED BY <4>2, <4>4, <4>5
    <3> QED BY <3>1, <3>2
  <2>8. bag'[s] = Overlay(g, disk)[s]
    <3>1. Overlay(g, disk)[s].type \in Nat
      <4>1. CASE \E e \in disk.holds : e.slot = s
        <5> DEFINE e == CHOOSE x \in disk.holds : x.slot = s
        <5>1. e.item \in [id : Nat \ {0}, name : NamesSaved, prefix : Nat, pname : NamesSaved]
          BY <2>2, <4>1 DEF SavesIInv, Readable, Element
        <5>2. Overlay(g, disk)[s].type = ResolveType(e.item) BY <2>2, <4>1 DEF Overlay
        <5> QED BY <2>1, <5>1, <5>2, ResolvedInRange
      <4>2. CASE ~\E e \in disk.holds : e.slot = s BY <2>6, <4>2 DEF Overlay
      <4> QED BY <4>1, <4>2
    <3>2. ~(Overlay(g, disk)[s].type >= ItemCount) BY <2>4, <2>7, <3>1 DEF Numbering
    <3> QED BY <2>3, <3>2 DEF Sanitize
  <2>9. Seen(bag[s])' = Seen(bag'[s]) BY <2>3 DEF Seen, NameOfType, NameOfPrefix, TypeOf, PrefixOf, ItemNames
  <2> QED BY <2>7, <2>8, <2>9
<1>2. SavesIInv /\ [SavesNext]_savesVars => [Restores]_savesVars BY <1>1
<1> QED BY <1>2, SavesInitInv, SavesStepInv, PTL DEF SavesSpec, LoadRestores

--------------------------------------------------------------------------------
(* The handshake.                                                             *)
\* The errors the comparison may leave for a peer: one, unless its packet is read wrongly.
Verdict(p) == ParseErrors(ConnectPacket(peer[p]))

Judged ==
  \A p \in asked : Hooked(server) =>
    /\ slotOf[p] # NoSlot => errors[slotOf[p]] \in Verdict(p)
    /\ told[p] \in {"version", "mods"} => told[p] \in Verdict(p)

LetIn == \A p \in joined : Hooked(server) /\ Hooked(peer[p]) => "none" \in Verdict(p)

\* A peer has a slot, was kicked, or has sent nothing yet.
Turns ==
  \A p \in Peers : /\ slotOf[p] # NoSlot => told[p] = NoText
                   /\ p \in asked /\ slotOf[p] = NoSlot => told[p] # NoText

NodesTyped == server \in ServerKinds /\ peer \in [Peers -> PeerKinds]

NetIInv == NetTypeOK /\ asked \subseteq Peers /\ NodesTyped /\ Judged /\ LetIn /\ Turns

-----------------------------------------------------------------------------
LEMMA Verdicts == \A packet : ParseErrors(packet) \subseteq {"none", "version", "mods"}
BY DEF ParseErrors

LEMMA ListShape ==
  ASSUME NEW l, IsList(l)
  PROVE  /\ DOMAIN l = 1..Len(l) /\ Len(l) \in Nat
         /\ \A i \in DOMAIN l : l[i] = [id |-> l[i].id, version |-> l[i].version]
<1> DEFINE S == [id : {l[i].id : i \in DOMAIN l}, version : Int]
<1>1. l \in Seq(S) BY DEF IsList
<1>2. \A e \in S : e = [id |-> e.id, version |-> e.version] OBVIOUS
<1> HIDE DEF S
<1>3. DOMAIN l = 1..Len(l) /\ Len(l) \in Nat BY <1>1
<1>4. \A i \in DOMAIN l : l[i] \in S BY <1>1, <1>3
<1> QED BY <1>2, <1>3, <1>4

\* Lists that do not differ have the same entries.
LEMMA SameEntries ==
  ASSUME NEW local, NEW remote, IsList(local), IsList(remote), ~Differs(local, remote)
  PROVE  EntriesOf(local) = EntriesOf(remote)
<1>1. /\ \A k \in DOMAIN local : local[k] = [id |-> local[k].id, version |-> local[k].version]
      /\ \A j \in DOMAIN remote : remote[j] = [id |-> remote[j].id, version |-> remote[j].version]
  BY ListShape
<1>2. Missing(local, remote) = {} /\ WrongVersion(local, remote) = {} /\ Extra(local, remote) = {}
  BY DEF Differs
<1>3. ASSUME NEW k \in DOMAIN local, NEW j \in Partner(local[k], remote)
      PROVE  j \in DOMAIN remote /\ remote[j] = local[k]
  <2>1. j \in DOMAIN remote /\ remote[j].id = local[k].id BY DEF Partner
  <2>2. remote[j].version = local[k].version BY <1>2 DEF WrongVersion
  <2> QED BY <1>1, <2>1, <2>2
<1>4. ASSUME NEW k \in DOMAIN local PROVE local[k] \in EntriesOf(remote)
  <2>1. PICK j \in Partner(local[k], remote) : TRUE BY <1>2 DEF Missing
  <2> QED BY <1>3, <2>1 DEF EntriesOf
<1>5. ASSUME NEW j \in DOMAIN remote PROVE remote[j] \in EntriesOf(local)
  <2>1. PICK k \in DOMAIN local : j \in Partner(local[k], remote) BY <1>2 DEF Extra
  <2> QED BY <1>3, <2>1 DEF EntriesOf
<1> QED BY <1>4, <1>5 DEF EntriesOf

\* Lists with the same entries, none of them twice, do not differ.
LEMMA NoDifference ==
  ASSUME NEW local, NEW remote, IsList(local), IsList(remote), OnceEach(local), OnceEach(remote),
         EntriesOf(local) = EntriesOf(remote)
  PROVE  ~Differs(local, remote)
<1>1. DOMAIN remote = 1..Len(remote) /\ Len(remote) \in Nat BY ListShape
<1>2. ASSUME NEW k \in DOMAIN local, NEW j \in DOMAIN remote, remote[j] = local[k]
      PROVE  Partner(local[k], remote) = {j}
  <2>1. \A i \in DOMAIN remote : remote[i].id = local[k].id => i = j BY <1>2 DEF OnceEach
  <2>2. \A i \in 1..(j - 1) : i \in DOMAIN remote /\ i # j BY <1>1
  <2> QED BY <1>2, <2>1, <2>2 DEF Partner
<1>3. Missing(local, remote) = {} BY <1>2 DEF Missing, EntriesOf
<1>4. WrongVersion(local, remote) = {}
  <2> SUFFICES ASSUME NEW k \in DOMAIN local, NEW i \in Partner(local[k], remote)
               PROVE  remote[i].version = local[k].version
    BY DEF WrongVersion
  <2>1. PICK j \in DOMAIN remote : remote[j] = local[k] BY DEF EntriesOf
  <2> QED BY <1>2, <2>1
<1>5. Extra(local, remote) = {}
  <2> SUFFICES ASSUME NEW j \in DOMAIN remote PROVE \E k \in DOMAIN local : j \in Partner(local[k], remote)
    BY DEF Extra
  <2>1. PICK k \in DOMAIN local : remote[j] = local[k] BY DEF EntriesOf
  <2> QED BY <1>2, <2>1
<1> QED BY <1>3, <1>4, <1>5 DEF Differs

\* Without repetition, the number of entries is the length.
LEMMA EntryCount ==
  ASSUME NEW l, IsList(l), OnceEach(l)
  PROVE  Cardinality(EntriesOf(l)) = Len(l)
<1> DEFINE f == [i \in 1..Len(l) |-> l[i]]
<1>1. DOMAIN l = 1..Len(l) /\ Len(l) \in Nat BY ListShape
<1>2. f \in Surjection(1..Len(l), EntriesOf(l)) BY <1>1 DEF Surjection, EntriesOf
<1>3. f \in Injection(1..Len(l), EntriesOf(l)) BY <1>1, <1>2 DEF Injection, IsInjective, Surjection, OnceEach
<1>4. IsFiniteSet(1..Len(l)) /\ Cardinality(1..Len(l)) = Len(l)
  <2>1. \A n \in Nat : IsFiniteSet(1..n) /\ Cardinality(1..n) = IF 1 > n THEN 0 ELSE n - 1 + 1
    <3> TAKE n \in Nat
    <3> QED BY ONLY 1 \in Int, n \in Int, FS_Interval
  <2>2. \A n \in Nat : (IF 1 > n THEN 0 ELSE n - 1 + 1) = n OBVIOUS
  <2> QED BY <1>1, <2>1, <2>2, Zenon
<1> HIDE DEF f
<1> QED BY <1>2, <1>3, <1>4, FS_Surjection

LEMMA Listed ==
  ASSUME NodesTyped, NEW p \in Peers
  PROVE  IsList(server.modules) /\ IsList(server.mods) /\ IsList(peer[p].modules) /\ IsList(peer[p].mods)
BY NetAssumption DEF NetAssumption, NodesTyped

\* The comparison of a peer with the kernel, in both directions.
LEMMA VerdictMeaning ==
  ASSUME NodesTyped, NEW p \in Peers, Hooked(server), Hooked(peer[p]), WithinLimits(server), WithinLimits(peer[p])
  PROVE  /\ "none" \in Verdict(p) => Matches(peer[p])
         /\ Matches(peer[p]) /\ Distinct(peer[p]) /\ Distinct(server) => Verdict(p) = {"none"}
<1> DEFINE n == peer[p]
<1>1. IsList(server.modules) /\ IsList(server.mods) /\ IsList(n.modules) /\ IsList(n.mods) BY Listed
<1>2. n.kernel BY DEF Hooked
<1>3. ConnectPacket(n) = [magic |-> "kernel", from |-> n] BY DEF ConnectPacket
<1>4. /\ Kept(server.modules, MaxModules) = server.modules
      /\ Kept(server.mods, MaxMods) = server.mods /\ Kept(n.mods, MaxMods) = n.mods
  BY DEF Kept, WithinLimits
<1>5. CompareVersions(n) = {SameLists(n)}
  <2>1. ~(Len(n.modules) > MaxModules)
    <3>1. Len(n.modules) \in Nat /\ MaxModules \in Nat BY <1>1, ListShape, NetAssumption DEF NetAssumption
    <3> QED BY <3>1 DEF WithinLimits
  <2> QED BY <2>1 DEF CompareVersions, Misread, WithinLimits
<1>6. Verdict(p) = IF n.version # server.version THEN {"version"} ELSE {IF SameLists(n) THEN "none" ELSE "mods"}
  BY <1>3, <1>5 DEF Verdict, ParseErrors
<1>7. ASSUME SameLists(n)
      PROVE  EntriesOf(n.modules) = EntriesOf(server.modules) /\ EntriesOf(n.mods) = EntriesOf(server.mods)
  BY <1>1, <1>4, <1>7, SameEntries DEF SameLists
<1>8. ASSUME Matches(n), Distinct(n), Distinct(server) PROVE SameLists(n)
  <2>1. ~Differs(server.modules, n.modules) /\ ~Differs(server.mods, n.mods)
    BY <1>1, <1>8, NoDifference DEF Matches, Distinct
  <2>2. Len(server.modules) = Len(n.modules)
    BY <1>1, <1>8, EntryCount DEF Matches, Distinct
  <2> QED BY <1>4, <2>1, <2>2 DEF SameLists
<1>9. Matches(n) => n.version = server.version BY DEF Matches
<1>10. "none" \in Verdict(p) => n.version = server.version /\ SameLists(n) BY <1>6
<1>11. "none" \in Verdict(p) => Matches(n) BY <1>2, <1>7, <1>10 DEF Matches
<1>12. Matches(n) /\ Distinct(n) /\ Distinct(server) => Verdict(p) = {"none"} BY <1>6, <1>8, <1>9
<1> QED BY <1>11, <1>12

-----------------------------------------------------------------------------
LEMMA NetInitInv == NetInit => NetIInv
<1> SUFFICES ASSUME NetInit PROVE NetIInv OBVIOUS
<1> USE DEF NetInit
<1>1. NetTypeOK BY DEF NetTypeOK, NoText
<1>2. NodesTyped BY DEF NodesTyped
<1>3. Judged /\ LetIn /\ Turns BY DEF Judged, LetIn, Turns
<1> QED BY <1>1, <1>2, <1>3 DEF NetIInv

LEMMA Same == UNCHANGED <<server, peer>> => \A p : Verdict(p)' = Verdict(p)
BY DEF Verdict, ParseErrors, ConnectPacket, CompareVersions, Misread, HasLong, SameLists, Kept

LEMMA ConnectPreserves ==
  ASSUME NetIInv, NEW p \in Peers, NEW s \in ClientSlots, Connect(p, s)
  PROVE  NetIInv'
<1> USE DEF NetIInv, Connect
<1>1. s # NoSlot BY NetAssumption DEF NetAssumption
<1>2. p \notin asked BY DEF Turns
<1>3. NetTypeOK' BY <1>1, <1>2 DEF NetTypeOK
<1>4. \A q \in asked : slotOf'[q] = slotOf[q] BY <1>2 DEF NetTypeOK
<1>5. NodesTyped' BY DEF NodesTyped
<1>6. Judged' BY <1>4, Same DEF Judged
<1>7. LetIn' BY Same DEF LetIn
<1>8. Turns' BY <1>2 DEF Turns, NetTypeOK
<1> QED BY <1>3, <1>5, <1>6, <1>7, <1>8

LEMMA GetConnectPreserves ==
  ASSUME NetIInv, NEW p \in Peers, GetConnect(p)
  PROVE  NetIInv'
<1> USE DEF NetIInv
<1> DEFINE s == slotOf[p]
           packet == ConnectPacket(peer[p])
           passed(err) == IF Hooked(server) /\ err = "none" THEN [magic |-> "game", from |-> server] ELSE packet
<1>0. PICK err \in IF Hooked(server) THEN ParseErrors(packet) ELSE {errors[s]} :
      /\ errors' = [errors EXCEPT ![s] = err]
      /\ \/ GameAccepts(passed(err)) /\ joined' = joined \union {p} /\ UNCHANGED <<slotOf, told>>
         \/ ~GameAccepts(passed(err)) /\ Kick(p, "game", err)
  BY DEF GetConnect
<1>1. /\ s # NoSlot /\ p \notin asked /\ asked' = asked \union {p}
      /\ errors' = [errors EXCEPT ![s] = err] /\ UNCHANGED <<server, peer>>
      /\ \/ GameAccepts(passed(err)) /\ joined' = joined \union {p} /\ UNCHANGED <<slotOf, told>>
         \/ ~GameAccepts(passed(err)) /\ Kick(p, "game", err)
  BY <1>0 DEF GetConnect
<1>2. s \in ClientSlots /\ err \in {"none", "version", "mods"}
  BY <1>1, Verdicts DEF NetTypeOK
<1>3. Hooked(server) => err \in Verdict(p) BY DEF Verdict
<1>4. GameAccepts(passed(err)) /\ Hooked(server) /\ Hooked(peer[p]) => err = "none"
  BY DEF GameAccepts, ConnectPacket
<1> HIDE DEF passed
<1>5. \A q \in Peers : q # p /\ slotOf[q] # NoSlot => slotOf[q] # s /\ errors'[slotOf[q]] = errors[slotOf[q]]
  BY <1>1, <1>2 DEF NetTypeOK
<1>6. errors'[s] = err /\ told[p] = NoText BY <1>1, <1>2 DEF NetTypeOK, Turns
<1>7. NodesTyped' /\ asked' \subseteq Peers BY <1>1 DEF NodesTyped
<1>8. \A q : Verdict(q)' = Verdict(q) BY <1>1, Same
<1>9. CASE GameAccepts(passed(err)) /\ joined' = joined \union {p} /\ UNCHANGED <<slotOf, told>>
  <2>1. NetTypeOK' BY <1>1, <1>2, <1>9 DEF NetTypeOK
  <2>2. Judged' BY <1>1, <1>3, <1>5, <1>6, <1>8, <1>9 DEF Judged, NoText
  <2>3. LetIn' BY <1>1, <1>3, <1>4, <1>8, <1>9 DEF LetIn
  <2>4. Turns' BY <1>1, <1>9 DEF Turns
  <2> QED BY <1>7, <2>1, <2>2, <2>3, <2>4
<1>10. CASE Kick(p, "game", err)
  <2> USE <1>10 DEF Kick
  <2>1. NetTypeOK' BY <1>1, <1>2 DEF NetTypeOK
  <2>2. told' = [told EXCEPT ![p] = IF err = "none" THEN "game" ELSE err] /\ told'[p] # NoText
    BY <1>2 DEF NetTypeOK, NoText
  <2>3. slotOf'[p] = NoSlot /\ \A q \in Peers : q # p => slotOf'[q] = slotOf[q] /\ told'[q] = told[q]
    BY DEF NetTypeOK
  <2>4. told'[p] \in {"version", "mods"} => told'[p] = err BY <2>2 DEF NetTypeOK
  <2>5. Judged' BY <1>1, <1>3, <1>5, <1>8, <2>3, <2>4 DEF Judged
  <2>6. LetIn' BY <1>1, <1>8 DEF LetIn
  <2>7. Turns' BY <1>1, <2>2, <2>3 DEF Turns
  <2> QED BY <1>7, <2>1, <2>5, <2>6, <2>7
<1> QED BY <1>1, <1>9, <1>10

LEMMA PartPreserves ==
  ASSUME NetIInv, NEW p \in Peers, GameKicks(p) \/ Leave(p) \/ Retry(p)
  PROVE  NetIInv'
<1> USE DEF NetIInv
<1>1. \A q : Verdict(q)' = Verdict(q) BY Same DEF GameKicks, Leave, Retry
<1>2. NodesTyped' /\ asked' \subseteq Peers BY DEF NodesTyped, GameKicks, Leave, Retry
<1>3. CASE GameKicks(p)
  <2> DEFINE err == errors[slotOf[p]]
  <2> USE <1>3 DEF GameKicks, Kick
  <2>1. slotOf[p] # NoSlot /\ err \in {"none", "version", "mods"} BY DEF NetTypeOK
  <2>2. told' = [told EXCEPT ![p] = IF err = "none" THEN "game" ELSE err]
        /\ slotOf' = [slotOf EXCEPT ![p] = NoSlot] /\ joined' = joined \ {p} /\ UNCHANGED <<asked, errors, server>>
    OBVIOUS
  <2> HIDE DEF err
  <2>3. slotOf'[p] = NoSlot /\ \A q \in Peers : q # p => slotOf'[q] = slotOf[q] /\ told'[q] = told[q]
    BY <2>2 DEF NetTypeOK
  <2>4. told'[p] # NoText /\ (told'[p] \in {"version", "mods"} => told'[p] = err)
    BY <2>1, <2>2 DEF NetTypeOK, NoText
  <2>5. NetTypeOK' BY <2>1, <2>2 DEF NetTypeOK
  <2>6. p \in asked /\ Hooked(server) => err \in Verdict(p) BY <2>1 DEF Judged, err
  <2>7. Judged' BY <1>1, <2>2, <2>3, <2>4, <2>6 DEF Judged
  <2>8. LetIn' BY <1>1, <2>2 DEF LetIn
  <2>9. Turns' BY <2>2, <2>3, <2>4 DEF Turns
  <2> QED BY <1>2, <2>5, <2>7, <2>8, <2>9
<1>4. CASE Leave(p)
  <2> USE <1>4 DEF Leave
  <2>1. NetTypeOK' BY DEF NetTypeOK
  <2>2. \A q \in Peers : q # p => slotOf'[q] = slotOf[q] BY DEF NetTypeOK
  <2>3. Judged' BY <1>1, <2>2 DEF Judged
  <2>4. LetIn' BY <1>1 DEF LetIn
  <2>5. slotOf'[p] = NoSlot BY DEF NetTypeOK
  <2>6. Turns' BY <2>2, <2>5 DEF Turns
  <2> QED BY <1>2, <2>1, <2>3, <2>4, <2>6
<1>5. CASE Retry(p)
  <2> USE <1>5 DEF Retry
  <2>1. slotOf[p] = NoSlot BY DEF Turns
  <2>2. NetTypeOK' BY <2>1 DEF NetTypeOK, NoText
  <2>3. \A q \in Peers : q # p => told'[q] = told[q] BY DEF NetTypeOK
  <2>4. Judged' BY <1>1, <2>3 DEF Judged
  <2>5. LetIn' BY <1>1 DEF LetIn
  <2>6. Turns' BY <2>1, <2>3 DEF Turns
  <2> QED BY <1>2, <2>2, <2>4, <2>5, <2>6
<1> QED BY <1>3, <1>4, <1>5

LEMMA NetStepInv == NetIInv /\ [NetNext]_netVars => NetIInv'
<1> SUFFICES ASSUME NetIInv, [NetNext]_netVars PROVE NetIInv' OBVIOUS
<1>1. CASE UNCHANGED netVars
  <2>1. \A q : Verdict(q)' = Verdict(q) BY <1>1, Same DEF netVars
  <2> QED BY <1>1, <2>1 DEF netVars, NetIInv, NetTypeOK, NodesTyped, Judged, LetIn, Turns
<1>2. CASE NetNext BY <1>2, ConnectPreserves, GetConnectPreserves, PartPreserves DEF NetNext
<1> QED BY <1>1, <1>2

-----------------------------------------------------------------------------
\* A slot belongs to one peer at a time, and only a peer that asked plays.
THEOREM NetTypeCorrect == NetSpec => []NetTypeOK
<1>1. NetIInv => NetTypeOK BY DEF NetIInv
<1> QED BY <1>1, NetInitInv, NetStepInv, PTL DEF NetSpec

\* For lists that fit, a peer with the kernel plays on a server with mods only if it has the same
\* kernel, modules and mods; and one that has, none of them twice, is not told that it differs once
\* its connect packet came, whoever had the slot before.
THEOREM NetKernelPeersMatch == NetSpec => []KernelPeersMatch
<1>1. NetIInv => KernelPeersMatch
  <2> SUFFICES ASSUME NetIInv, NEW p \in Peers, Hooked(server), Hooked(peer[p]), WithinLimits(server), WithinLimits(peer[p])
               PROVE  /\ p \in joined => Matches(peer[p])
                      /\ p \in asked /\ told[p] \in {"version", "mods"} =>
                           ~Matches(peer[p]) \/ ~Distinct(peer[p]) \/ ~Distinct(server)
    BY DEF KernelPeersMatch
  <2> USE DEF NetIInv
  <2>1. p \in joined => "none" \in Verdict(p) BY DEF LetIn
  <2>2. p \in asked /\ told[p] \in {"version", "mods"} => Verdict(p) # {"none"} BY DEF Judged
  <2> QED BY <2>1, <2>2, VerdictMeaning
<1> QED BY <1>1, NetInitInv, NetStepInv, PTL DEF NetSpec

--------------------------------------------------------------------------------
(* The package file.                                                          *)
PkgEntry  == [content : Contents, offset : Nat]
PkgBlock  == Contents \X Nat
PkgTable  == PkgEntry \union {NoEntry}
PkgSeal   == [count : Nat, dataSize : Nat, entries : Seq(PkgTable)]
PkgHeader == [count : Nat, dataSize : Nat, seal : PkgSeal, signature : [by : Fingerprints \union {NoFingerprint}, over : PkgSeal]]
PkgFile   == [header : Seq(PkgHeader \union {Hole}), table : Seq(PkgTable \union {Hole}), data : Seq(PkgBlock \union {Hole})]
HeaderPiece == [part : {"header"}, at : {1}, what : PkgHeader]
TablePiece  == [part : {"table"}, at : 1..Reserved, what : PkgTable]
DataPiece   == [part : {"data"}, at : Nat \ {0}, what : PkgBlock]
Piece       == HeaderPiece \union TablePiece \union DataPiece

Past(e) == e.offset + SizeOf[e.content]
\* What d has of the data of e is right; and it has them all.
Agrees(e, d) == \A k \in 1..SizeOf[e.content] : e.offset + k <= Len(d) => d[e.offset + k] = <<e.content, k>>
Covers(d, e)  == Past(e) <= Len(d) /\ Agrees(e, d)
\* A write that does not spoil e, and that does not change entries up to n at all.
Spares(w, e) == w.part = "data" =>
                  \A k \in 1..SizeOf[e.content] : w.at = e.offset + k => w.what = <<e.content, k>>

\* How much of a part the file has.
Extent(f, p) == IF p = "header" THEN Len(f.header) ELSE IF p = "table" THEN Len(f.table) ELSE Len(f.data)
\* Rows of writes go on where the file ends, or where the write before ended.
InRow(ws, f) ==
  \A i \in DOMAIN ws : \/ ws[i].at <= Extent(f, ws[i].part) + 1
                       \/ i > 1 /\ ws[i-1].part = ws[i].part /\ ws[i].at = ws[i-1].at + 1

Seals == {onDisk.header[i].seal : i \in DOMAIN onDisk.header} \union
         {writes[i].what.seal : i \in {j \in DOMAIN writes : writes[j].part = "header"}}

\* What is sealed on disk, or about to be, is what the data say.
SealHolds(s) ==
  \A i \in 1..s.count :
    /\ s.entries[i] \in PkgEntry /\ Agrees(s.entries[i], onDisk.data)
    /\ \A j \in DOMAIN writes : Spares(writes[j], s.entries[i])
    /\ access = "readwrite" => Past(s.entries[i]) <= TotalSize(entries)

TableInv ==
  /\ access \in {"closed", "memory", "readwrite"}
  /\ header \in PkgHeader /\ entries \in Seq(PkgEntry) /\ header.count = Len(entries) /\ header.count <= Reserved
  /\ data \in Seq(PkgBlock) /\ onDisk \in PkgFile /\ writes \in Seq(Piece) /\ adding \in PkgTable
  /\ flush \in {"ok", "fails", "failed"}
  /\ \A i \in DOMAIN entries : Past(entries[i]) <= TotalSize(entries)
  /\ access = "closed" => writes = <<>>
  /\ Len(onDisk.header) <= 1 /\ Len(onDisk.table) <= Reserved
DiskInv == InRow(writes, onDisk) /\ \A s \in Seals : SealHolds(s)
MemoryInv == access = "memory" =>
  /\ Len(data) = TotalSize(entries) /\ header.dataSize = Len(data)
  /\ \A i \in DOMAIN entries : Covers(data, entries[i])
FileInv == access = "readwrite" =>
  /\ TotalSize(entries) <= Len(onDisk.data)
  /\ \A i \in DOMAIN entries : Covers(onDisk.data, entries[i])
  /\ \A i \in DOMAIN writes : writes[i].part = "data" => writes[i].at > TotalSize(entries)

\* The blocks of an entry from the one after n on.
Rest(e, n) == [i \in 1..(SizeOf[e.content] - n) |-> [part |-> "data", at |-> e.offset + (n + i), what |-> <<e.content, n + i>>]]
WaitInv == adding # NoEntry =>
  access = "readwrite" /\ adding.offset = TotalSize(entries) /\ header.count < Reserved /\ writes # <<>>
AddInv == adding # NoEntry =>
  \E n \in 0..(SizeOf[adding.content] - 1) :
    /\ writes = Rest(adding, n)
    /\ adding.offset + n <= Len(onDisk.data)
    /\ \A k \in 1..n : onDisk.data[adding.offset + k] = <<adding.content, k>>
\* What no lost write can change, and what holds of a file that has lost none.
Stands   == TableInv /\ MemoryInv /\ WaitInv
Lossless == DiskInv /\ FileInv /\ AddInv
PackageIInv == Stands /\ (flush = "ok" => Lossless)

-----------------------------------------------------------------------------
\* Every content has at least one block.
LEMMA SizesOf == \A c \in Contents : SizeOf[c] \in Nat /\ SizeOf[c] >= 1 /\ 1 \in 1..SizeOf[c]
BY PackageAssumption DEF PackageAssumption

\* The loop that adds the sizes up.
LEMMA TotalSteps ==
  ASSUME NEW s \in Seq(PkgEntry)
  PROVE  /\ TotalSize(s) \in Nat
         /\ \A e \in PkgEntry : TotalSize(Append(s, e)) = TotalSize(s) + SizeOf[e.content]
<1> DEFINE Sums(r, f) == f = [n \in 0..Len(r) |-> IF n = 0 THEN 0 ELSE f[n-1] + SizeOf[r[n].content]]
           tot(r) == CHOOSE f : Sums(r, f)
<1>1. \A r : TotalSize(r) = tot(r)[Len(r)] BY DEF TotalSize
<1> HIDE DEF tot
<1>2. ASSUME NEW r \in Seq(PkgEntry) PROVE Sums(r, tot(r)) /\ tot(r) \in [0..Len(r) -> Nat]
  <2> DEFINE n == Len(r)
             step == [x \in (1..n) \X Nat |-> x[2] + SizeOf[r[x[1]].content]]
  <2>1. n \in Nat BY LenProperties
  <2>2. \A i \in 1..n : r[i] \in PkgEntry /\ SizeOf[r[i].content] \in Nat
    <3> SUFFICES ASSUME NEW i \in 1..n PROVE r[i] \in PkgEntry /\ SizeOf[r[i].content] \in Nat OBVIOUS
    <3>1. r[i] \in PkgEntry BY ElementOfSeq
    <3> QED BY <3>1, SizesOf DEF PkgEntry
  <2>3. step \in [(1..n) \X Nat -> Nat] BY <2>2
  <2>4. PICK f \in [0..n -> Nat] : Solves(f, n, 0, step)
    <3> HIDE DEF n, step
    <3>1. 0 \in Nat OBVIOUS
    <3> QED BY <2>1, <2>3, <3>1, Recursion
  <2>5. \A i \in 0..n : f[i] = IF i = 0 THEN 0 ELSE f[i-1] + SizeOf[r[i].content]
    <3> SUFFICES ASSUME NEW i \in 0..n PROVE f[i] = IF i = 0 THEN 0 ELSE f[i-1] + SizeOf[r[i].content] OBVIOUS
    <3>1. f[i] = IF i = 0 THEN 0 ELSE step[<<i, f[i-1]>>] BY <2>4 DEF Solves
    <3>2. i # 0 => i \in 1..n /\ f[i-1] \in Nat BY <2>1
    <3> QED BY <3>1, <3>2
  <2>6. Sums(r, f) BY <2>4, <2>5
  <2>7. Sums(r, tot(r))
    <3> HIDE DEF Sums
    <3> QED BY <2>6 DEF tot
  <2>8. \A i \in 0..n : tot(r)[i] = f[i]
    <3> DEFINE P == {i \in 0..n : tot(r)[i] = f[i]}
    <3>1. \A i \in 0..n : tot(r)[i] = IF i = 0 THEN 0 ELSE tot(r)[i-1] + SizeOf[r[i].content] BY <2>7
    <3>2. 0 \in P BY <2>1, <2>5, <3>1
    <3>3. ASSUME NEW i \in 0..n, i # n, i \in P PROVE i + 1 \in P
      <4>1. i + 1 \in 0..n /\ i + 1 # 0 /\ (i + 1) - 1 = i BY <2>1, <3>3
      <4>2. tot(r)[i] = f[i] BY <3>3
      <4> QED BY <2>5, <3>1, <4>1, <4>2
    <3> HIDE DEF P, n
    <3>4. \A i \in 0..n : i \in P BY <2>1, <3>2, <3>3, Climb
    <3> QED BY <3>4 DEF P
  <2>9. tot(r) = [i \in 0..n |-> tot(r)[i]] BY <2>7
  <2> HIDE DEF Sums, n
  <2>10. tot(r) \in [0..n -> Nat] BY <2>4, <2>8, <2>9
  <2> QED BY <2>7, <2>10 DEF n
<1>3. Len(s) \in Nat BY LenProperties
<1>4. TotalSize(s) \in Nat
  <2>1. tot(s) \in [0..Len(s) -> Nat] BY <1>2
  <2>2. Len(s) \in 0..Len(s) BY <1>3
  <2> QED BY <1>1, <2>1, <2>2
<1>5. ASSUME NEW e \in PkgEntry PROVE TotalSize(Append(s, e)) = TotalSize(s) + SizeOf[e.content]
  <2> DEFINE r == Append(s, e)  n == Len(s)
  <2>1. r \in Seq(PkgEntry) /\ Len(r) = n + 1 /\ r[n+1] = e /\ \A i \in 1..n : r[i] = s[i] BY AppendProperties
  <2> HIDE DEF r
  <2>2. \A i \in 0..n : tot(s)[i] = IF i = 0 THEN 0 ELSE tot(s)[i-1] + SizeOf[s[i].content]
    <3>1. Sums(s, tot(s)) BY <1>2
    <3> QED BY <3>1
  <2>3. \A i \in 0..(n+1) : tot(r)[i] = IF i = 0 THEN 0 ELSE tot(r)[i-1] + SizeOf[r[i].content]
    <3>1. Sums(r, tot(r)) BY <1>2, <2>1
    <3> QED BY <2>1, <3>1
  <2> HIDE DEF Sums
  <2>4. \A i \in 0..n : tot(r)[i] = tot(s)[i]
    <3> DEFINE P == {i \in 0..n : tot(r)[i] = tot(s)[i]}
    <3>1. 0 \in P BY <1>3, <2>2, <2>3
    <3>2. ASSUME NEW i \in 0..n, i # n, i \in P PROVE i + 1 \in P
      <4>1. i + 1 \in 0..n /\ i + 1 \in 0..(n+1) /\ i + 1 # 0 /\ (i + 1) - 1 = i /\ i + 1 \in 1..n BY <1>3, <3>2
      <4>2. tot(r)[i] = tot(s)[i] BY <3>2
      <4>3. r[i+1] = s[i+1] BY <2>1, <4>1
      <4> QED BY <2>2, <2>3, <4>1, <4>2, <4>3
    <3> HIDE DEF P, n
    <3>3. \A i \in 0..n : i \in P BY <1>3, <3>1, <3>2, Climb DEF n
    <3> QED BY <3>3 DEF P
  <2>5. n + 1 \in 0..(n+1) /\ n + 1 # 0 /\ (n + 1) - 1 = n /\ n \in 0..n BY <1>3
  <2>6. tot(r)[n+1] = tot(s)[n] + SizeOf[e.content] BY <2>1, <2>3, <2>4, <2>5
  <2> QED BY <1>1, <2>1, <2>6 DEF r
<1> QED BY <1>4, <1>5

\* An empty table takes no room.
LEMMA TotalOfNone == TotalSize(<<>>) = 0
<1> DEFINE Sums(f) == f = [n \in 0..0 |-> IF n = 0 THEN 0 ELSE f[n-1] + SizeOf[<<>>[n].content]]
           tot == CHOOSE f : Sums(f)
<1>1. TotalSize(<<>>) = tot[0] BY DEF TotalSize
<1>2. Sums([n \in 0..0 |-> 0]) OBVIOUS
<1>3. Sums(tot) 
  <2> HIDE DEF Sums
  <2> QED BY <1>2
<1> HIDE DEF tot
<1> QED BY <1>1, <1>3

-----------------------------------------------------------------------------
(* What is written where. *)
\* Writing at a place of a row, or behind its end.
LEMMA PutAtPuts ==
  ASSUME NEW S, NEW s \in Seq(S), Hole \in S, NEW x \in S, NEW i \in Nat \ {0}
  PROVE  /\ PutAt(s, i, x) \in Seq(S) /\ PutAt(s, i, x)[i] = x
         /\ Len(PutAt(s, i, x)) = IF i <= Len(s) THEN Len(s) ELSE i
         /\ Len(PutAt(s, i, x)) \in Nat /\ i <= Len(PutAt(s, i, x)) /\ Len(s) <= Len(PutAt(s, i, x))
         /\ Len(PutAt(s, i, x)) <= Len(s) \/ Len(PutAt(s, i, x)) = i
         /\ \A k \in 1..Len(s) : k # i => PutAt(s, i, x)[k] = s[k]
<1>0. Len(s) \in Nat /\ \A k \in 1..Len(s) : s[k] \in S BY LenProperties, ElementOfSeq
<1> DEFINE n == IF i <= Len(s) THEN Len(s) ELSE i
           r == PutAt(s, i, x)
<1>1. r = [k \in 1..n |-> IF k = i THEN x ELSE IF k <= Len(s) THEN s[k] ELSE Hole] BY DEF PutAt
<1>2. n \in Nat /\ i <= n /\ Len(s) <= n /\ i \in 1..n BY <1>0
<1> HIDE DEF n, r
<1>3. r \in [1..n -> S] BY <1>0, <1>1
<1>4. r \in Seq(S) /\ Len(r) = n BY <1>2, <1>3
<1>5. r[i] = x BY <1>1, <1>2
<1>6. \A k \in 1..Len(s) : k # i => r[k] = s[k] BY <1>0, <1>1, <1>2
<1>7. n <= Len(s) \/ n = i BY <1>0 DEF n
<1> QED BY <1>2, <1>4, <1>5, <1>6, <1>7 DEF n, r

\* One fwrite changes one part.
LEMMA WrittenWrites ==
  ASSUME NEW f \in PkgFile, NEW w \in Piece
  PROVE  /\ Written(f, w) \in PkgFile
         /\ w \in HeaderPiece => /\ Written(f, w) = [f EXCEPT !.header = PutAt(f.header, 1, w.what)]
                                 /\ Written(f, w).table = f.table /\ Written(f, w).data = f.data
         /\ w \in TablePiece => /\ Written(f, w).table = PutAt(f.table, w.at, w.what)
                                /\ Written(f, w).header = f.header /\ Written(f, w).data = f.data
         /\ w \in DataPiece => /\ Written(f, w).data = PutAt(f.data, w.at, w.what)
                               /\ Written(f, w).header = f.header /\ Written(f, w).table = f.table
<1>0. f = [header |-> f.header, table |-> f.table, data |-> f.data]
      /\ f.header \in Seq(PkgHeader \union {Hole}) /\ f.table \in Seq(PkgTable \union {Hole})
      /\ f.data \in Seq(PkgBlock \union {Hole})
  BY DEF PkgFile
<1>1. CASE w \in HeaderPiece
  <2>1. w.part = "header" /\ w.at = 1 /\ w.what \in PkgHeader BY <1>1 DEF HeaderPiece
  <2>2. Written(f, w) = [f EXCEPT !.header = PutAt(f.header, 1, w.what)] BY <1>0, <2>1 DEF Written
  <2>4. PutAt(f.header, 1, w.what) \in Seq(PkgHeader \union {Hole})
    <3> DEFINE S == PkgHeader \union {Hole}
    <3>1. 1 \in Nat \ {0} /\ f.header \in Seq(S) /\ w.what \in S /\ Hole \in S BY <1>0, <2>1
    <3> HIDE DEF S
    <3>2. PutAt(f.header, 1, w.what) \in Seq(S) BY <3>1, PutAtPuts
    <3> QED BY <3>2 DEF S
  <2> DEFINE r == PutAt(f.header, 1, w.what)
  <2> HIDE DEF r
  <2>5. [f EXCEPT !.header = r] \in PkgFile /\ [f EXCEPT !.header = r].table = f.table /\ [f EXCEPT !.header = r].data = f.data
    BY <1>0, <2>4 DEF PkgFile, r
  <2>6. w \notin TablePiece /\ w \notin DataPiece BY <2>1 DEF TablePiece, DataPiece
  <2> QED BY <2>2, <2>5, <2>6 DEF r
<1>2. CASE w \in TablePiece
  <2>1. w.part = "table" /\ w.at \in Nat \ {0} /\ w.what \in PkgTable BY <1>2, PackageAssumption DEF TablePiece, PackageAssumption
  <2>2. Written(f, w) = [f EXCEPT !.table = PutAt(f.table, w.at, w.what)] BY <1>0, <2>1 DEF Written
  <2>4. PutAt(f.table, w.at, w.what) \in Seq(PkgTable \union {Hole})
    <3> DEFINE S == PkgTable \union {Hole}
    <3>1. f.table \in Seq(S) /\ w.what \in S /\ Hole \in S BY <1>0, <2>1
    <3> HIDE DEF S
    <3>2. PutAt(f.table, w.at, w.what) \in Seq(S) BY <2>1, <3>1, PutAtPuts
    <3> QED BY <3>2 DEF S
  <2> DEFINE r == PutAt(f.table, w.at, w.what)
  <2> HIDE DEF r
  <2>5. [f EXCEPT !.table = r] \in PkgFile /\ [f EXCEPT !.table = r].header = f.header /\ [f EXCEPT !.table = r].data = f.data
        /\ [f EXCEPT !.table = r].table = r
    BY <1>0, <2>4 DEF PkgFile, r
  <2>6. w \notin HeaderPiece /\ w \notin DataPiece BY <2>1 DEF HeaderPiece, DataPiece
  <2> QED BY <2>2, <2>5, <2>6 DEF r
<1>3. CASE w \in DataPiece
  <2>1. w.part = "data" /\ w.at \in Nat \ {0} /\ w.what \in PkgBlock BY <1>3 DEF DataPiece
  <2>2. Written(f, w) = [f EXCEPT !.data = PutAt(f.data, w.at, w.what)] BY <1>0, <2>1 DEF Written
  <2>4. PutAt(f.data, w.at, w.what) \in Seq(PkgBlock \union {Hole})
    <3> DEFINE S == PkgBlock \union {Hole}
    <3>1. f.data \in Seq(S) /\ w.what \in S /\ Hole \in S BY <1>0, <2>1
    <3> HIDE DEF S
    <3>2. PutAt(f.data, w.at, w.what) \in Seq(S) BY <2>1, <3>1, PutAtPuts
    <3> QED BY <3>2 DEF S
  <2> DEFINE r == PutAt(f.data, w.at, w.what)
  <2> HIDE DEF r
  <2>5. [f EXCEPT !.data = r] \in PkgFile /\ [f EXCEPT !.data = r].header = f.header /\ [f EXCEPT !.data = r].table = f.table
        /\ [f EXCEPT !.data = r].data = r
    BY <1>0, <2>4 DEF PkgFile, r
  <2>6. w \notin HeaderPiece /\ w \notin TablePiece BY <2>1 DEF HeaderPiece, TablePiece
  <2> QED BY <2>2, <2>5, <2>6 DEF r
<1> QED BY <1>1, <1>2, <1>3 DEF Piece

\* The table of entries and its writes.
LEMMA TableOf ==
  ASSUME NEW es \in Seq(PkgEntry)
  PROVE  /\ Table(es) \in Seq(PkgTable)
         /\ \A i \in 1..Reserved : Table(es)[i] \in PkgTable /\ (i <= Len(es) => Table(es)[i] = es[i])
<1>0. Reserved \in Nat BY PackageAssumption DEF PackageAssumption
<1>1. DOMAIN es = 1..Len(es) /\ Len(es) \in Nat /\ \A i \in 1..Len(es) : es[i] \in PkgEntry BY LenProperties, ElementOfSeq
<1>2. Table(es) = [i \in 1..Reserved |-> IF i \in 1..Len(es) THEN es[i] ELSE NoEntry] BY <1>1 DEF Table
<1>3. \A i \in 1..Reserved : Table(es)[i] \in PkgTable /\ (i <= Len(es) => Table(es)[i] = es[i])
  BY <1>1, <1>2, <1>0 DEF PkgTable
<1>4. Table(es) \in [1..Reserved -> PkgTable] BY <1>1, <1>2 DEF PkgTable
<1>5. Table(es) \in Seq(PkgTable)
  <2> DEFINE t == Table(es)
  <2> HIDE DEF t
  <2>1. t \in [1..Reserved -> PkgTable] BY <1>4 DEF t
  <2>2. t \in Seq(PkgTable) BY <1>0, <2>1
  <2> QED BY <2>2 DEF t
<1> QED BY <1>3, <1>5

\* A row of writes: each goes on where the one before ended.
LEMMA SaveRow ==
  ASSUME NEW h \in PkgHeader, NEW es \in Seq(PkgEntry), NEW f \in PkgFile
  PROVE  LET row == HeaderWrite(h) \o TableWrites(es) IN
         /\ row \in Seq(Piece) /\ Len(row) = 1 + Reserved /\ row[1] = [part |-> "header", at |-> 1, what |-> h]
         /\ \A i \in 1..Reserved : row[1 + i] = [part |-> "table", at |-> i, what |-> Table(es)[i]]
         /\ InRow(row, f)
<1> DEFINE row == HeaderWrite(h) \o TableWrites(es)
           a == HeaderWrite(h)  b == TableWrites(es)
<1>0. Reserved \in Nat BY PackageAssumption DEF PackageAssumption
<1>1. a \in Seq(Piece) /\ Len(a) = 1 /\ a[1] = [part |-> "header", at |-> 1, what |-> h]
  BY DEF HeaderWrite, Piece, HeaderPiece
<1>2. b \in Seq(Piece) /\ Len(b) = Reserved /\ \A i \in 1..Reserved : b[i] = [part |-> "table", at |-> i, what |-> Table(es)[i]]
  <2>1. \A i \in 1..Reserved : b[i] = [part |-> "table", at |-> i, what |-> Table(es)[i]] /\ b[i] \in Piece
    BY TableOf DEF TableWrites, Piece, TablePiece
  <2>2. b = [i \in 1..Reserved |-> b[i]] BY DEF TableWrites
  <2> HIDE DEF b
  <2>3. b \in [1..Reserved -> Piece] BY <2>1, <2>2
  <2> QED BY <1>0, <2>1, <2>3
<1> HIDE DEF a, b
<1>3. /\ a \o b \in Seq(Piece) /\ Len(a \o b) = Len(a) + Len(b)
      /\ \A i \in 1..(Len(a) + Len(b)) : (a \o b)[i] = IF i <= Len(a) THEN a[i] ELSE b[i - Len(a)]
  BY <1>1, <1>2, ConcatProperties
<1>4. row = a \o b BY DEF a, b
<1> HIDE DEF row
<1>5. row[1] = a[1] BY <1>0, <1>1, <1>2, <1>3, <1>4
<1>6. \A i \in 1..Reserved : row[1 + i] = b[i]
  <2> SUFFICES ASSUME NEW i \in 1..Reserved PROVE row[1+i] = b[i] OBVIOUS
  <2>1. 1 + i \in 1..(1 + Reserved) /\ ~(1 + i <= 1) /\ (1 + i) - 1 = i BY <1>0
  <2> QED BY <1>1, <1>2, <1>3, <1>4, <2>1
<1>7. row \in Seq(Piece) /\ Len(row) = 1 + Reserved BY <1>1, <1>2, <1>3, <1>4
<1>8. InRow(row, f)
  <2>1. DOMAIN row = 1..(1 + Reserved) BY <1>7, LenProperties
  <2>2. Len(f.header) \in Nat /\ Len(f.table) \in Nat BY LenProperties DEF PkgFile
  <2> SUFFICES ASSUME NEW i \in 1..(1 + Reserved)
               PROVE  \/ row[i].at <= Extent(f, row[i].part) + 1
                      \/ i > 1 /\ row[i-1].part = row[i].part /\ row[i].at = row[i-1].at + 1
    BY <2>1 DEF InRow
  <2>3. CASE i = 1 BY <1>1, <1>5, <2>2, <2>3 DEF Extent
  <2>4. CASE i = 2
    <3>1. 1 \in 1..Reserved /\ i = 1 + 1 BY <1>0, <2>4
    <3>2. row[i] = b[1] BY <1>6, <3>1
    <3> QED BY <1>2, <2>2, <3>1, <3>2 DEF Extent
  <2>5. CASE i > 2
    <3>1. i - 1 \in 1..Reserved /\ i - 2 \in 1..Reserved /\ i = 1 + (i - 1) /\ i - 1 = 1 + (i - 2) /\ i > 1 BY <1>0, <2>5
    <3>2. row[i] = b[i-1] /\ row[i-1] = b[i-2] BY <1>6, <3>1
    <3>3. b[i-1].part = "table" /\ b[i-2].part = "table" /\ b[i-1].at = i - 1 /\ b[i-2].at = i - 2 BY <1>2, <3>1
    <3>4. i - 1 = (i - 2) + 1 BY <1>0
    <3> QED BY <3>1, <3>2, <3>3, <3>4
  <2> QED BY <1>0, <2>3, <2>4, <2>5
<1> QED BY <1>1, <1>2, <1>5, <1>6, <1>7, <1>8 DEF row

\* A function on 1..n is a sequence of length n.
LEMMA FunctionIsSeq ==
  ASSUME NEW S, NEW n \in Nat, NEW g \in [1..n -> S]
  PROVE  g \in Seq(S) /\ Len(g) = n
OBVIOUS

\* Data behind a row.
LEMMA DataRow ==
  ASSUME NEW row \in Seq(Piece), NEW f \in PkgFile, InRow(row, f),
         \A i \in DOMAIN row : row[i].part # "data",
         NEW ds \in Seq(PkgBlock), NEW o \in Nat, o <= Len(f.data)
  PROVE  LET all == row \o DataWrites(ds, o) IN
         /\ all \in Seq(Piece) /\ Len(all) = Len(row) + Len(ds)
         /\ \A i \in 1..Len(row) : all[i] = row[i]
         /\ \A k \in 1..Len(ds) : all[Len(row) + k] = [part |-> "data", at |-> o + k, what |-> ds[k]]
         /\ InRow(all, f)
<1> DEFINE a == row  b == DataWrites(ds, o)  all == a \o b
<1>0. /\ Len(ds) \in Nat /\ DOMAIN ds = 1..Len(ds) /\ \A k \in 1..Len(ds) : ds[k] \in PkgBlock
      /\ Len(a) \in Nat /\ DOMAIN a = 1..Len(a) /\ Len(f.data) \in Nat
  BY LenProperties, ElementOfSeq DEF PkgFile
<1>2. b \in Seq(Piece) /\ Len(b) = Len(ds) /\ \A k \in 1..Len(ds) : b[k] = [part |-> "data", at |-> o + k, what |-> ds[k]]
  <2>1. b = [k \in 1..Len(ds) |-> [part |-> "data", at |-> o + k, what |-> ds[k]]] BY <1>0 DEF DataWrites
  <2>2. \A k \in 1..Len(ds) : b[k] = [part |-> "data", at |-> o + k, what |-> ds[k]] /\ b[k] \in Piece
    <3> SUFFICES ASSUME NEW k \in 1..Len(ds) PROVE b[k] = [part |-> "data", at |-> o + k, what |-> ds[k]] /\ b[k] \in Piece
      OBVIOUS
    <3>1. o + k \in Nat \ {0} /\ ds[k] \in PkgBlock BY <1>0
    <3>2. [part |-> "data", at |-> o + k, what |-> ds[k]] \in DataPiece BY <3>1 DEF DataPiece
    <3> QED BY <2>1, <3>2 DEF Piece
  <2>3. b = [k \in 1..Len(ds) |-> b[k]] BY <2>1
  <2> HIDE DEF b
  <2>4. b \in [1..Len(ds) -> Piece] BY <2>2, <2>3
  <2>5. b \in Seq(Piece) /\ Len(b) = Len(ds) BY ONLY <1>0, <2>4, FunctionIsSeq
  <2> QED BY <2>2, <2>5
<1>2a. \A k \in 1..Len(ds) : b[k].part = "data" /\ b[k].at = o + k
  <2> SUFFICES ASSUME NEW k \in 1..Len(ds) PROVE b[k].part = "data" /\ b[k].at = o + k OBVIOUS
  <2>1. b[k] = [part |-> "data", at |-> o + k, what |-> ds[k]] BY <1>2
  <2> HIDE DEF b
  <2> QED BY <2>1
<1> HIDE DEF b
<1>3. /\ a \o b \in Seq(Piece) /\ Len(a \o b) = Len(a) + Len(b)
      /\ \A i \in 1..(Len(a) + Len(b)) : (a \o b)[i] = IF i <= Len(a) THEN a[i] ELSE b[i - Len(a)]
  <2>1. a \in Seq(Piece) /\ b \in Seq(Piece) BY <1>2
  <2> HIDE DEF a
  <2> QED BY <2>1, ConcatProperties
<1> HIDE DEF a, all
<1>4. all \in Seq(Piece) /\ Len(all) = Len(a) + Len(ds) /\ DOMAIN all = 1..(Len(a) + Len(ds))
  BY <1>2, <1>3, LenProperties DEF all
<1>5. \A i \in 1..Len(a) : all[i] = a[i]
  <2> SUFFICES ASSUME NEW i \in 1..Len(a) PROVE all[i] = a[i] OBVIOUS
  <2>1. i \in 1..(Len(a) + Len(b)) /\ i <= Len(a) BY <1>0, <1>2
  <2> QED BY <1>3, <2>1 DEF all
<1>6. \A k \in 1..Len(ds) : all[Len(a) + k] = b[k]
  <2> SUFFICES ASSUME NEW k \in 1..Len(ds) PROVE all[Len(a) + k] = b[k] OBVIOUS
  <2>1. Len(a) + k \in 1..(Len(a) + Len(b)) /\ ~(Len(a) + k <= Len(a)) /\ (Len(a) + k) - Len(a) = k BY <1>0, <1>2
  <2> QED BY <1>3, <2>1 DEF all
<1>7. InRow(all, f)
  <2> SUFFICES ASSUME NEW i \in 1..(Len(a) + Len(ds))
               PROVE  \/ all[i].at <= Extent(f, all[i].part) + 1
                      \/ i > 1 /\ all[i-1].part = all[i].part /\ all[i].at = all[i-1].at + 1
    BY <1>4 DEF InRow
  <2>1. CASE i \in 1..Len(a)
    <3>1. i > 1 => i - 1 \in 1..Len(a) BY <1>0, <2>1
    <3>2. all[i] = a[i] /\ (i > 1 => all[i-1] = a[i-1]) BY <1>5, <2>1, <3>1
    <3>3. \/ a[i].at <= Extent(f, a[i].part) + 1
          \/ i > 1 /\ a[i-1].part = a[i].part /\ a[i].at = a[i-1].at + 1
      BY <1>0, <2>1 DEF InRow, a
    <3> QED BY <3>2, <3>3
  <2>2. CASE i = Len(a) + 1
    <3>1. 1 \in 1..Len(ds) BY <1>0, <2>2
    <3>2. all[i] = b[1] BY <1>6, <2>2, <3>1
    <3>3. b[1].at = o + 1 /\ b[1].part = "data" BY <1>2a, <3>1
    <3>4. o + 1 <= Len(f.data) + 1 BY <1>0
    <3> QED BY <3>2, <3>3, <3>4 DEF Extent
  <2>3. CASE i > Len(a) + 1
    <3> DEFINE k == i - Len(a)
    <3> DEFINE n == Len(a)  m == Len(ds)
    <3>0. n \in Nat /\ m \in Nat BY <1>0
    <3>1. k \in 1..m /\ k - 1 \in 1..m /\ i = n + k /\ i - 1 = n + (k - 1) /\ i > 1
      <4>1. i \in 1..(n + m) /\ i > n + 1 /\ k = i - n BY <2>3
      <4> HIDE DEF k, n, m
      <4> QED BY <3>0, <4>1
    <3> HIDE DEF k
    <3>2. all[i] = b[k] /\ all[i-1] = b[k-1] BY <1>6, <3>1
    <3>3. b[k].part = "data" /\ b[k-1].part = "data" /\ b[k].at = o + k /\ b[k-1].at = o + (k - 1) BY <1>2a, <3>1
    <3>4. o + k = (o + (k - 1)) + 1 BY <1>0, <3>1
    <3> QED BY <3>1, <3>2, <3>3, <3>4
  <2> QED BY <1>0, <2>1, <2>2, <2>3
<1> QED BY <1>2, <1>4, <1>5, <1>6, <1>7 DEF all, a, b

-----------------------------------------------------------------------------
(* The operations. *)
\* The header of a new package is one, and an empty file a file.
LEMMA NoHeaderIsHeader == NoSeal \in PkgSeal /\ NoHeader \in PkgHeader /\ EmptyFile \in PkgFile
<1>1. NoSeal \in PkgSeal BY DEF NoSeal, PkgSeal
<1>2. NoHeader \in PkgHeader BY <1>1 DEF NoHeader, PkgHeader
<1>3. EmptyFile \in PkgFile BY DEF EmptyFile, PkgFile
<1> QED BY <1>1, <1>2, <1>3

\* sign_package seals the table there is.
LEMMA HeaderSaved ==
  ASSUME TableInv, NEW fp \in Fingerprints \union {NoFingerprint}
  PROVE  /\ SavedHeader(fp) \in PkgHeader /\ SavedHeader(fp).count = header.count /\ SavedHeader(fp).dataSize = TotalSize(entries)
         /\ SavedHeader(fp).seal.count = header.count /\ SavedHeader(fp).seal.entries = Table(entries)
<1> DEFINE t == TotalSize(entries)  tab == Table(entries)
           seal == [count |-> header.count, dataSize |-> t, entries |-> tab]
           sig == IF fp = NoFingerprint THEN header.signature ELSE [by |-> fp, over |-> seal]
           h == [count |-> header.count, dataSize |-> t, seal |-> seal, signature |-> sig]
<1>1. t \in Nat /\ tab \in Seq(PkgTable) BY TotalSteps, TableOf DEF TableInv
<1>2. header \in PkgHeader BY DEF TableInv
<1>3. header = [count |-> header.count, dataSize |-> header.dataSize, seal |-> header.seal, signature |-> header.signature]
      /\ header.count \in Nat /\ header.signature \in [by : Fingerprints \union {NoFingerprint}, over : PkgSeal]
  BY <1>2 DEF PkgHeader
<1> HIDE DEF t, tab
<1>4. seal \in PkgSeal BY <1>1, <1>3 DEF PkgSeal
<1>5. [header EXCEPT !.dataSize = t] = [count |-> header.count, dataSize |-> t, seal |-> header.seal, signature |-> header.signature]
  BY <1>3
<1> DEFINE g == [count |-> header.count, dataSize |-> t, seal |-> header.seal, signature |-> header.signature]
<1>5a. SavedHeader(fp) = Signed(g, fp) BY <1>5 DEF SavedHeader, t
<1>5b. g.count = header.count /\ g.dataSize = t /\ g.signature = header.signature OBVIOUS
<1>5c. Signed(g, fp) = [g EXCEPT !.seal = seal, !.signature = sig]
  <2> HIDE DEF g
  <2> QED BY <1>5b, Zenon DEF Signed, tab
<1>5d. [g EXCEPT !.seal = seal, !.signature = sig] = h
  <2> DEFINE g1 == [count |-> header.count, dataSize |-> t, seal |-> seal, signature |-> header.signature]
  <2> HIDE DEF seal, sig
  <2>1. [g EXCEPT !.seal = seal] = g1 OBVIOUS
  <2>2. [g1 EXCEPT !.signature = sig] = h OBVIOUS
  <2>3. [g EXCEPT !.seal = seal, !.signature = sig] = [[g EXCEPT !.seal = seal] EXCEPT !.signature = sig]
    <3> HIDE DEF g
    <3> QED OBVIOUS
  <2> QED BY <2>1, <2>2, <2>3
<1>6. SavedHeader(fp) = h BY <1>5a, <1>5c, <1>5d
<1>7. seal.count = header.count /\ seal.entries = tab OBVIOUS
<1> HIDE DEF seal
<1>8. sig \in [by : Fingerprints \union {NoFingerprint}, over : PkgSeal] BY <1>3, <1>4
<1> HIDE DEF sig
<1>9. h \in PkgHeader /\ h.count = header.count /\ h.dataSize = t /\ h.seal = seal BY <1>1, <1>3, <1>4, <1>8 DEF PkgHeader
<1> HIDE DEF h
<1> QED BY <1>6, <1>7, <1>9 DEF t, tab

\* A file nobody has written satisfies the invariant.
LEMMA PackageStart == ASSUME PackageInit PROVE PackageIInv
<1> USE DEF PackageInit
<1>0. Reserved \in Nat BY PackageAssumption DEF PackageAssumption
<1>1. entries = <<>> /\ writes = <<>> /\ data = <<>> /\ DOMAIN entries = {} /\ DOMAIN writes = {} /\ onDisk = EmptyFile
      /\ Len(entries) = 0 /\ Len(writes) = 0
  OBVIOUS
<1>2. TotalSize(entries) = 0 BY <1>1, TotalOfNone
<1>3. onDisk.header = <<>> /\ onDisk.table = <<>> /\ onDisk.data = <<>> BY DEF EmptyFile
<1>4. TableInv
  <2>1. header \in PkgHeader /\ header.count = 0 BY NoHeaderIsHeader DEF NoHeader
  <2>2. entries \in Seq(PkgEntry) /\ data \in Seq(PkgBlock) /\ writes \in Seq(Piece) BY <1>1
  <2>3. onDisk \in PkgFile /\ adding \in PkgTable BY NoHeaderIsHeader DEF PkgTable
  <2>4. Len(onDisk.header) <= 1 /\ Len(onDisk.table) <= Reserved BY <1>0, <1>3
  <2>5. flush = "ok" /\ access = "closed" OBVIOUS
  <2> QED BY <1>0, <1>1, <2>1, <2>2, <2>3, <2>4, <2>5 DEF TableInv
<1>5. DiskInv
  <2>1. InRow(writes, onDisk) BY <1>1 DEF InRow
  <2>2. Seals = {} BY <1>1, <1>3 DEF Seals
  <2> QED BY <2>1, <2>2 DEF DiskInv
<1> QED BY <1>4, <1>5 DEF PackageIInv, Stands, Lossless, MemoryInv, FileInv, WaitInv, AddInv

\* Creating a package in the file: only an empty seal is about to be written.
LEMMA CreateInFileKeeps == ASSUME PackageIInv, CreateInFile PROVE PackageIInv'
<1> DEFINE row == HeaderWrite(NoHeader) \o TableWrites(<<>>)
<1>1. /\ access = "closed" /\ access' = "readwrite" /\ header' = NoHeader /\ entries' = <<>> /\ data' = <<>>
      /\ onDisk' = EmptyFile /\ writes' = row /\ adding' = adding /\ flush' = "ok"
  BY DEF CreateInFile
<1>2. <<>> \in Seq(PkgEntry) OBVIOUS
<1>3. /\ row \in Seq(Piece) /\ Len(row) = 1 + Reserved /\ row[1] = [part |-> "header", at |-> 1, what |-> NoHeader]
      /\ \A i \in 1..Reserved : row[1 + i] = [part |-> "table", at |-> i, what |-> Table(<<>>)[i]]
      /\ InRow(row, EmptyFile)
  BY <1>2, NoHeaderIsHeader, SaveRow
<1> HIDE DEF row
<1>4. Reserved \in Nat BY PackageAssumption DEF PackageAssumption
<1>5. DOMAIN row = 1..(1 + Reserved) /\ \A i \in DOMAIN row : i = 1 \/ (i - 1 \in 1..Reserved /\ 1 + (i - 1) = i)
  BY <1>3, <1>4, LenProperties
<1>6. \A i \in DOMAIN row : (i = 1 \/ row[i].part = "table") /\ row[i].part # "data"
  <2> SUFFICES ASSUME NEW i \in DOMAIN row PROVE (i = 1 \/ row[i].part = "table") /\ row[i].part # "data" OBVIOUS
  <2>1. i = 1 => row[i].part = "header" BY <1>3
  <2>2. i # 1 => row[i].part = "table"
    <3> SUFFICES ASSUME i # 1 PROVE row[i].part = "table" OBVIOUS
    <3>1. row[i] = [part |-> "table", at |-> i - 1, what |-> Table(<<>>)[i - 1]] BY <1>3, <1>5
    <3> QED BY <3>1
  <2> QED BY <2>1, <2>2
<1>7. entries' = <<>> /\ DOMAIN entries' = {} /\ Len(entries') = 0 BY <1>1
<1>8. TotalSize(entries') = 0 BY <1>7, TotalOfNone
<1>9. onDisk'.header = <<>> /\ onDisk'.table = <<>> /\ onDisk'.data = <<>> BY <1>1 DEF EmptyFile
<1>10. TableInv'
  <2>1. header' \in PkgHeader /\ header'.count = 0 BY <1>1, NoHeaderIsHeader DEF NoHeader
  <2>2. entries' \in Seq(PkgEntry) /\ data' \in Seq(PkgBlock) /\ writes' \in Seq(Piece) /\ adding' \in PkgTable
    BY <1>1, <1>2, <1>3 DEF PackageIInv, Stands, TableInv
  <2>3. onDisk' \in PkgFile BY <1>1, NoHeaderIsHeader
  <2>4. Len(onDisk'.header) <= 1 /\ Len(onDisk'.table) <= Reserved BY <1>4, <1>9
  <2> QED BY <1>1, <1>4, <1>7, <2>1, <2>2, <2>3, <2>4 DEF TableInv
<1>11. DiskInv'
  <2>1. Seals' \subseteq {NoSeal}
    <3> SUFFICES ASSUME NEW s \in Seals' PROVE s = NoSeal OBVIOUS
    <3>1. PICK i \in DOMAIN row : row[i].part = "header" /\ s = row[i].what.seal BY <1>1, <1>9 DEF Seals
    <3>2. i = 1 BY <1>6, <3>1
    <3>3. row[1].what = NoHeader BY <1>3
    <3> QED BY <3>1, <3>2, <3>3 DEF NoHeader
  <2>2. SealHolds(NoSeal)' BY DEF SealHolds, NoSeal
  <2> QED BY <1>1, <1>3, <2>1, <2>2 DEF DiskInv
<1>12. FileInv'
  <2>1. \A i \in DOMAIN writes' : writes'[i].part # "data" BY <1>1, <1>6
  <2>2. Len(onDisk'.data) = 0 BY <1>9
  <2> QED BY <1>7, <1>8, <2>1, <2>2 DEF FileInv
<1>13. adding' = NoEntry BY <1>1 DEF PackageIInv, Stands, WaitInv
<1> QED BY <1>1, <1>10, <1>11, <1>12, <1>13 DEF PackageIInv, Stands, Lossless, MemoryInv, WaitInv, AddInv

\* The seals stay what they are as long as neither the file nor what is written changes.
LEMMA SealsStay ==
  ASSUME DiskInv, UNCHANGED <<onDisk, writes>>,
         access' = "readwrite" => access = "readwrite" /\ entries' = entries
  PROVE  DiskInv'
<1>1. Seals' = Seals BY DEF Seals
<1>2. ASSUME NEW s \in Seals PROVE SealHolds(s)' BY <1>2 DEF DiskInv, SealHolds
<1> QED BY <1>1, <1>2 DEF DiskInv

\* The operation is given up: nothing is to be written any more.
LEMMA SealsLeft ==
  ASSUME DiskInv, onDisk' = onDisk, writes' = <<>>,
         access' = "readwrite" => access = "readwrite" /\ entries' = entries
  PROVE  DiskInv'
<1>0. DOMAIN writes' = {} OBVIOUS
<1>1. Seals' \subseteq Seals BY <1>0 DEF Seals
<1>2. ASSUME NEW s \in Seals PROVE SealHolds(s)' BY <1>0, <1>2 DEF DiskInv, SealHolds
<1>3. InRow(writes, onDisk)' BY <1>0 DEF InRow
<1> QED BY <1>1, <1>2, <1>3 DEF DiskInv

\* create_reserved: nothing of the file changes.
LEMMA CreateInMemoryKeeps == ASSUME PackageIInv, CreateInMemory PROVE PackageIInv'
<1>1. /\ access = "closed" /\ access' = "memory" /\ header' = NoHeader /\ entries' = <<>> /\ data' = <<>>
      /\ UNCHANGED <<onDisk, writes, adding, flush>>
  BY DEF CreateInMemory
<1>2. DOMAIN entries' = {} /\ Len(entries') = 0 /\ Len(data') = 0 BY <1>1
<1>3. TotalSize(entries') = 0 BY <1>1, TotalOfNone
<1>4. header' \in PkgHeader /\ header'.count = 0 /\ header'.dataSize = 0 BY <1>1, NoHeaderIsHeader DEF NoHeader
<1>5. TableInv'
  <2>1. entries' \in Seq(PkgEntry) /\ data' \in Seq(PkgBlock) BY <1>1
  <2>2. Reserved \in Nat BY PackageAssumption DEF PackageAssumption
  <2> QED BY <1>1, <1>2, <1>4, <2>1, <2>2 DEF PackageIInv, Stands, TableInv
<1>6. flush = "ok" => DiskInv' BY <1>1, SealsStay DEF PackageIInv, Lossless
<1>7. MemoryInv' BY <1>2, <1>3, <1>4 DEF MemoryInv
<1>8. adding' = NoEntry BY <1>1 DEF PackageIInv, Stands, WaitInv
<1> QED BY <1>1, <1>5, <1>6, <1>7, <1>8 DEF PackageIInv, Stands, Lossless, FileInv, WaitInv, AddInv

\* Closing, a crash and a failed write only leave writes out.
LEMMA StopKeeps ==
  ASSUME PackageIInv, Close \/ PackageCrash \/ FwriteFails PROVE PackageIInv'
<1>1. /\ UNCHANGED <<header, entries, data, onDisk, flush>> /\ writes' = <<>>
      /\ access' \in {"closed", access} /\ adding' \in {NoEntry, adding}
  BY DEF Close, PackageCrash, FwriteFails, Free
<1>2. adding' = NoEntry
  <2>1. CASE Close BY <2>1 DEF Close, Free, PackageIInv, Stands, WaitInv
  <2>2. CASE PackageCrash \/ FwriteFails BY <2>2 DEF PackageCrash, FwriteFails
  <2> QED BY <2>1, <2>2
<1>3. TableInv'
  <2>1. writes' \in Seq(Piece) /\ adding' \in PkgTable BY <1>1, <1>2 DEF PkgTable
  <2> QED BY <1>1, <2>1 DEF PackageIInv, Stands, TableInv
<1>4. flush = "ok" => DiskInv' BY <1>1, SealsLeft DEF PackageIInv, Lossless
<1>5. DOMAIN writes' = {} BY <1>1
<1>6. MemoryInv' /\ (flush = "ok" => FileInv') BY <1>1, <1>5 DEF PackageIInv, Stands, Lossless, MemoryInv, FileInv, TableInv
<1> QED BY <1>1, <1>2, <1>3, <1>4, <1>6 DEF PackageIInv, Stands, Lossless, WaitInv, AddInv

\* The flush of what an operation before had buffered fails, and the file stops short.
LEMMA AddMeetsErrorKeeps == ASSUME PackageIInv, AddMeetsError PROVE PackageIInv'
<1>1. UNCHANGED <<access, header, entries, data, onDisk, writes, adding>> /\ flush' = "failed" BY DEF AddMeetsError
<1>2. TableInv' BY <1>1 DEF PackageIInv, Stands, TableInv
<1>3. MemoryInv' /\ WaitInv' BY <1>1 DEF PackageIInv, Stands, MemoryInv, WaitInv
<1> QED BY <1>1, <1>2, <1>3 DEF PackageIInv, Stands

\* The blocks of a content.
LEMMA BlocksOf ==
  ASSUME NEW c \in Contents
  PROVE  /\ Blocks(c) \in Seq(PkgBlock) /\ Len(Blocks(c)) = SizeOf[c] /\ \A k \in 1..SizeOf[c] : Blocks(c)[k] = <<c, k>>
<1>1. SizeOf[c] \in Nat BY SizesOf
<1>2. Blocks(c) = [k \in 1..SizeOf[c] |-> <<c, k>>] BY DEF Blocks
<1>3. Blocks(c) \in [1..SizeOf[c] -> PkgBlock] BY <1>1, <1>2 DEF PkgBlock
<1> DEFINE b == Blocks(c)
<1> HIDE DEF b
<1>4. b \in Seq(PkgBlock) /\ Len(b) = SizeOf[c]
  <2>1. b \in [1..SizeOf[c] -> PkgBlock] BY <1>3 DEF b
  <2> QED BY <1>1, <2>1
<1> QED BY <1>2, <1>4 DEF b

\* One more entry: the others end before it begins.
LEMMA OneMore ==
  ASSUME TableInv, NEW e \in PkgEntry, e.offset = TotalSize(entries)
  PROVE  LET es == Append(entries, e) IN
         /\ es \in Seq(PkgEntry) /\ Len(es) = Len(entries) + 1 /\ TotalSize(es) = Past(e)
         /\ TotalSize(entries) \in Nat /\ Past(e) \in Nat /\ TotalSize(entries) <= Past(e)
         /\ \A i \in DOMAIN es : (i \in DOMAIN entries /\ es[i] = entries[i]) \/ es[i] = e
         /\ \A i \in DOMAIN es : Past(es[i]) <= Past(e)
<1> DEFINE es == Append(entries, e)
<1>0. entries \in Seq(PkgEntry) /\ \A i \in DOMAIN entries : Past(entries[i]) <= TotalSize(entries) BY DEF TableInv
<1>1. /\ es \in Seq(PkgEntry) /\ Len(es) = Len(entries) + 1 /\ es[Len(entries) + 1] = e
      /\ \A i \in 1..Len(entries) : es[i] = entries[i]
  BY <1>0, AppendProperties
<1>2. TotalSize(entries) \in Nat /\ TotalSize(es) = TotalSize(entries) + SizeOf[e.content] BY <1>0, TotalSteps
<1> HIDE DEF es
<1>3. DOMAIN es = 1..(Len(entries)+1) /\ DOMAIN entries = 1..Len(entries) /\ Len(entries) \in Nat BY <1>0, <1>1, LenProperties
<1>4. SizeOf[e.content] \in Nat BY SizesOf DEF PkgEntry
<1>5. TotalSize(es) = Past(e) /\ Past(e) \in Nat /\ TotalSize(entries) <= Past(e) BY <1>2, <1>4 DEF Past
<1>6. \A i \in DOMAIN es : (i \in DOMAIN entries /\ es[i] = entries[i]) \/ es[i] = e BY <1>1, <1>3
<1>6a. \A i \in DOMAIN entries : Past(entries[i]) \in Nat
  <2> SUFFICES ASSUME NEW i \in DOMAIN entries PROVE Past(entries[i]) \in Nat OBVIOUS
  <2>1. entries[i] \in PkgEntry BY <1>0, <1>3, ElementOfSeq
  <2>2. entries[i].offset \in Nat /\ SizeOf[entries[i].content] \in Nat BY <2>1, SizesOf DEF PkgEntry
  <2> QED BY <2>2 DEF Past
<1>7. \A i \in DOMAIN es : Past(es[i]) <= Past(e)
  <2> SUFFICES ASSUME NEW i \in DOMAIN es PROVE Past(es[i]) <= Past(e) OBVIOUS
  <2>1. CASE es[i] = e BY <2>1, <1>5
  <2>2. CASE i \in DOMAIN entries /\ es[i] = entries[i]
    <3>1. Past(entries[i]) <= TotalSize(entries) /\ Past(entries[i]) \in Nat BY <1>0, <1>6a, <2>2
    <3> QED BY <1>2, <1>5, <2>2, <3>1
  <2> QED BY <1>6, <2>1, <2>2
<1> QED BY <1>1, <1>2, <1>5, <1>6, <1>7 DEF es

\* add_entry_from_memory: the data go behind those there are.
LEMMA AddInMemoryKeeps ==
  ASSUME PackageIInv, NEW c \in Contents, AddInMemory(c) PROVE PackageIInv'
<1> DEFINE e == [content |-> c, offset |-> header.dataSize]
<1>1. /\ access = "memory" /\ writes = <<>> /\ header.count < Reserved
      /\ entries' = Append(entries, e) /\ data' = data \o Blocks(c)
      /\ header' = [header EXCEPT !.count = @ + 1, !.dataSize = @ + SizeOf[c]]
      /\ UNCHANGED <<access, onDisk, writes, adding, flush>>
  BY DEF AddInMemory, Free, Stored
<1>2. TableInv /\ (flush = "ok" => DiskInv) /\ Len(data) = TotalSize(entries) /\ header.dataSize = Len(data)
      /\ \A i \in DOMAIN entries : Covers(data, entries[i])
  BY <1>1 DEF PackageIInv, Stands, Lossless, MemoryInv
<1>3. entries \in Seq(PkgEntry) /\ data \in Seq(PkgBlock) /\ header \in PkgHeader /\ header.count = Len(entries)
      /\ \A i \in DOMAIN entries : Past(entries[i]) <= TotalSize(entries)
  BY <1>2 DEF TableInv
<1>4. Len(data) \in Nat /\ Len(entries) \in Nat /\ Reserved \in Nat BY <1>3, LenProperties, PackageAssumption DEF PackageAssumption
<1>5. e \in PkgEntry /\ e.offset = TotalSize(entries) /\ e.content = c BY <1>2, <1>4 DEF PkgEntry
<1>6. SizeOf[c] \in Nat /\ SizeOf[c] >= 1 BY SizesOf
<1> HIDE DEF e
<1> DEFINE es == Append(entries, e)  d == data \o Blocks(c)
<1>7. /\ es \in Seq(PkgEntry) /\ Len(es) = Len(entries) + 1 /\ TotalSize(es) = Past(e)
      /\ \A i \in DOMAIN es : (i \in DOMAIN entries /\ es[i] = entries[i]) \/ es[i] = e
      /\ \A i \in DOMAIN es : Past(es[i]) <= Past(e)
  BY <1>2, <1>5, OneMore
<1>8. /\ d \in Seq(PkgBlock) /\ Len(d) = Len(data) + SizeOf[c]
      /\ \A i \in 1..Len(data) : d[i] = data[i]
      /\ \A k \in 1..SizeOf[c] : d[Len(data) + k] = <<c, k>>
  <2> DEFINE b == Blocks(c)
  <2>1. b \in Seq(PkgBlock) /\ Len(b) = SizeOf[c] /\ \A k \in 1..SizeOf[c] : b[k] = <<c, k>> BY BlocksOf
  <2> HIDE DEF b
  <2>2. /\ data \o b \in Seq(PkgBlock) /\ Len(data \o b) = Len(data) + Len(b)
        /\ \A i \in 1..(Len(data) + Len(b)) : (data \o b)[i] = IF i <= Len(data) THEN data[i] ELSE b[i - Len(data)]
    <3>1. data \in Seq(PkgBlock) /\ b \in Seq(PkgBlock) BY <1>3, <2>1
    <3> HIDE DEF d
    <3> QED BY ONLY <3>1, ConcatProperties, SMTT(60)
  <2>3. \A i \in 1..Len(data) : i \in 1..(Len(data) + Len(b)) /\ i <= Len(data) BY <1>4, <1>6, <2>1
  <2>4. \A k \in 1..SizeOf[c] : /\ Len(data) + k \in 1..(Len(data) + Len(b)) /\ ~(Len(data) + k <= Len(data))
                                /\ (Len(data) + k) - Len(data) = k
    BY <1>4, <1>6, <2>1
  <2> QED BY <2>1, <2>2, <2>3, <2>4 DEF b
<1> HIDE DEF es, d
<1>9. header' \in PkgHeader /\ header'.count = header.count + 1 /\ header'.dataSize = header.dataSize + SizeOf[c]
  <2>1. header = [count |-> header.count, dataSize |-> header.dataSize, seal |-> header.seal, signature |-> header.signature]
        /\ header.count \in Nat /\ header.dataSize \in Nat /\ header.seal \in PkgSeal
        /\ header.signature \in [by : Fingerprints \union {NoFingerprint}, over : PkgSeal]
    BY <1>3 DEF PkgHeader
  <2>2. header' = [count |-> header.count + 1, dataSize |-> header.dataSize + SizeOf[c], seal |-> header.seal,
                   signature |-> header.signature]
    BY <1>1, <2>1
  <2> QED BY <1>6, <2>1, <2>2 DEF PkgHeader
<1>10. TableInv'
  <2>1. entries' = es /\ data' = d BY <1>1 DEF es, d
  <2>2. header'.count = Len(entries') /\ header'.count <= Reserved BY <1>1, <1>3, <1>4, <1>7, <1>9, <2>1
  <2>3. \A i \in DOMAIN entries' : Past(entries'[i]) <= TotalSize(entries') BY <1>7, <2>1
  <2> QED BY <1>1, <1>2, <1>7, <1>8, <1>9, <2>1, <2>2, <2>3 DEF TableInv
<1>11. flush = "ok" => DiskInv' BY <1>1, <1>2, SealsStay
<1>12. MemoryInv'
  <2>1. entries' = es /\ data' = d BY <1>1 DEF es, d
  <2>2. Past(e) = Len(data) + SizeOf[c] BY <1>2, <1>5 DEF Past
  <2>3. \A i \in DOMAIN es : Covers(d, es[i])
    <3> SUFFICES ASSUME NEW i \in DOMAIN es PROVE Covers(d, es[i]) OBVIOUS
    <3>1. CASE es[i] = e
      <4>1. Agrees(e, d) BY <1>2, <1>5, <1>8 DEF Agrees
      <4>2. Past(e) <= Len(d) BY <1>4, <1>6, <1>8, <2>2
      <4> QED BY <3>1, <4>1, <4>2 DEF Covers
    <3>2. CASE i \in DOMAIN entries /\ es[i] = entries[i]
      <4> DEFINE x == entries[i]
      <4>1. Covers(data, x) BY <1>2, <3>2
      <4>2. x \in PkgEntry BY <1>3, <3>2, ElementOfSeq, LenProperties
      <4>3. x.offset \in Nat /\ SizeOf[x.content] \in Nat BY <4>2, SizesOf DEF PkgEntry
      <4> HIDE DEF x
      <4>4. \A k \in 1..SizeOf[x.content] : x.offset + k \in 1..Len(data) /\ data[x.offset + k] = <<x.content, k>>
        BY <1>4, <4>1, <4>3, SMTT(60) DEF Covers, Agrees, Past
      <4>5. Agrees(x, d) BY <1>8, <4>4 DEF Agrees
      <4>6. Past(x) <= Len(d) BY <1>4, <1>6, <1>8, <4>1, <4>3 DEF Covers, Past
      <4> QED BY <3>2, <4>5, <4>6 DEF Covers, x
    <3> QED BY <1>7, <3>1, <3>2
  <2> QED BY <1>2, <1>7, <1>8, <1>9, <2>1, <2>2, <2>3 DEF MemoryInv
<1>13. adding = NoEntry BY <1>1 DEF PackageIInv, Stands, WaitInv
<1> QED BY <1>1, <1>10, <1>11, <1>12, <1>13 DEF PackageIInv, Stands, Lossless, FileInv, WaitInv, AddInv

\* What is sealed ends before the data of a new entry.
LEMMA AddInFileKeeps ==
  ASSUME PackageIInv, NEW c \in Contents, AddInFile(c) PROVE PackageIInv'
<1> DEFINE o == TotalSize(entries)  e == [content |-> c, offset |-> o]  ws == DataWrites(Blocks(c), o)
<1>1. /\ access = "readwrite" /\ writes = <<>> /\ header.count < Reserved
      /\ adding' = e /\ writes' = ws /\ UNCHANGED <<access, header, entries, data, onDisk, flush>>
  BY DEF AddInFile, CanAdd, Free, NextOffset
<1>2. TableInv /\ (flush = "ok" => DiskInv /\ FileInv) BY DEF PackageIInv, Stands, Lossless
<1>3. o \in Nat /\ onDisk \in PkgFile /\ (flush = "ok" => o <= Len(onDisk.data)) /\ Len(onDisk.data) \in Nat
  <2>0. entries \in Seq(PkgEntry) /\ onDisk \in PkgFile BY <1>2 DEF TableInv
  <2>1. o \in Nat BY <2>0, TotalSteps
  <2>2. Len(onDisk.data) \in Nat
    <3>1. onDisk.data \in Seq(PkgBlock \union {Hole}) BY <2>0 DEF PkgFile
    <3> QED BY <3>1, LenProperties
  <2>3. flush = "ok" => o <= Len(onDisk.data) BY <1>1, <1>2 DEF FileInv
  <2> QED BY <2>0, <2>1, <2>2, <2>3
<1>4. SizeOf[c] \in Nat /\ SizeOf[c] >= 1 BY SizesOf
<1>5. Blocks(c) = [k \in 1..SizeOf[c] |-> <<c, k>>] /\ \A k \in 1..SizeOf[c] : <<c, k>> \in PkgBlock BY <1>4 DEF Blocks, PkgBlock
<1> HIDE DEF o
<1>6. /\ ws \in Seq(Piece) /\ Len(ws) = SizeOf[c]
      /\ \A k \in 1..SizeOf[c] : ws[k] = [part |-> "data", at |-> o + k, what |-> <<c, k>>]
  <2>1. ws = [k \in 1..SizeOf[c] |-> [part |-> "data", at |-> o + k, what |-> <<c, k>>]] BY <1>5 DEF DataWrites
  <2>2. ASSUME NEW k \in 1..SizeOf[c] PROVE [part |-> "data", at |-> o + k, what |-> <<c, k>>] \in Piece
    <3>1. <<c, k>> \in PkgBlock /\ o + k \in Nat \ {0} BY <1>3, <1>4, <1>5
    <3> QED BY <3>1 DEF Piece, DataPiece
  <2> HIDE DEF ws
  <2>3. ws \in [1..SizeOf[c] -> Piece] BY <2>1, <2>2
  <2>4. ws \in Seq(Piece) /\ Len(ws) = SizeOf[c] BY <1>4, <2>3, FunctionIsSeq
  <2> QED BY <2>1, <2>4
<1> HIDE DEF ws
<1>6a. DOMAIN ws = 1..SizeOf[c] BY <1>6, LenProperties
<1>6b. \A k \in 1..SizeOf[c] : ws[k].part = "data" /\ ws[k].at = o + k
  <2> SUFFICES ASSUME NEW k \in 1..SizeOf[c] PROVE ws[k].part = "data" /\ ws[k].at = o + k OBVIOUS
  <2>1. ws[k] = [part |-> "data", at |-> o + k, what |-> <<c, k>>] BY <1>6
  <2> QED BY <2>1
<1>7. e \in PkgEntry /\ e.content = c /\ e.offset = o BY <1>3 DEF PkgEntry
<1>8. TableInv' BY <1>1, <1>2, <1>6, <1>7 DEF TableInv, PkgTable
<1>9. WaitInv'
  <2>1. ws # <<>>
    <3>1. 1 \in DOMAIN ws BY <1>4, <1>6a
    <3> QED BY <3>1
  <2> QED BY <1>1, <1>7, <2>1 DEF WaitInv, o
<1>10. flush = "ok" => Lossless'
  <2> SUFFICES ASSUME flush = "ok" PROVE Lossless' OBVIOUS
  <2>1. DiskInv /\ FileInv /\ o <= Len(onDisk.data) BY <1>2, <1>3
  <2>2. InRow(ws, onDisk)
    <3> SUFFICES ASSUME NEW i \in 1..SizeOf[c]
                 PROVE  \/ ws[i].at <= Extent(onDisk, ws[i].part) + 1
                        \/ i > 1 /\ ws[i-1].part = ws[i].part /\ ws[i].at = ws[i-1].at + 1
      BY <1>6a DEF InRow
    <3>1. CASE i = 1 BY <1>3, <1>4, <1>6b, <2>1, <3>1 DEF Extent
    <3>2. CASE i # 1
      <4>1. i - 1 \in 1..SizeOf[c] /\ i > 1 /\ o + i = (o + (i - 1)) + 1 BY <1>3, <1>4, <3>2
      <4> QED BY <1>6b, <4>1
    <3> QED BY <3>1, <3>2
  <2>3. DiskInv'
    <3>1. Seals' \subseteq Seals
      <4>1. \A i \in DOMAIN writes' : writes'[i].part # "header" BY <1>1, <1>6a, <1>6b
      <4> QED BY <1>1, <4>1 DEF Seals
    <3>2. ASSUME NEW s \in Seals PROVE SealHolds(s)'
      <4> SUFFICES ASSUME NEW i \in 1..s.count
                   PROVE  /\ s.entries[i] \in PkgEntry /\ Agrees(s.entries[i], onDisk'.data)
                          /\ \A j \in DOMAIN ws : Spares(ws[j], s.entries[i])
                          /\ access' = "readwrite" => Past(s.entries[i]) <= TotalSize(entries')
        BY <1>1 DEF SealHolds
      <4>1. s.entries[i] \in PkgEntry /\ Agrees(s.entries[i], onDisk.data) /\ Past(s.entries[i]) <= o
        BY <1>1, <2>1, <3>2 DEF DiskInv, SealHolds, o
      <4> DEFINE x == s.entries[i]
      <4>2. x.offset \in Nat /\ SizeOf[x.content] \in Nat BY <4>1, SizesOf DEF PkgEntry
      <4> HIDE DEF x
      <4>3. ASSUME NEW j \in DOMAIN ws PROVE Spares(ws[j], x)
        <5>1. ws[j].at = o + j /\ j \in 1..SizeOf[c] BY <1>6a, <1>6b
        <5>2. \A k \in 1..SizeOf[x.content] : ws[j].at # x.offset + k
          <6>1. x.offset + SizeOf[x.content] <= o BY <4>1 DEF Past, x
          <6> QED BY <1>3, <1>4, <4>2, <5>1, <6>1
        <5> QED BY <5>2 DEF Spares
      <4> QED BY <1>1, <4>1, <4>3 DEF x, o
    <3> QED BY <1>1, <2>1, <2>2, <3>1, <3>2 DEF DiskInv
  <2>4. FileInv'
    <3>1. \A i \in DOMAIN ws : ws[i].at > TotalSize(entries) BY <1>3, <1>4, <1>6a, <1>6b DEF o
    <3> QED BY <1>1, <2>1, <3>1 DEF FileInv
  <2>5. AddInv'
    <3>1. ws = Rest(e, 0)
      <4>1. Rest(e, 0) = [k \in 1..SizeOf[c] |-> [part |-> "data", at |-> o + k, what |-> <<c, k>>]]
        <5>1. SizeOf[e.content] - 0 = SizeOf[c] /\ \A k \in 1..SizeOf[c] : 0 + k = k BY <1>4, <1>7
        <5> HIDE DEF e
        <5> QED BY <1>7, <5>1 DEF Rest
      <4>2. ws = [k \in 1..SizeOf[c] |-> ws[k]] BY <1>6, <1>6a, LenProperties
      <4> QED BY <1>6, <4>1, <4>2
    <3>2. 0 \in 0..(SizeOf[e.content] - 1) /\ e.offset + 0 <= Len(onDisk.data) BY <1>3, <1>4, <1>7, <2>1
    <3>3. \A k \in 1..0 : onDisk.data[e.offset + k] = <<e.content, k>> OBVIOUS
    <3>4. e.offset = TotalSize(entries) BY <1>7 DEF o
    <3> HIDE DEF e
    <3>5. \E n \in 0..(SizeOf[e.content] - 1) :
            /\ ws = Rest(e, n) /\ e.offset + n <= Len(onDisk.data)
            /\ \A k \in 1..n : onDisk.data[e.offset + k] = <<e.content, k>>
      BY <3>1, <3>2, <3>3
    <3> QED BY <1>1, <3>4, <3>5 DEF AddInv
  <2> QED BY <2>3, <2>4, <2>5 DEF Lossless
<1>11. MemoryInv' BY <1>1 DEF MemoryInv
<1> QED BY <1>1, <1>8, <1>9, <1>10, <1>11 DEF PackageIInv, Stands

\* save_file of a package in memory writes nothing.
LEMMA SealInMemoryKeeps ==
  ASSUME PackageIInv, NEW fp \in Fingerprints \union {NoFingerprint}, SealInMemory(fp) PROVE PackageIInv'
<1>1. access = "memory" /\ header' = SavedHeader(fp) /\ UNCHANGED <<access, entries, data, onDisk, writes, adding, flush>>
  BY DEF SealInMemory
<1>2. TableInv /\ (flush = "ok" => DiskInv) /\ MemoryInv BY DEF PackageIInv, Stands, Lossless
<1>3. header' \in PkgHeader /\ header'.count = header.count /\ header'.dataSize = TotalSize(entries)
  BY <1>1, <1>2, HeaderSaved
<1>4. TableInv' BY <1>1, <1>2, <1>3 DEF TableInv
<1>5. flush = "ok" => DiskInv' BY <1>1, <1>2, SealsStay
<1>6. MemoryInv' BY <1>1, <1>2, <1>3 DEF MemoryInv
<1>7. adding = NoEntry BY <1>1 DEF PackageIInv, Stands, WaitInv
<1> QED BY <1>1, <1>4, <1>5, <1>6, <1>7 DEF PackageIInv, Stands, Lossless, FileInv, WaitInv, AddInv

\* The header and the table of a save: the seal is over the entries there are.
LEMMA SaveWrites ==
  ASSUME TableInv, NEW fp \in Fingerprints \union {NoFingerprint}, NEW f \in PkgFile
  PROVE  LET row == HeaderWrite(SavedHeader(fp)) \o TableWrites(entries) IN
         /\ row \in Seq(Piece) /\ InRow(row, f)
         /\ \A i \in DOMAIN row : row[i].part # "data" /\ (row[i].part = "header" => row[i].what = SavedHeader(fp))
<1> DEFINE h == SavedHeader(fp)  row == HeaderWrite(h) \o TableWrites(entries)
<1>1. h \in PkgHeader BY HeaderSaved
<1>2. entries \in Seq(PkgEntry) BY DEF TableInv
<1> HIDE DEF h
<1>3. /\ row \in Seq(Piece) /\ Len(row) = 1 + Reserved /\ row[1] = [part |-> "header", at |-> 1, what |-> h]
      /\ \A i \in 1..Reserved : row[1 + i] = [part |-> "table", at |-> i, what |-> Table(entries)[i]]
      /\ InRow(row, f)
  BY <1>1, <1>2, SaveRow
<1> HIDE DEF row
<1>4. Reserved \in Nat BY PackageAssumption DEF PackageAssumption
<1>5. DOMAIN row = 1..(1 + Reserved) BY <1>3, LenProperties
<1>6. ASSUME NEW i \in DOMAIN row PROVE row[i].part # "data" /\ (row[i].part = "header" => row[i].what = h)
  <2>1. CASE i = 1 BY <1>3, <2>1
  <2>2. CASE i # 1
    <3>1. i - 1 \in 1..Reserved /\ 1 + (i - 1) = i BY <1>4, <1>5, <2>2
    <3>2. row[i] = [part |-> "table", at |-> i - 1, what |-> Table(entries)[i - 1]] BY <1>3, <3>1
    <3>3. row[i].part = "table" BY <3>2
    <3> QED BY <3>3
  <2> QED BY <2>1, <2>2
<1> QED BY <1>3, <1>6 DEF row, h

\* save_file of a package in a file seals entries whose data are there.
LEMMA SaveInFileKeeps ==
  ASSUME PackageIInv, NEW fp \in Fingerprints \union {NoFingerprint}, SaveInFile(fp) PROVE PackageIInv'
<1> DEFINE h == SavedHeader(fp)  row == HeaderWrite(h) \o TableWrites(entries)
<1>1. /\ access = "readwrite" /\ writes = <<>> /\ header' = h /\ writes' = row
      /\ UNCHANGED <<access, entries, data, onDisk, adding>>
      /\ flush' \in {"ok", "failed"} /\ (flush' = "ok" => flush = "ok")
  BY DEF SaveInFile, Free
<1>2. TableInv /\ (flush' = "ok" => DiskInv /\ FileInv) BY <1>1 DEF PackageIInv, Stands, Lossless
<1>3. /\ h \in PkgHeader /\ h.count = header.count /\ h.seal.count = header.count /\ h.seal.entries = Table(entries)
  BY <1>2, HeaderSaved
<1>4. /\ row \in Seq(Piece) /\ InRow(row, onDisk)
      /\ \A i \in DOMAIN row : row[i].part # "data" /\ (row[i].part = "header" => row[i].what = h)
  <2>1. onDisk \in PkgFile BY <1>2 DEF TableInv
  <2> QED BY <1>2, <2>1, SaveWrites
<1>4a. PICK seal : seal = h.seal OBVIOUS
<1> HIDE DEF row, h
<1>5. TableInv' BY <1>1, <1>2, <1>3, <1>4 DEF TableInv
<1>6. ASSUME flush' = "ok" PROVE DiskInv'
  <2>1. \A s \in Seals' : s \in Seals \/ s = seal
    <3>1. \A i \in DOMAIN writes' : writes'[i].part = "header" => writes'[i].what.seal = seal BY <1>1, <1>4a, <1>4
    <3> QED BY <1>1, <3>1 DEF Seals
  <2>2. ASSUME NEW s \in Seals PROVE SealHolds(s)'
    <3>1. \A e : \A j \in DOMAIN row : Spares(row[j], e) BY <1>4 DEF Spares
    <3>2. SealHolds(s) BY <1>2, <1>6, <2>2 DEF DiskInv
    <3>3. \A i \in 1..s.count : /\ s.entries[i] \in PkgEntry /\ Agrees(s.entries[i], onDisk.data)
                                /\ Past(s.entries[i]) <= TotalSize(entries)
      BY <1>1, <3>2 DEF SealHolds
    <3> QED BY <1>1, <3>1, <3>3 DEF SealHolds
  <2>3. SealHolds(seal)'
    <3>0. entries \in Seq(PkgEntry) /\ header.count = Len(entries) /\ header.count <= Reserved
          /\ \A i \in DOMAIN entries : Past(entries[i]) <= TotalSize(entries)
      BY <1>2 DEF TableInv
    <3>0a. DOMAIN entries = 1..Len(entries) /\ Len(entries) \in Nat /\ Reserved \in Nat
      BY <3>0, LenProperties, PackageAssumption DEF PackageAssumption
    <3>1. \A i \in 1..seal.count : i \in DOMAIN entries /\ seal.entries[i] = entries[i]
      <4>1. \A i \in 1..Reserved : i <= Len(entries) => Table(entries)[i] = entries[i] BY <3>0, TableOf
      <4> QED BY <1>3, <1>4a, <3>0, <3>0a, <4>1
    <3>2. \A e : \A j \in DOMAIN row : Spares(row[j], e) BY <1>4 DEF Spares
    <3>3. \A i \in DOMAIN entries : Agrees(entries[i], onDisk.data) BY <1>1, <1>2, <1>6 DEF FileInv, Covers
    <3>4. \A i \in DOMAIN entries : entries[i] \in PkgEntry BY <3>0, <3>0a, ElementOfSeq
    <3> QED BY <1>1, <3>0, <3>1, <3>2, <3>3, <3>4 DEF SealHolds
  <2> QED BY <1>1, <1>4, <2>1, <2>2, <2>3 DEF DiskInv
<1>7. flush' = "ok" => FileInv' BY <1>1, <1>2, <1>4 DEF FileInv
<1>8. adding' = NoEntry BY <1>1 DEF PackageIInv, Stands, WaitInv
<1> QED BY <1>1, <1>5, <1>6, <1>7, <1>8 DEF PackageIInv, Stands, Lossless, MemoryInv, WaitInv, AddInv

\* save_memory_file: the file is emptied, and the data are to be written as sealed.
LEMMA SaveFromMemoryKeeps ==
  ASSUME PackageIInv, NEW fp \in Fingerprints \union {NoFingerprint}, SaveFromMemory(fp) PROVE PackageIInv'
<1> DEFINE h == SavedHeader(fp)  row == HeaderWrite(h) \o TableWrites(entries)  all == row \o DataWrites(data, 0)
<1>1. /\ access = "memory" /\ writes = <<>> /\ header' = h /\ writes' = all /\ onDisk' = EmptyFile /\ flush' = "ok"
      /\ UNCHANGED <<access, entries, data, adding>>
  BY DEF SaveFromMemory, Free
<1>2. TableInv /\ MemoryInv BY DEF PackageIInv, Stands
<1>3. /\ h \in PkgHeader /\ h.count = header.count /\ h.dataSize = TotalSize(entries)
      /\ h.seal.count = header.count /\ h.seal.entries = Table(entries)
  BY <1>2, HeaderSaved
<1>4. /\ row \in Seq(Piece) /\ InRow(row, EmptyFile)
      /\ \A i \in DOMAIN row : row[i].part # "data" /\ (row[i].part = "header" => row[i].what = h)
  BY <1>2, NoHeaderIsHeader, SaveWrites
<1>4a. PICK seal : seal = h.seal OBVIOUS
<1> HIDE DEF row, h
<1>5. data \in Seq(PkgBlock) /\ Len(data) \in Nat /\ Len(row) \in Nat /\ DOMAIN row = 1..Len(row)
  BY <1>2, <1>4, LenProperties DEF TableInv
<1>6. /\ all \in Seq(Piece) /\ Len(all) = Len(row) + Len(data) /\ InRow(all, EmptyFile)
      /\ \A i \in 1..Len(row) : all[i] = row[i]
      /\ \A k \in 1..Len(data) : all[Len(row) + k] = [part |-> "data", at |-> 0 + k, what |-> data[k]]
  <2>1. EmptyFile \in PkgFile /\ 0 \in Nat /\ 0 <= Len(EmptyFile.data) BY NoHeaderIsHeader DEF EmptyFile
  <2>2. \A i \in DOMAIN row : row[i].part # "data" BY <1>4
  <2>3. row \in Seq(Piece) /\ InRow(row, EmptyFile) /\ data \in Seq(PkgBlock) BY <1>4, <1>5
  <2> QED BY <2>1, <2>2, <2>3, DataRow, ZenonT(60)
<1> HIDE DEF all
<1>7. DOMAIN all = 1..(Len(row) + Len(data)) BY <1>6, LenProperties
<1>8. \A i \in DOMAIN all : \/ all[i].part # "data" /\ (all[i].part = "header" => all[i].what = h)
                            \/ all[i].part = "data" /\ all[i].at \in 1..Len(data) /\ all[i].what = data[all[i].at]
  <2> SUFFICES ASSUME NEW i \in DOMAIN all
               PROVE  \/ all[i].part # "data" /\ (all[i].part = "header" => all[i].what = h)
                      \/ all[i].part = "data" /\ all[i].at \in 1..Len(data) /\ all[i].what = data[all[i].at]
    OBVIOUS
  <2>1. CASE i \in 1..Len(row) BY <1>4, <1>5, <1>6, <2>1
  <2>2. CASE i \notin 1..Len(row)
    <3> DEFINE k == i - Len(row)
    <3>1. k \in 1..Len(data) /\ i = Len(row) + k BY <1>5, <1>7, <2>2
    <3> HIDE DEF k
    <3>2. all[i] = [part |-> "data", at |-> 0 + k, what |-> data[k]] BY <1>6, <3>1
    <3>3. 0 + k = k BY <3>1
    <3>4. all[i].part = "data" /\ all[i].at = k /\ all[i].what = data[k] BY <3>2, <3>3
    <3> QED BY <3>1, <3>4
  <2> QED BY <2>1, <2>2
<1>9. onDisk'.header = <<>> /\ onDisk'.table = <<>> /\ onDisk'.data = <<>> /\ Len(onDisk'.data) = 0
  BY <1>1 DEF EmptyFile
<1>10. TableInv'
  <2>1. onDisk' \in PkgFile BY <1>1, NoHeaderIsHeader
  <2>2. Len(onDisk'.header) <= 1 /\ Len(onDisk'.table) <= Reserved BY <1>9, PackageAssumption DEF PackageAssumption
  <2> QED BY <1>1, <1>2, <1>3, <1>6, <2>1, <2>2 DEF TableInv
<1>11. DiskInv'
  <2>1. \A s \in Seals' : s = seal
    <3>1. \A i \in DOMAIN writes' : writes'[i].part = "header" => writes'[i].what.seal = seal BY <1>1, <1>4a, <1>8
    <3>2. DOMAIN onDisk'.header = {} BY <1>9
    <3> QED BY <3>1, <3>2 DEF Seals
  <2>2. SealHolds(seal)'
    <3>0. entries \in Seq(PkgEntry) /\ header.count = Len(entries) /\ header.count <= Reserved
      BY <1>2 DEF TableInv
    <3>0a. DOMAIN entries = 1..Len(entries) /\ Len(entries) \in Nat /\ Reserved \in Nat
      BY <3>0, LenProperties, PackageAssumption DEF PackageAssumption
    <3>1. \A i \in 1..seal.count : i \in DOMAIN entries /\ seal.entries[i] = entries[i]
      <4>1. \A i \in 1..Reserved : i <= Len(entries) => Table(entries)[i] = entries[i] BY <3>0, TableOf
      <4> QED BY <1>3, <1>4a, <3>0, <3>0a, <4>1
    <3>4. \A i \in DOMAIN entries : entries[i] \in PkgEntry BY <3>0, <3>0a, ElementOfSeq
    <3>5. ASSUME NEW e \in PkgEntry PROVE Agrees(e, onDisk'.data)
      <4>1. e.offset \in Nat /\ SizeOf[e.content] \in Nat BY SizesOf DEF PkgEntry
      <4>2. \A k \in 1..SizeOf[e.content] : ~(e.offset + k <= 0) BY <4>1
      <4> QED BY <1>9, <4>2 DEF Agrees
    <3>6. ASSUME NEW i \in DOMAIN entries, NEW j \in DOMAIN all PROVE Spares(all[j], entries[i])
      <4> DEFINE e == entries[i]
      <4>1. Agrees(e, data) BY <1>1, <1>2 DEF MemoryInv, Covers
      <4>2. e \in PkgEntry BY <3>4
      <4> HIDE DEF e
      <4>3. e.offset \in Nat /\ SizeOf[e.content] \in Nat BY <4>2, SizesOf DEF PkgEntry
      <4>4. all[j].part = "data" => all[j].at \in 1..Len(data) /\ all[j].what = data[all[j].at] BY <1>8
      <4>5. Spares(all[j], e) BY <1>5, <4>1, <4>3, <4>4 DEF Spares, Agrees
      <4> QED BY <4>5 DEF e
    <3> QED BY <1>1, <3>1, <3>4, <3>5, <3>6 DEF SealHolds
  <2> QED BY <1>1, <1>6, <2>1, <2>2 DEF DiskInv
<1>12. MemoryInv' BY <1>1, <1>2, <1>3 DEF MemoryInv
<1>13. adding' = NoEntry BY <1>1 DEF PackageIInv, Stands, WaitInv
<1> QED BY <1>1, <1>10, <1>11, <1>12, <1>13 DEF PackageIInv, Stands, Lossless, FileInv, WaitInv, AddInv

\* One fwrite, as far as the file and what is still to be written go.
LEMMA FwriteMoves ==
  ASSUME TableInv, writes # <<>>, onDisk' = Written(onDisk, Head(writes)), writes' = SubSeq(writes, 2, Len(writes))
  PROVE  /\ writes' \in Seq(Piece) /\ Len(writes') = Len(writes) - 1 /\ \A i \in 1..Len(writes') : writes'[i] = writes[i+1]
         /\ onDisk' \in PkgFile /\ Len(onDisk'.header) <= 1 /\ Len(onDisk'.table) <= Reserved
         /\ InRow(writes, onDisk) => InRow(writes', onDisk')
         /\ Seals' \subseteq Seals /\ Len(onDisk.data) <= Len(onDisk'.data)
         /\ InRow(writes, onDisk) => \A e \in PkgEntry : Spares(writes[1], e) /\ Agrees(e, onDisk.data) => Agrees(e, onDisk'.data)
         /\ writes[1].part = "data" =>
              /\ writes[1].at <= Len(onDisk'.data) /\ onDisk'.data[writes[1].at] = writes[1].what
              /\ \A k \in 1..Len(onDisk.data) : k # writes[1].at => onDisk'.data[k] = onDisk.data[k]
<1> DEFINE w == writes[1]
<1>0. /\ writes \in Seq(Piece) /\ onDisk \in PkgFile /\ Len(onDisk.header) <= 1 /\ Len(onDisk.table) <= Reserved
  BY DEF TableInv
<1>1. /\ DOMAIN writes = 1..Len(writes) /\ Len(writes) \in Nat /\ Len(writes) >= 1 /\ 1 \in DOMAIN writes
      /\ Head(writes) = w /\ w \in Piece
  BY <1>0, LenProperties, EmptySeq, HeadTailProperties
<1>2. /\ writes' \in Seq(Piece) /\ Len(writes') = Len(writes) - 1 /\ \A i \in 1..Len(writes') : writes'[i] = writes[i+1]
  <2> DEFINE n == Len(writes)
  <2>1. 2 \in 1..(n + 1) /\ n \in 0..n /\ n \in Nat /\ n >= 1 BY <1>1
  <2> HIDE DEF n
  <2>2. /\ writes' \in Seq(Piece) /\ Len(writes') = (IF 2 <= n THEN n - 2 + 1 ELSE 0)
        /\ \A i \in 1..(n - 2 + 1) : writes'[i] = writes[2 + i - 1]
    BY <1>0, <2>1, SubSeqProperties DEF n
  <2>3. Len(writes') = n - 1 /\ n - 2 + 1 = n - 1 /\ \A i \in 1..(n - 1) : 2 + i - 1 = i + 1 BY <2>1, <2>2
  <2> QED BY <2>2, <2>3 DEF n
<1>2a. DOMAIN writes' = 1..Len(writes') BY <1>2, LenProperties
<1>3. InRow(writes, onDisk) => w.at <= Extent(onDisk, w.part) + 1
  <2>1. ~(1 > 1) OBVIOUS
  <2> QED BY <1>1, <2>1 DEF InRow
<1>4. onDisk' = Written(onDisk, w) BY <1>1
<1> HIDE DEF w
<1>5. /\ onDisk' \in PkgFile
      /\ w \in HeaderPiece => /\ onDisk' = [onDisk EXCEPT !.header = PutAt(onDisk.header, 1, w.what)]
                              /\ onDisk'.table = onDisk.table /\ onDisk'.data = onDisk.data
      /\ w \in TablePiece => /\ onDisk'.table = PutAt(onDisk.table, w.at, w.what)
                             /\ onDisk'.header = onDisk.header /\ onDisk'.data = onDisk.data
      /\ w \in DataPiece => /\ onDisk'.data = PutAt(onDisk.data, w.at, w.what)
                            /\ onDisk'.header = onDisk.header /\ onDisk'.table = onDisk.table
  BY <1>0, <1>1, <1>4, WrittenWrites
<1>6. /\ onDisk.header \in Seq(PkgHeader \union {Hole}) /\ onDisk.table \in Seq(PkgTable \union {Hole})
      /\ onDisk.data \in Seq(PkgBlock \union {Hole}) /\ onDisk'.header \in Seq(PkgHeader \union {Hole})
      /\ onDisk'.table \in Seq(PkgTable \union {Hole}) /\ onDisk'.data \in Seq(PkgBlock \union {Hole})
  BY <1>0, <1>5 DEF PkgFile
<1>7. /\ Len(onDisk.header) \in Nat /\ Len(onDisk.table) \in Nat /\ Len(onDisk.data) \in Nat
      /\ Len(onDisk'.header) \in Nat /\ Len(onDisk'.table) \in Nat /\ Len(onDisk'.data) \in Nat
      /\ DOMAIN onDisk.header = 1..Len(onDisk.header) /\ DOMAIN onDisk'.header = 1..Len(onDisk'.header)
  BY <1>6, LenProperties
<1> DEFINE Goal == /\ Len(onDisk'.header) <= 1 /\ Len(onDisk'.table) <= Reserved
                   /\ Len(onDisk.header) <= Len(onDisk'.header) /\ Len(onDisk.table) <= Len(onDisk'.table)
                   /\ Len(onDisk.data) <= Len(onDisk'.data) /\ w.at <= Extent(onDisk', w.part) /\ w.at \in Nat
                   /\ \A i \in DOMAIN onDisk'.header : \/ i \in DOMAIN onDisk.header /\ onDisk'.header[i] = onDisk.header[i]
                                                       \/ w.part = "header" /\ onDisk'.header[i] = w.what
                   /\ \A k \in 1..Len(onDisk.data) : w.part # "data" \/ k # w.at => onDisk'.data[k] = onDisk.data[k]
                   /\ w.part # "data" => onDisk'.data = onDisk.data
                   /\ w.part = "data" => onDisk'.data[w.at] = w.what
                   /\ w.part = "data" /\ InRow(writes, onDisk) =>
                        \A k \in Nat : k <= Len(onDisk'.data) => k <= Len(onDisk.data) \/ k = w.at
<1>8. ASSUME w \in HeaderPiece PROVE Goal
  <2>1. w.part = "header" /\ w.at = 1 /\ w.what \in PkgHeader BY <1>8 DEF HeaderPiece
  <2> DEFINE r == PutAt(onDisk.header, 1, w.what)
  <2>2. /\ r[1] = w.what /\ 1 <= Len(r) /\ Len(onDisk.header) <= Len(r) /\ (Len(r) <= Len(onDisk.header) \/ Len(r) = 1)
    <3> DEFINE hs == onDisk.header  x == w.what  S == PkgHeader \union {Hole}
    <3>2. hs \in Seq(S) /\ x \in S /\ Hole \in S BY <1>6, <2>1
    <3> HIDE DEF hs, x, S
    <3>3. PICK i \in Nat \ {0} : i = 1 OBVIOUS
    <3>5. /\ PutAt(hs, i, x)[i] = x /\ i <= Len(PutAt(hs, i, x)) /\ Len(hs) <= Len(PutAt(hs, i, x))
          /\ Len(PutAt(hs, i, x)) <= Len(hs) \/ Len(PutAt(hs, i, x)) = i
      BY <3>2, PutAtPuts
    <3> QED BY <3>3, <3>5 DEF hs, x
  <2> HIDE DEF r
  <2>3. onDisk'.header = r
    <3>1. onDisk' = [onDisk EXCEPT !.header = r] BY <1>5, <1>8 DEF r
    <3> QED BY <1>0, <3>1 DEF PkgFile
  <2>4. Len(r) = 1 /\ DOMAIN onDisk'.header = {1}
    <3>1. Len(r) \in Nat /\ DOMAIN r = 1..Len(r) BY <1>7, <2>3
    <3>2. Len(onDisk.header) <= 1 /\ Len(onDisk.header) \in Nat BY <1>0, <1>7
    <3>3. Len(r) = 1 BY <2>2, <3>1, <3>2
    <3>4. 1..1 = {1} OBVIOUS
    <3> QED BY <2>3, <3>1, <3>3, <3>4
  <2>5. onDisk'.table = onDisk.table /\ onDisk'.data = onDisk.data BY <1>5, <1>8
  <2>6. \A i \in DOMAIN onDisk'.header : onDisk'.header[i] = w.what BY <2>2, <2>3, <2>4
  <2>7. Extent(onDisk', w.part) = 1 BY <2>1, <2>3, <2>4 DEF Extent
  <2>8. Len(onDisk'.header) = 1 /\ Len(onDisk.header) <= 1 /\ w.part # "data" /\ w.at = 1
        /\ w.part = "header"
    BY <1>0, <2>1, <2>3, <2>4
  <2>9. Len(onDisk'.table) <= Reserved /\ Len(onDisk'.table) = Len(onDisk.table) /\ Len(onDisk'.data) = Len(onDisk.data)
    BY <1>0, <2>5
  <2>10. \A k \in 1..Len(onDisk.data) : onDisk'.data[k] = onDisk.data[k] BY <2>5
  <2>11. Len(onDisk'.header) <= 1 /\ Len(onDisk.header) <= Len(onDisk'.header)
    <3> DEFINE m == Len(onDisk.header)  n == Len(onDisk'.header)
    <3>1. n = 1 /\ m <= 1 BY <2>8
    <3> HIDE DEF m, n
    <3>2. n <= 1 /\ m <= n BY <3>1
    <3> QED BY <3>2 DEF m, n
  <2>12. Len(onDisk.table) <= Len(onDisk'.table) /\ Len(onDisk.data) <= Len(onDisk'.data) BY <1>7, <2>9
  <2>13. w.at <= Extent(onDisk', w.part) /\ w.at \in Nat BY <2>7, <2>8
  <2> QED BY <2>5, <2>6, <2>8, <2>9, <2>10, <2>11, <2>12, <2>13, Zenon
<1>9. ASSUME w \in TablePiece PROVE Goal
  <2>1. w.part = "table" /\ w.at \in Nat \ {0} /\ w.at <= Reserved /\ w.what \in PkgTable
    BY <1>9, PackageAssumption DEF TablePiece, PackageAssumption
  <2> DEFINE r == PutAt(onDisk.table, w.at, w.what)
  <2>2. w.at <= Len(r) /\ Len(onDisk.table) <= Len(r) /\ (Len(r) <= Len(onDisk.table) \/ Len(r) = w.at)
    <3> DEFINE ts == onDisk.table  x == w.what  i == w.at  S == PkgTable \union {Hole}
    <3>1. ts \in Seq(S) /\ x \in S /\ Hole \in S /\ i \in Nat \ {0} BY <1>6, <2>1
    <3> HIDE DEF ts, x, i, S
    <3>2. /\ i <= Len(PutAt(ts, i, x)) /\ Len(ts) <= Len(PutAt(ts, i, x))
          /\ Len(PutAt(ts, i, x)) <= Len(ts) \/ Len(PutAt(ts, i, x)) = i
      BY <3>1, PutAtPuts
    <3> QED BY <3>2 DEF ts, x, i
  <2> HIDE DEF r
  <2>3. onDisk'.table = r /\ onDisk'.header = onDisk.header /\ onDisk'.data = onDisk.data BY <1>5, <1>9 DEF r
  <2>4. Len(r) <= Reserved BY <1>0, <1>7, <2>1, <2>2, <2>3, PackageAssumption DEF PackageAssumption
  <2>5. Extent(onDisk', w.part) = Len(r) /\ w.at <= Len(r) /\ w.at \in Nat BY <2>1, <2>2, <2>3 DEF Extent
  <2>6. Len(onDisk'.header) <= 1 /\ Len(onDisk'.table) <= Reserved /\ Len(onDisk.table) <= Len(onDisk'.table)
    BY <1>0, <2>2, <2>3, <2>4
  <2>7. Len(onDisk.header) <= Len(onDisk'.header) /\ Len(onDisk.data) <= Len(onDisk'.data) BY <1>7, <2>3
  <2>8. \A i \in DOMAIN onDisk'.header : i \in DOMAIN onDisk.header /\ onDisk'.header[i] = onDisk.header[i] BY <2>3
  <2>9. w.part # "data" /\ onDisk'.data = onDisk.data BY <2>1, <2>3
  <2> QED BY <2>5, <2>6, <2>7, <2>8, <2>9, ZenonT(60)
<1>10. ASSUME w \in DataPiece PROVE Goal
  <2>1. w.part = "data" /\ w.at \in Nat \ {0} /\ w.what \in PkgBlock BY <1>10 DEF DataPiece
  <2> DEFINE r == PutAt(onDisk.data, w.at, w.what)
  <2>1a. InRow(writes, onDisk) => w.at <= Len(onDisk.data) + 1 BY <1>3, <2>1 DEF Extent
  <2>2. /\ w.at <= Len(r) /\ Len(onDisk.data) <= Len(r) /\ (Len(r) <= Len(onDisk.data) \/ Len(r) = w.at)
        /\ r[w.at] = w.what /\ \A k \in 1..Len(onDisk.data) : k # w.at => r[k] = onDisk.data[k]
    <3> DEFINE ds == onDisk.data  x == w.what  i == w.at  S == PkgBlock \union {Hole}
    <3>1. ds \in Seq(S) /\ x \in S /\ Hole \in S /\ i \in Nat \ {0} BY <1>6, <2>1
    <3> HIDE DEF ds, x, i, S
    <3>2. /\ i <= Len(PutAt(ds, i, x)) /\ Len(ds) <= Len(PutAt(ds, i, x))
          /\ Len(PutAt(ds, i, x)) <= Len(ds) \/ Len(PutAt(ds, i, x)) = i
          /\ PutAt(ds, i, x)[i] = x /\ \A k \in 1..Len(ds) : k # i => PutAt(ds, i, x)[k] = ds[k]
      BY <3>1, PutAtPuts
    <3> QED BY <3>2 DEF ds, x, i
  <2> HIDE DEF r
  <2>3. onDisk'.data = r /\ onDisk'.header = onDisk.header /\ onDisk'.table = onDisk.table BY <1>5, <1>10 DEF r
  <2>4. InRow(writes, onDisk) => \A k \in Nat : k <= Len(r) => k <= Len(onDisk.data) \/ k = w.at BY <1>7, <2>1, <2>1a, <2>2, <2>3
  <2>5. Extent(onDisk', w.part) = Len(r) /\ w.at <= Len(r) /\ w.at \in Nat BY <2>1, <2>2, <2>3 DEF Extent
  <2>6. Len(onDisk'.header) <= 1 /\ Len(onDisk'.table) <= Reserved /\ Len(onDisk.data) <= Len(onDisk'.data)
    BY <1>0, <2>2, <2>3
  <2>7. Len(onDisk.header) <= Len(onDisk'.header) /\ Len(onDisk.table) <= Len(onDisk'.table) BY <1>7, <2>3
  <2>8. \A i \in DOMAIN onDisk'.header : i \in DOMAIN onDisk.header /\ onDisk'.header[i] = onDisk.header[i] BY <2>3
  <2>9. /\ onDisk'.data[w.at] = w.what
        /\ InRow(writes, onDisk) => \A k \in Nat : k <= Len(onDisk'.data) => k <= Len(onDisk.data) \/ k = w.at
    BY <2>2, <2>3, <2>4
  <2>10. \A k \in 1..Len(onDisk.data) : k # w.at => onDisk'.data[k] = onDisk.data[k] BY <2>2, <2>3
  <2> QED BY <2>1, <2>5, <2>6, <2>7, <2>8, <2>9, <2>10, ZenonT(60)
<1>11. Goal BY <1>1, <1>8, <1>9, <1>10 DEF Piece, w
<1>12. \A p : Extent(onDisk, p) \in Nat /\ Extent(onDisk', p) \in Nat /\ Extent(onDisk, p) <= Extent(onDisk', p)
  BY <1>7, <1>11 DEF Extent
<1>13. ASSUME InRow(writes, onDisk) PROVE InRow(writes', onDisk')
  <2> SUFFICES ASSUME NEW i \in DOMAIN writes'
               PROVE  \/ writes'[i].at <= Extent(onDisk', writes'[i].part) + 1
                      \/ i > 1 /\ writes'[i-1].part = writes'[i].part /\ writes'[i].at = writes'[i-1].at + 1
    BY DEF InRow
  <2> DEFINE v == writes[i+1]  u == writes[i]
  <2>1. i + 1 \in DOMAIN writes /\ i \in DOMAIN writes /\ writes'[i] = v /\ (i > 1 => writes'[i-1] = u) /\ (i + 1) - 1 = i
        /\ (i = 1 => u = w) /\ (i > 1 \/ i = 1)
    <3>1. i \in 1..(Len(writes) - 1) BY <1>2, <1>2a
    <3>2. i > 1 => i - 1 \in 1..Len(writes') /\ (i - 1) + 1 = i BY <1>1, <1>2, <3>1
    <3> QED BY <1>1, <1>2, <1>2a, <3>1, <3>2 DEF w
  <2>2. v.at <= Extent(onDisk, v.part) + 1 \/ (u.part = v.part /\ v.at = u.at + 1)
    BY <1>13, <2>1 DEF InRow
  <2>2a. v.at \in Nat
    <3>1. v \in Piece BY <1>0, <1>1, <2>1, ElementOfSeq
    <3> QED BY <3>1, PackageAssumption DEF Piece, HeaderPiece, TablePiece, DataPiece, PackageAssumption
  <2> HIDE DEF v, u
  <2>3. CASE v.at <= Extent(onDisk, v.part) + 1 BY <1>12, <2>1, <2>2a, <2>3
  <2>4. CASE u.part = v.part /\ v.at = u.at + 1
    <3>1. CASE i > 1 BY <2>1, <2>4, <3>1
    <3>2. CASE i = 1
      <4>1. u = w /\ w.at <= Extent(onDisk', w.part) /\ w.at \in Nat BY <1>11, <2>1, <3>2
      <4>2. v.at <= Extent(onDisk', v.part) + 1 BY <1>12, <2>4, <4>1
      <4> QED BY <2>1, <4>2
    <3> QED BY <2>1, <3>1, <3>2
  <2> QED BY <2>2, <2>3, <2>4
<1>14. Seals' \subseteq Seals
  <2> SUFFICES ASSUME NEW s \in Seals' PROVE s \in Seals OBVIOUS
  <2>1. CASE \E i \in DOMAIN onDisk'.header : s = onDisk'.header[i].seal
    <3>1. PICK i \in DOMAIN onDisk'.header : s = onDisk'.header[i].seal BY <2>1
    <3>2. CASE i \in DOMAIN onDisk.header /\ onDisk'.header[i] = onDisk.header[i] BY <3>1, <3>2 DEF Seals
    <3>3. CASE w.part = "header" /\ onDisk'.header[i] = w.what BY <1>1, <3>1, <3>3 DEF Seals, w
    <3> QED BY <1>11, <3>1, <3>2, <3>3
  <2>2. CASE \E i \in DOMAIN writes' : writes'[i].part = "header" /\ s = writes'[i].what.seal
    <3>1. PICK i \in DOMAIN writes' : writes'[i].part = "header" /\ s = writes'[i].what.seal BY <2>2
    <3>2. i + 1 \in DOMAIN writes /\ writes'[i] = writes[i+1] BY <1>1, <1>2, <1>2a
    <3> QED BY <3>1, <3>2 DEF Seals
  <2> QED BY <2>1, <2>2 DEF Seals
<1>15. ASSUME InRow(writes, onDisk), NEW e \in PkgEntry, Spares(w, e), Agrees(e, onDisk.data) PROVE Agrees(e, onDisk'.data)
  <2>0. e.offset \in Nat /\ SizeOf[e.content] \in Nat BY SizesOf DEF PkgEntry
  <2>1. CASE w.part # "data" BY <1>11, <1>15, <2>1
  <2>2. CASE w.part = "data"
    <3> SUFFICES ASSUME NEW k \in 1..SizeOf[e.content], e.offset + k <= Len(onDisk'.data)
                 PROVE  onDisk'.data[e.offset + k] = <<e.content, k>>
      BY DEF Agrees
    <3>1. e.offset + k \in Nat /\ e.offset + k >= 1 BY <2>0
    <3>2. CASE e.offset + k = w.at
      <4>1. w.what = <<e.content, k>> BY <1>15, <2>2, <3>2 DEF Spares
      <4> QED BY <1>11, <2>2, <3>2, <4>1
    <3>3. CASE e.offset + k # w.at
      <4>1. e.offset + k <= Len(onDisk.data) BY <1>11, <1>15, <2>2, <3>1, <3>3
      <4>2. onDisk.data[e.offset + k] = <<e.content, k>> BY <1>15, <4>1 DEF Agrees
      <4>3. e.offset + k \in 1..Len(onDisk.data) BY <1>7, <3>1, <4>1
      <4> QED BY <1>11, <3>3, <4>2, <4>3
    <3> QED BY <3>2, <3>3
  <2> QED BY <2>1, <2>2
<1>16. w.part = "data" => /\ w.at <= Len(onDisk'.data) /\ onDisk'.data[w.at] = w.what
                          /\ \A k \in 1..Len(onDisk.data) : k # w.at => onDisk'.data[k] = onDisk.data[k]
  BY <1>11 DEF Extent
<1> QED BY <1>2, <1>5, <1>11, <1>13, <1>14, <1>15, <1>16 DEF w

\* One fwrite of the blocks of a new entry.
LEMMA AddMoves ==
  ASSUME TableInv, AddInv, writes # <<>>, adding # NoEntry, onDisk' = Written(onDisk, Head(writes)),
         writes' = SubSeq(writes, 2, Len(writes))
  PROVE  \E n \in 0..(SizeOf[adding.content] - 1) :
           /\ Len(writes) = SizeOf[adding.content] - n
           /\ writes' = Rest(adding, n + 1)
           /\ adding.offset + (n + 1) <= Len(onDisk'.data)
           /\ \A k \in 1..(n + 1) : onDisk'.data[adding.offset + k] = <<adding.content, k>>
<1>1. PICK e : e = adding OBVIOUS
<1>2. e \in PkgEntry BY <1>1 DEF TableInv, PkgTable
<1>3. PICK n \in 0..(SizeOf[e.content] - 1) :
        /\ writes = Rest(e, n) /\ e.offset + n <= Len(onDisk.data)
        /\ \A k \in 1..n : onDisk.data[e.offset + k] = <<e.content, k>>
  BY <1>1 DEF AddInv
<1> DEFINE s == SizeOf[e.content]  o == e.offset
           block(m) == [part |-> "data", at |-> o + m, what |-> <<e.content, m>>]
<1>4. s \in Nat /\ s >= 1 /\ o \in Nat /\ n \in Nat /\ n <= s - 1 BY <1>2, <1>3, SizesOf DEF PkgEntry
<1>5. \A m \in Nat : Rest(e, m) = [i \in 1..(s - m) |-> block(m + i)] BY DEF Rest
<1>5a. \A m : block(m).part = "data" /\ block(m).at = o + m /\ block(m).what = <<e.content, m>> OBVIOUS
<1> HIDE DEF s, o, block
<1>6. writes \in Seq(Piece) /\ onDisk \in PkgFile BY DEF TableInv
<1>6a. DOMAIN writes = 1..(s - n) BY <1>3, <1>4, <1>5
<1>7. Len(writes) = s - n /\ \A i \in 1..(s - n) : writes[i] = block(n + i)
  <2>1. Len(writes) \in Nat /\ DOMAIN writes = 1..Len(writes) BY <1>6, LenProperties
  <2>2. s - n \in Nat /\ s - n >= 1 BY <1>4
  <2> DEFINE a == Len(writes)  b == s - n
  <2> HIDE DEF a, b
  <2>3. 1..a = 1..b /\ a \in Nat /\ b \in Nat /\ b >= 1 BY <1>6a, <2>1, <2>2 DEF a, b
  <2>4. b \in 1..a /\ (a >= 1 => a \in 1..b) BY <2>3
  <2>5. a = b BY <2>3, <2>4
  <2> QED BY <1>3, <1>4, <1>5, <2>5 DEF a, b
<1>8. /\ writes' \in Seq(Piece) /\ Len(writes') = Len(writes) - 1 /\ \A i \in 1..Len(writes') : writes'[i] = writes[i+1]
      /\ onDisk' \in PkgFile
      /\ writes[1].part = "data" =>
              /\ writes[1].at <= Len(onDisk'.data) /\ onDisk'.data[writes[1].at] = writes[1].what
              /\ \A k \in 1..Len(onDisk.data) : k # writes[1].at => onDisk'.data[k] = onDisk.data[k]
  BY FwriteMoves
<1>9. writes[1] = block(n + 1)
  <2>1. 1 \in 1..(s - n) BY <1>4
  <2> QED BY <1>7, <2>1
<1>10. writes[1].part = "data" /\ writes[1].at = o + (n + 1) /\ writes[1].what = <<e.content, n + 1>> BY <1>5a, <1>9
<1>11. writes' = Rest(e, n + 1)
  <2>1. s - (n + 1) \in Nat /\ Len(writes') = s - (n + 1) /\ n + 1 \in Nat BY <1>4, <1>7, <1>8
  <2>2. DOMAIN writes' = 1..(s - (n + 1)) BY <1>8, <2>1, LenProperties
  <2>3. ASSUME NEW i \in 1..(s - (n + 1)) PROVE writes'[i] = block((n + 1) + i)
    <3>1. i \in 1..Len(writes') /\ i + 1 \in 1..(s - n) /\ n + (i + 1) = (n + 1) + i BY <1>4, <2>1
    <3>2. writes'[i] = writes[i + 1] BY <1>8, <3>1
    <3> QED BY <1>7, <3>1, <3>2
  <2>4. writes' = [i \in 1..(s - (n + 1)) |-> writes'[i]]
    <3> DEFINE w == writes'
    <3>1. w \in Seq(Piece) /\ DOMAIN w = 1..(s - (n + 1)) BY <1>8, <2>2
    <3> HIDE DEF w
    <3>2. w = [i \in 1..(s - (n + 1)) |-> w[i]] BY <3>1, LenProperties
    <3> QED BY <3>2 DEF w
  <2>5. Rest(e, n + 1) = [i \in 1..(s - (n + 1)) |-> block((n + 1) + i)] BY <1>5, <2>1
  <2> QED BY <2>3, <2>4, <2>5
<1>12. o + (n + 1) <= Len(onDisk'.data) BY <1>8, <1>10
<1>13. ASSUME NEW k \in 1..(n + 1) PROVE onDisk'.data[o + k] = <<e.content, k>>
  <2>1. CASE k = n + 1 BY <1>8, <1>10, <2>1
  <2>2. CASE k # n + 1
    <3>0. Len(onDisk.data) \in Nat BY <1>6, LenProperties DEF PkgFile
    <3>1. k \in 1..n /\ o + k # o + (n + 1) BY <1>4, <2>2
    <3>2. o + n <= Len(onDisk.data) BY <1>3 DEF o
    <3>3. o + k \in 1..Len(onDisk.data) BY <1>4, <3>0, <3>1, <3>2
    <3>4. onDisk.data[o + k] = <<e.content, k>> BY <1>3, <3>1 DEF o
    <3>5. onDisk'.data[o + k] = onDisk.data[o + k] BY <1>8, <1>10, <3>1, <3>3
    <3> QED BY <3>4, <3>5
  <2> QED BY <2>1, <2>2
<1> QED BY <1>1, <1>3, <1>7, <1>11, <1>12, <1>13 DEF s, o

\* What the caller does when writes have returned: an entry that waited for them is one more.
LEMMA GoesKeeps ==
  ASSUME Stands, NEW n \in 1..Len(writes), Goes(n), flush' \in {"ok", "fails", "failed"},
         onDisk' \in PkgFile, Len(onDisk'.header) <= 1, Len(onDisk'.table) <= Reserved
  PROVE  Stands'
<1>1. /\ writes' = SubSeq(writes, n + 1, Len(writes)) /\ UNCHANGED <<access, data>>
      /\ Len(writes) = n /\ adding # NoEntry => entries' = Append(entries, adding) /\ header' = [header EXCEPT !.count = @ + 1] /\ adding' = NoEntry
      /\ ~(Len(writes) = n /\ adding # NoEntry) => UNCHANGED <<entries, header, adding>>
  BY DEF Goes, Stored
<1>2. TableInv /\ MemoryInv /\ WaitInv BY DEF Stands
<1>3. /\ header \in PkgHeader /\ entries \in Seq(PkgEntry) /\ header.count = Len(entries) /\ header.count <= Reserved
      /\ writes \in Seq(Piece) /\ adding \in PkgTable /\ data \in Seq(PkgBlock) /\ access \in {"closed", "memory", "readwrite"}
      /\ access = "closed" => writes = <<>>
  BY <1>2 DEF TableInv
<1>4. Len(writes) \in Nat /\ Len(entries) \in Nat /\ Reserved \in Nat /\ n \in Nat /\ n >= 1 /\ n <= Len(writes)
  BY <1>3, LenProperties, PackageAssumption DEF PackageAssumption
<1>5. writes' \in Seq(Piece) /\ Len(writes') = Len(writes) - n
  <2> DEFINE m == Len(writes)
  <2>1. n + 1 \in 1..(m + 1) /\ m \in 0..m BY <1>4
  <2> HIDE DEF m
  <2>2. writes' \in Seq(Piece) /\ Len(writes') = (IF n + 1 <= m THEN m - (n + 1) + 1 ELSE 0)
    BY <1>1, <1>3, <2>1, SubSeqProperties DEF m
  <2>3. m \in Nat /\ n <= m BY <1>4 DEF m
  <2>4. Len(writes') = m - n BY <1>4, <2>2, <2>3
  <2> QED BY <2>2, <2>4 DEF m
<1>6. access # "closed"
  <2>1. writes # <<>> BY <1>4
  <2> QED BY <1>3, <2>1
<1>7. CASE Len(writes) = n /\ adding # NoEntry
  <2>1. PICK e : e = adding OBVIOUS
  <2> DEFINE es == Append(entries, e)
  <2>2. e \in PkgEntry /\ access = "readwrite" /\ e.offset = TotalSize(entries) /\ header.count < Reserved
    BY <1>2, <1>3, <1>7, <2>1 DEF WaitInv, PkgTable
  <2>3. /\ es \in Seq(PkgEntry) /\ Len(es) = Len(entries) + 1 /\ TotalSize(es) = Past(e)
        /\ \A i \in DOMAIN es : Past(es[i]) <= Past(e)
    BY <1>2, <2>2, OneMore
  <2>4. entries' = es /\ adding' = NoEntry /\ header' = [header EXCEPT !.count = @ + 1] BY <1>1, <1>7, <2>1
  <2> HIDE DEF es
  <2>5. header' \in PkgHeader /\ header'.count = header.count + 1
    <3>1. header = [count |-> header.count, dataSize |-> header.dataSize, seal |-> header.seal, signature |-> header.signature]
          /\ header.count \in Nat /\ header.dataSize \in Nat /\ header.seal \in PkgSeal
          /\ header.signature \in [by : Fingerprints \union {NoFingerprint}, over : PkgSeal]
      BY <1>3 DEF PkgHeader
    <3>2. header' = [count |-> header.count + 1, dataSize |-> header.dataSize, seal |-> header.seal, signature |-> header.signature]
      BY <2>4, <3>1
    <3> QED BY <3>1, <3>2 DEF PkgHeader
  <2>6. header'.count = Len(entries') /\ header'.count <= Reserved BY <1>3, <1>4, <2>2, <2>3, <2>4, <2>5
  <2>7. \A i \in DOMAIN entries' : Past(entries'[i]) <= TotalSize(entries') BY <2>3, <2>4
  <2>8. TableInv' BY <1>1, <1>3, <1>5, <1>6, <2>3, <2>4, <2>5, <2>6, <2>7 DEF TableInv, PkgTable
  <2> QED BY <1>1, <2>2, <2>4, <2>8 DEF Stands, MemoryInv, WaitInv
<1>8. CASE ~(Len(writes) = n /\ adding # NoEntry)
  <2>1. UNCHANGED <<entries, header, adding>> BY <1>1, <1>8
  <2>2. TableInv' BY <1>1, <1>2, <1>5, <1>6, <2>1 DEF TableInv
  <2>3. WaitInv'
    <3>1. adding # NoEntry => Len(writes') # 0 BY <1>4, <1>5, <1>8
    <3>2. adding # NoEntry => writes' # <<>> BY <3>1
    <3> QED BY <1>1, <1>2, <2>1, <3>2 DEF WaitInv
  <2> QED BY <1>1, <1>2, <2>1, <2>2, <2>3 DEF Stands, MemoryInv
<1> QED BY <1>7, <1>8

\* The file stops short of what the caller takes as written.
LEMMA FlushFailsKeeps == ASSUME PackageIInv, FlushFails PROVE PackageIInv'
<1>1. writes # <<>> /\ UNCHANGED onDisk /\ flush' \in {"fails", "failed"} BY DEF FlushFails
<1>2. PICK n \in Unlooked : Goes(n) BY DEF FlushFails
<1>3. Stands /\ TableInv BY DEF PackageIInv, Stands
<1>4. n \in 1..Len(writes)
  <2>1. Len(writes) \in Nat /\ Len(writes) # 0 BY <1>1, <1>3, LenProperties, EmptySeq DEF TableInv
  <2>2. n \in {Len(writes), 1} BY <1>2 DEF Unlooked
  <2> QED BY <2>1, <2>2
<1>5. onDisk' \in PkgFile /\ Len(onDisk'.header) <= 1 /\ Len(onDisk'.table) <= Reserved BY <1>1, <1>3 DEF TableInv
<1>6. Stands' BY <1>1, <1>2, <1>3, <1>4, <1>5, GoesKeeps
<1> QED BY <1>1, <1>6 DEF PackageIInv

\* A write moves what was to be written into the file; the last one of an add stores the entry.
LEMMA FwriteKeeps == ASSUME PackageIInv, Fwrite PROVE PackageIInv'
<1>1. /\ writes # <<>> /\ onDisk' = Written(onDisk, Head(writes)) /\ Goes(1)
      /\ UNCHANGED <<access, data, flush>> /\ writes' = SubSeq(writes, 2, Len(writes))
      /\ Len(writes) = 1 /\ adding # NoEntry => entries' = Append(entries, adding) /\ header' = [header EXCEPT !.count = @ + 1] /\ adding' = NoEntry
      /\ ~(Len(writes) = 1 /\ adding # NoEntry) => UNCHANGED <<entries, header, adding>>
  BY DEF Fwrite, Goes, Stored
<1>2. Stands /\ TableInv /\ WaitInv /\ (flush = "ok" => Lossless) BY DEF PackageIInv, Stands
<1>3. /\ writes' \in Seq(Piece) /\ Len(writes') = Len(writes) - 1 /\ \A i \in 1..Len(writes') : writes'[i] = writes[i+1]
      /\ onDisk' \in PkgFile /\ Len(onDisk'.header) <= 1 /\ Len(onDisk'.table) <= Reserved
      /\ InRow(writes, onDisk) => InRow(writes', onDisk')
      /\ Seals' \subseteq Seals /\ Len(onDisk.data) <= Len(onDisk'.data)
      /\ InRow(writes, onDisk) =>
           \A e \in PkgEntry : Spares(writes[1], e) /\ Agrees(e, onDisk.data) => Agrees(e, onDisk'.data)
  BY <1>1, <1>2, FwriteMoves
<1>4. /\ entries \in Seq(PkgEntry) /\ writes \in Seq(Piece) /\ onDisk \in PkgFile /\ adding \in PkgTable
      /\ flush \in {"ok", "fails", "failed"}
      /\ \A i \in DOMAIN entries : Past(entries[i]) <= TotalSize(entries)
  BY <1>2 DEF TableInv
<1>5. /\ Len(entries) \in Nat /\ DOMAIN entries = 1..Len(entries) /\ Len(writes) \in Nat /\ DOMAIN writes = 1..Len(writes)
      /\ Len(writes') \in Nat /\ DOMAIN writes' = 1..Len(writes')
      /\ Len(onDisk.data) \in Nat /\ Len(onDisk'.data) \in Nat
  <2>1. onDisk.data \in Seq(PkgBlock \union {Hole}) /\ onDisk'.data \in Seq(PkgBlock \union {Hole}) BY <1>3, <1>4 DEF PkgFile
  <2> QED BY <1>3, <1>4, <2>1, LenProperties
<1>5a. Len(writes) >= 1 /\ 1 \in DOMAIN writes /\ \A j \in DOMAIN writes' : j + 1 \in DOMAIN writes /\ writes'[j] = writes[j+1]
  <2>1. Len(writes) # 0 BY <1>1, <1>4, EmptySeq
  <2> QED BY <1>3, <1>5, <2>1
<1>6. TotalSize(entries) \in Nat /\ \A i \in DOMAIN entries : entries[i] \in PkgEntry
  BY <1>4, <1>5, TotalSteps, ElementOfSeq
<1>6a. Stands'
  <2>1. 1 \in 1..Len(writes) BY <1>5, <1>5a
  <2> QED BY <1>1, <1>2, <1>3, <1>4, <2>1, GoesKeeps
<1> SUFFICES ASSUME flush = "ok" PROVE Lossless' BY <1>1, <1>6a DEF PackageIInv
<1>6b. DiskInv /\ FileInv /\ AddInv /\ InRow(writes, onDisk) BY <1>2 DEF Lossless, DiskInv
<1>7. CASE Len(writes) = 1 /\ adding # NoEntry
  <2>1. PICK e : e = adding OBVIOUS
  <2> DEFINE es == Append(entries, e)
  <2>2. e \in PkgEntry /\ access = "readwrite" /\ e.offset = TotalSize(entries) /\ header.count < Reserved
    BY <1>2, <1>4, <1>7, <2>1 DEF WaitInv, PkgTable
  <2>3. /\ es \in Seq(PkgEntry) /\ Len(es) = Len(entries) + 1 /\ TotalSize(es) = Past(e)
        /\ Past(e) \in Nat /\ TotalSize(entries) <= Past(e)
        /\ \A i \in DOMAIN es : (i \in DOMAIN entries /\ es[i] = entries[i]) \/ es[i] = e
        /\ \A i \in DOMAIN es : Past(es[i]) <= Past(e)
    BY <1>2, <2>2, OneMore
  <2>4. entries' = es /\ adding' = NoEntry BY <1>1, <1>7, <2>1
  <2> HIDE DEF es
  <2>6. writes' = <<>>
    <3>1. Len(writes') = 0 BY <1>3, <1>7
    <3> QED BY <1>3, <3>1, EmptySeq
  <2>7. Past(e) <= Len(onDisk'.data) /\ Agrees(e, onDisk'.data)
    <3>1. PICK n \in 0..(SizeOf[e.content] - 1) :
            /\ Len(writes) = SizeOf[e.content] - n
            /\ e.offset + (n + 1) <= Len(onDisk'.data)
            /\ \A k \in 1..(n + 1) : onDisk'.data[e.offset + k] = <<e.content, k>>
      BY <1>1, <1>2, <1>6b, <1>7, <2>1, AddMoves
    <3>2. SizeOf[e.content] \in Nat /\ e.offset \in Nat BY <2>2, SizesOf DEF PkgEntry
    <3>3. n + 1 = SizeOf[e.content]
      <4> DEFINE s == SizeOf[e.content]  l == Len(writes)
      <4>1. l = s - n /\ l = 1 /\ s \in Nat BY <1>7, <3>1, <3>2
      <4>2. n \in Nat BY <3>1, <3>2
      <4> HIDE DEF s, l
      <4>3. n + 1 = s BY <4>1, <4>2
      <4> QED BY <4>3 DEF s
    <3> QED BY <3>1, <3>3 DEF Past, Agrees
  <2>9. FileInv'
    <3>1. \A i \in DOMAIN es : Covers(onDisk'.data, es[i])
      <4> SUFFICES ASSUME NEW i \in DOMAIN es PROVE Covers(onDisk'.data, es[i]) OBVIOUS
      <4>1. CASE es[i] = e BY <2>7, <4>1 DEF Covers
      <4>2. CASE i \in DOMAIN entries /\ es[i] = entries[i]
        <5> DEFINE x == entries[i]
        <5>1. x \in PkgEntry /\ Covers(onDisk.data, x) /\ Past(x) <= TotalSize(entries)
          BY <1>4, <1>6, <1>6b, <2>2, <4>2 DEF FileInv
        <5> HIDE DEF x
        <5>2. x.offset \in Nat /\ SizeOf[x.content] \in Nat BY <5>1, SizesOf DEF PkgEntry
        <5>3. Spares(writes[1], x)
          <6>1. writes[1].part = "data" => writes[1].at > TotalSize(entries) BY <1>5a, <1>6b, <2>2 DEF FileInv
          <6>1a. writes[1].part = "data" => writes[1].at \in Nat
            <7>1. writes[1] \in Piece BY <1>4, <1>5, <1>5a, ElementOfSeq
            <7> QED BY <7>1 DEF Piece, HeaderPiece, TablePiece, DataPiece
          <6>2. x.offset + SizeOf[x.content] <= TotalSize(entries) BY <5>1 DEF Past
          <6> DEFINE w == writes[1]  p == writes[1].at
          <6>3. w.part = "data" => \A k \in 1..SizeOf[x.content] : p # x.offset + k
            <7> HIDE DEF p
            <7>1. w.part = "data" => p \in Nat /\ p > TotalSize(entries) BY <6>1, <6>1a DEF p
            <7> QED BY <1>6, <5>2, <6>2, <7>1
          <6> QED BY <6>3 DEF Spares
        <5>4. Agrees(x, onDisk'.data) BY <1>3, <1>6b, <5>1, <5>3 DEF Covers
        <5>5. Past(x) <= Len(onDisk'.data) BY <1>3, <1>5, <5>1, <5>2 DEF Covers, Past
        <5> QED BY <4>2, <5>4, <5>5 DEF Covers, x
      <4> QED BY <2>3, <4>1, <4>2
    <3>2. DOMAIN writes' = {} BY <2>6
    <3> QED BY <2>3, <2>4, <2>7, <3>1, <3>2 DEF FileInv
  <2>10. AddInv' BY <2>4 DEF AddInv
  <2>12. DiskInv'
    <3>1. ASSUME NEW s \in Seals PROVE SealHolds(s)'
      <4>1. SealHolds(s) BY <1>6b, <3>1 DEF DiskInv
      <4>2. \A i \in 1..s.count : s.entries[i] \in PkgEntry /\ Agrees(s.entries[i], onDisk.data) /\ Spares(writes[1], s.entries[i])
                                  /\ Past(s.entries[i]) <= TotalSize(entries)
        BY <1>5a, <2>2, <4>1 DEF SealHolds
      <4>3. ASSUME NEW i \in 1..s.count
            PROVE  s.entries[i] \in PkgEntry /\ Agrees(s.entries[i], onDisk'.data) /\ Past(s.entries[i]) <= TotalSize(entries')
        <5> DEFINE x == s.entries[i]
        <5>1. x \in PkgEntry /\ Agrees(x, onDisk.data) /\ Spares(writes[1], x) /\ Past(x) <= TotalSize(entries) BY <4>2
        <5> HIDE DEF x
        <5>2. x.offset \in Nat /\ SizeOf[x.content] \in Nat BY <5>1, SizesOf DEF PkgEntry
        <5>3. Past(x) \in Nat BY <5>2 DEF Past
        <5>4. Past(x) <= TotalSize(entries') BY <1>6, <2>3, <2>4, <5>1, <5>3
        <5>5. Agrees(x, onDisk'.data) BY <1>3, <1>6b, <5>1
        <5> QED BY <5>1, <5>4, <5>5 DEF x
      <4>4. DOMAIN writes' = {} BY <2>6
      <4> QED BY <4>3, <4>4 DEF SealHolds
    <3> QED BY <1>3, <1>6b, <3>1 DEF DiskInv
  <2> QED BY <2>9, <2>10, <2>12 DEF Lossless
<1>8. CASE ~(Len(writes) = 1 /\ adding # NoEntry)
  <2>1. UNCHANGED <<entries, header, adding>> BY <1>1, <1>8
  <2>4. FileInv'
    <3> SUFFICES ASSUME access = "readwrite"
                 PROVE  /\ TotalSize(entries) <= Len(onDisk'.data)
                        /\ \A i \in DOMAIN entries : Covers(onDisk'.data, entries[i])
                        /\ \A i \in DOMAIN writes' : writes'[i].part = "data" => writes'[i].at > TotalSize(entries)
      BY <1>1, <2>1 DEF FileInv
    <3>1. /\ TotalSize(entries) <= Len(onDisk.data)
          /\ \A i \in DOMAIN entries : Covers(onDisk.data, entries[i])
          /\ \A i \in DOMAIN writes : writes[i].part = "data" => writes[i].at > TotalSize(entries)
      BY <1>6b DEF FileInv
    <3>2. TotalSize(entries) <= Len(onDisk'.data) BY <1>3, <1>5, <1>6, <3>1
    <3>3. \A i \in DOMAIN writes' : writes'[i].part = "data" => writes'[i].at > TotalSize(entries) BY <1>5a, <3>1
    <3>4. ASSUME NEW i \in DOMAIN entries PROVE Covers(onDisk'.data, entries[i])
      <4> DEFINE x == entries[i]
      <4>1. x \in PkgEntry /\ Covers(onDisk.data, x) /\ Past(x) <= TotalSize(entries) BY <1>4, <1>6, <3>1
      <4> HIDE DEF x
      <4>2. x.offset \in Nat /\ SizeOf[x.content] \in Nat BY <4>1, SizesOf DEF PkgEntry
      <4>3. Spares(writes[1], x)
        <5>1. writes[1].part = "data" => writes[1].at > TotalSize(entries) BY <1>5a, <3>1
        <5>2. writes[1].part = "data" => writes[1].at \in Nat
          <6>1. writes[1] \in Piece BY <1>4, <1>5, <1>5a, ElementOfSeq
          <6> QED BY <6>1 DEF Piece, HeaderPiece, TablePiece, DataPiece
        <5>3. x.offset + SizeOf[x.content] <= TotalSize(entries) BY <4>1 DEF Past
        <5> DEFINE w == writes[1]  p == writes[1].at
        <5>4. w.part = "data" => \A k \in 1..SizeOf[x.content] : p # x.offset + k
          <6> HIDE DEF p
          <6>1. w.part = "data" => p \in Nat /\ p > TotalSize(entries) BY <5>1, <5>2 DEF p
          <6> QED BY <1>6, <4>2, <5>3, <6>1
        <5> QED BY <5>4 DEF Spares
      <4>4. Agrees(x, onDisk'.data) BY <1>3, <1>6b, <4>1, <4>3 DEF Covers
      <4>5. Past(x) <= Len(onDisk'.data) BY <1>3, <1>5, <4>1, <4>2, SMTT(60) DEF Covers, Past
      <4> QED BY <4>4, <4>5 DEF Covers, x
    <3> QED BY <3>2, <3>3, <3>4
  <2>5. DiskInv'
    <3>1. ASSUME NEW s \in Seals PROVE SealHolds(s)'
      <4>1. SealHolds(s) BY <1>6b, <3>1 DEF DiskInv
      <4>2. ASSUME NEW i \in 1..s.count
            PROVE  /\ s.entries[i] \in PkgEntry /\ Agrees(s.entries[i], onDisk'.data)
                   /\ \A j \in DOMAIN writes' : Spares(writes'[j], s.entries[i])
                   /\ access' = "readwrite" => Past(s.entries[i]) <= TotalSize(entries')
        <5> DEFINE x == s.entries[i]
        <5>1. /\ x \in PkgEntry /\ Agrees(x, onDisk.data) /\ \A j \in DOMAIN writes : Spares(writes[j], x)
              /\ access = "readwrite" => Past(x) <= TotalSize(entries)
          BY <4>1 DEF SealHolds
        <5> HIDE DEF x
        <5>2. Agrees(x, onDisk'.data) BY <1>3, <1>5a, <1>6b, <5>1
        <5>3. \A j \in DOMAIN writes' : Spares(writes'[j], x) BY <1>5a, <5>1
        <5> QED BY <1>1, <2>1, <5>1, <5>2, <5>3 DEF x
      <4> QED BY <4>2 DEF SealHolds
    <3> QED BY <1>3, <1>6b, <3>1 DEF DiskInv
  <2>6. AddInv'
    <3> SUFFICES ASSUME adding # NoEntry PROVE AddInv' BY <2>1 DEF AddInv
    <3>1. PICK e : e = adding OBVIOUS
    <3>2. e \in PkgEntry /\ access = "readwrite" /\ e.offset = TotalSize(entries) /\ header.count < Reserved
      BY <1>2, <1>4, <3>1 DEF WaitInv, PkgTable
    <3>3. PICK n \in 0..(SizeOf[e.content] - 1) :
            /\ Len(writes) = SizeOf[e.content] - n
            /\ writes' = Rest(e, n + 1)
            /\ e.offset + (n + 1) <= Len(onDisk'.data)
            /\ \A k \in 1..(n + 1) : onDisk'.data[e.offset + k] = <<e.content, k>>
      BY <1>1, <1>2, <1>6b, <3>1, AddMoves
    <3>4. SizeOf[e.content] \in Nat BY <3>2, SizesOf DEF PkgEntry
    <3>5. n + 1 \in 0..(SizeOf[e.content] - 1) BY <1>8, <3>3, <3>4
    <3>6. \E m \in 0..(SizeOf[e.content] - 1) :
            /\ writes' = Rest(e, m) /\ e.offset + m <= Len(onDisk'.data)
            /\ \A k \in 1..m : onDisk'.data[e.offset + k] = <<e.content, k>>
      BY <3>3, <3>5
    <3> QED BY <1>1, <2>1, <3>1, <3>2, <3>6 DEF AddInv
  <2> QED BY <2>4, <2>5, <2>6 DEF Lossless
<1> QED BY <1>7, <1>8

\* Every step keeps the invariant.
LEMMA PackageStepKeeps == ASSUME PackageIInv, [PackageNext]_packageVars PROVE PackageIInv'
<1>1. CASE UNCHANGED packageVars
  <2>1. UNCHANGED <<access, header, entries, data, onDisk, writes, adding, flush>> BY <1>1 DEF packageVars
  <2>2. TableInv' /\ MemoryInv' /\ WaitInv' BY <2>1 DEF PackageIInv, Stands, TableInv, MemoryInv, WaitInv
  <2>3. ASSUME flush = "ok" PROVE Lossless'
    <3>1. DiskInv /\ FileInv /\ AddInv BY <2>3 DEF PackageIInv, Lossless
    <3> QED BY <2>1, <3>1, SealsStay DEF Lossless, FileInv, AddInv
  <2> QED BY <2>1, <2>2, <2>3 DEF PackageIInv, Stands
<1>2. CASE CreateInFile BY <1>2, CreateInFileKeeps
<1>3. CASE CreateInMemory BY <1>3, CreateInMemoryKeeps
<1>4. CASE Fwrite BY <1>4, FwriteKeeps
<1>5. CASE FwriteFails \/ Close \/ PackageCrash BY <1>5, StopKeeps
<1>5a. CASE FlushFails \/ AddMeetsError BY <1>5a, FlushFailsKeeps, AddMeetsErrorKeeps
<1>6. ASSUME NEW c \in Contents, AddInMemory(c) PROVE PackageIInv' BY <1>6, AddInMemoryKeeps
<1>7. ASSUME NEW c \in Contents, AddInFile(c) PROVE PackageIInv' BY <1>7, AddInFileKeeps
<1>8. ASSUME NEW fp \in Fingerprints \union {NoFingerprint}, SaveInFile(fp) \/ SaveFromMemory(fp) \/ SealInMemory(fp)
      PROVE  PackageIInv'
  BY <1>8, SaveInFileKeeps, SaveFromMemoryKeeps, SealInMemoryKeeps
<1> QED BY <1>1, <1>2, <1>3, <1>4, <1>5, <1>5a, <1>6, <1>7, <1>8 DEF PackageNext

\* The invariant of PackageFile.
LEMMA PackageInvariant == PackageSpec => []PackageIInv
<1>1. PackageInit => PackageIInv BY PackageStart
<1>2. PackageIInv /\ [PackageNext]_packageVars => PackageIInv' BY PackageStepKeeps
<1> QED BY <1>1, <1>2, PTL DEF PackageSpec

\* What the invariant says of types.
LEMMA PackageTypeHolds == PackageIInv => PackageTypeOK
BY DEF PackageIInv, Stands, TableInv, WaitInv, PackageTypeOK

\* A row of blocks is one of blocks and holes.
LEMMA WiderSeq == \A d : d \in Seq(PkgBlock) => d \in Seq(PkgBlock \union {Hole})
<1> SUFFICES ASSUME NEW d \in Seq(PkgBlock) PROVE d \in Seq(PkgBlock \union {Hole}) OBVIOUS
<1>1. /\ Len(d) \in Nat /\ DOMAIN d = 1..Len(d) /\ d = [k \in 1..Len(d) |-> d[k]]
      /\ \A k \in 1..Len(d) : d[k] \in PkgBlock
  BY LenProperties, ElementOfSeq
<1> DEFINE n == Len(d)
<1> HIDE DEF n
<1>2. d \in [1..n -> PkgBlock \union {Hole}] /\ n \in Nat BY <1>1 DEF n
<1> QED BY <1>2

\* Reading an entry: what is there of it, all of it, or an error.
LEMMA ReadsOf ==
  ASSUME NEW e \in PkgEntry, NEW d \in Seq(PkgBlock \union {Hole}), Agrees(e, d)
  PROVE  /\ ReadData(d, e) \in {<<>>, Blocks(e.content)}
         /\ Covers(d, e) => ReadData(d, e) = Blocks(e.content)
<1> DEFINE o == e.offset  c == e.content  s == SizeOf[c]
<1>1. o \in Nat /\ c \in Contents /\ s \in Nat /\ s >= 1 BY SizesOf DEF PkgEntry
<1>2. Len(d) \in Nat BY LenProperties
<1>3. o + s > Len(d) => ReadData(d, e) = <<>> BY DEF ReadData
<1>4. ~(o + s > Len(d)) => ReadData(d, e) = SubSeq(d, o + 1, o + s) BY DEF ReadData
<1>5. Covers(d, e) => ~(o + s > Len(d)) BY <1>1, <1>2 DEF Covers, Past
<1>6. \A k \in 1..s : o + k <= Len(d) => d[o + k] = <<c, k>> BY DEF Agrees
<1>7. Blocks(c) \in Seq(PkgBlock) /\ Len(Blocks(c)) = s /\ \A k \in 1..s : Blocks(c)[k] = <<c, k>> BY <1>1, BlocksOf
<1> HIDE DEF o, s, c
<1>8. ASSUME ~(o + s > Len(d)) PROVE SubSeq(d, o + 1, o + s) = Blocks(c)
  <2> DEFINE r == SubSeq(d, o + 1, o + s)  b == Blocks(c)
  <2>1. o + 1 \in 1..(Len(d) + 1) /\ o + s \in 0..Len(d) /\ o + 1 \in Nat /\ o + s \in Nat BY <1>1, <1>2, <1>8
  <2>2. /\ r \in Seq(PkgBlock \union {Hole})
        /\ Len(r) = IF o + 1 <= o + s THEN (o + s) - (o + 1) + 1 ELSE 0
        /\ \A i \in 1..((o + s) - (o + 1) + 1) : r[i] = d[(o + 1) + i - 1]
    BY <2>1, SubSeqProperties
  <2> HIDE DEF r, b
  <2>3. Len(r) = s
    <3>1. o + 1 <= o + s /\ (o + s) - (o + 1) + 1 = s BY <1>1
    <3> QED BY <2>2, <3>1
  <2>4. ASSUME NEW k \in 1..s PROVE r[k] = b[k]
    <3>1. k \in 1..((o + s) - (o + 1) + 1) /\ (o + 1) + k - 1 = o + k /\ o + k <= Len(d) BY <1>1, <1>2, <1>8
    <3>2. r[k] = d[o + k] BY <2>2, <3>1
    <3>3. d[o + k] = <<c, k>> BY <1>6, <3>1
    <3> QED BY <1>7, <3>2, <3>3 DEF b
  <2>5. b \in Seq(PkgBlock \union {Hole}) /\ Len(b) = s BY <1>7, WiderSeq DEF b
  <2> QED BY <2>2, <2>3, <2>4, <2>5, SeqEqual DEF r, b
<1> QED BY <1>3, <1>4, <1>5, <1>8 DEF c

\* What the invariant says of reading.
LEMMA ReadsHold == PackageIInv => ReadsWhatWasAdded
<1> SUFFICES ASSUME PackageIInv PROVE ReadsWhatWasAdded OBVIOUS
<1>1. TableInv /\ MemoryInv /\ (flush = "ok" => DiskInv /\ FileInv) BY DEF PackageIInv, Stands, Lossless
<1>2. onDisk \in PkgFile /\ entries \in Seq(PkgEntry) /\ data \in Seq(PkgBlock) BY <1>1 DEF TableInv
<1>3. onDisk.header \in Seq(PkgHeader \union {Hole}) /\ onDisk.data \in Seq(PkgBlock \union {Hole}) BY <1>2 DEF PkgFile
<1>4. ASSUME flush = "ok", Opens(onDisk), VerifyPkg(onDisk), NEW i \in 1..onDisk.header[1].count
      PROVE  ReadData(onDisk.data, onDisk.table[i]) \in {<<>>, Blocks(onDisk.table[i].content)}
  <2>1. 1 \in DOMAIN onDisk.header
    <3>1. onDisk.header # <<>> BY <1>4 DEF Opens
    <3> QED BY <1>3, <3>1, EmptySeq, LenProperties
  <2>2. PICK seal : seal = onDisk.header[1].seal OBVIOUS
  <2>3. seal \in Seals BY <2>1, <2>2 DEF Seals
  <2>4. seal = [count |-> onDisk.header[1].count, dataSize |-> onDisk.header[1].dataSize, entries |-> onDisk.table]
    BY <1>4, <2>2 DEF VerifyPkg
  <2>5. i \in 1..seal.count /\ seal.entries = onDisk.table BY <1>4, <2>4
  <2>6. seal.entries[i] \in PkgEntry /\ Agrees(seal.entries[i], onDisk.data) BY <1>1, <1>4, <2>3, <2>5 DEF DiskInv, SealHolds
  <2> DEFINE e == seal.entries[i]
  <2> HIDE DEF e
  <2>7. ReadData(onDisk.data, e) \in {<<>>, Blocks(e.content)} BY <1>3, <2>6, ReadsOf DEF e
  <2> QED BY <2>5, <2>7 DEF e
<1>5. ASSUME access = "memory" \/ (access = "readwrite" /\ flush = "ok"), NEW e \in ToSet(entries)
      PROVE  ReadData(IF access = "memory" THEN data ELSE onDisk.data, e) = Blocks(e.content)
  <2>1. PICK j \in DOMAIN entries : e = entries[j] BY <1>5 DEF ToSet
  <2>2. e \in PkgEntry BY <1>2, <2>1, ElementOfSeq, LenProperties
  <2>3. CASE access = "memory"
    <3>1. Covers(data, e) BY <1>1, <2>1, <2>3 DEF MemoryInv
    <3>2. ReadData(data, e) = Blocks(e.content) BY <1>2, <2>2, <3>1, ReadsOf, WiderSeq DEF Covers
    <3> QED BY <2>3, <3>2
  <2>4. CASE access = "readwrite" /\ flush = "ok"
    <3>1. Covers(onDisk.data, e) BY <1>1, <2>1, <2>4 DEF FileInv
    <3>2. ReadData(onDisk.data, e) = Blocks(e.content) BY <1>3, <2>2, <3>1, ReadsOf DEF Covers
    <3>3. access # "memory" BY <2>4
    <3> QED BY <3>2, <3>3
  <2> QED BY <1>5, <2>3, <2>4
<1>6. flush = "ok" => VerifiedReads BY <1>4 DEF VerifiedReads
<1> QED BY <1>5, <1>6 DEF ReadsWhatWasAdded

\* The number of entries in the header is that of the table, and an entry waits only while its data
\* are written.
THEOREM PackageTypeCorrect == PackageSpec => []PackageTypeOK
<1>1. PackageIInv => PackageTypeOK BY PackageTypeHolds
<1> QED BY <1>1, PackageInvariant, PTL

\* Property ReadsWhatWasAdded: whatever was cut short, failed with an error or saved again, a file
\* that passes verify_pkg gives back what was added, or an error, unless a flush of it failed that
\* nobody looks at; and a package in memory gives back every entry it holds, at any time.
THEOREM EntriesReadBack == PackageSpec => []ReadsWhatWasAdded
<1>1. PackageIInv => ReadsWhatWasAdded BY ReadsHold
<1> QED BY <1>1, PackageInvariant, PTL

--------------------------------------------------------------------------------
(* The four together.                                                         *)
WorldIInv == ContentInv /\ SavesIInv /\ NetIInv /\ PackageIInv

\* Each moves alone, and by its own steps.
LEMMA WorldStep == WorldIInv /\ [WorldNext]_<<contentVars, savesVars, netVars, packageVars, part>> => WorldIInv'
<1> SUFFICES ASSUME WorldIInv, [WorldNext]_<<contentVars, savesVars, netVars, packageVars, part>> PROVE WorldIInv'
  OBVIOUS
<1>1. [ContentNext]_contentVars /\ [SavesNext]_savesVars /\ [NetNext]_netVars /\ [PackageNext]_packageVars
  BY DEF WorldNext
<1>2. ContentInv' BY <1>1, ContentStep DEF WorldIInv
<1>3. SavesIInv' BY <1>1, SavesStepInv DEF WorldIInv
<1>4. NetIInv' BY <1>1, NetStepInv DEF WorldIInv
<1>5. PackageIInv' BY <1>1, PackageStepKeeps DEF WorldIInv
<1> QED BY <1>2, <1>3, <1>4, <1>5 DEF WorldIInv

\* Property WorldInv: what the content, the saves, the network and the packages promise of their
\* states, they promise side by side; that the types of the four hold is part of it.
THEOREM WorldIsTyped == WorldSpec => []WorldInv
<1>1. WorldInit => WorldIInv
  BY ContentStart, SavesInitInv, NetInitInv, PackageStart DEF WorldInit, WorldIInv
<1>2. WorldIInv => WorldInv
  <2>1. NetIInv => NetTypeOK BY DEF NetIInv
  <2> QED BY <2>1, ContentTyped, IdsFollow, SavesTyped, PackageTypeHolds DEF WorldIInv, WorldInv
<1> QED BY <1>1, <1>2, WorldStep, PTL DEF WorldSpec
================================================================================
