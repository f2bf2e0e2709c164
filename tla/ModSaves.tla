------------------------------ MODULE ModSaves ------------------------------
(* The companion save of a player or a world                                 *)
(* (src/terraria/common/save/tef_*.c).  The game writes its own file with the *)
(* raw numbers of items and prefixes; the kernel then writes <file>.tef with  *)
(* their names, because the numbers depend on the mods that are loaded.       *)
(* A behaviour runs over several sessions, each with a set of mods of its     *)
(* own; the program may crash anywhere.  A mod is its number and brings one   *)
(* item and one prefix of that name; numbering is that of ContentRegistry.    *)
EXTENDS Integers, FiniteSets

CONSTANTS
  Mods,       \* the mods that may be loaded, positive numbers; names sort as they do
  Unknown,    \* the name of the kernel's own placeholder item, always registered
  ItemBase,   \* numbers below this are the game's own items: terraria_item_id_get_count
  PrefixBase, \* and prefixes: terraria_prefix_id_get_count
  Slots,      \* of the containers
  Sanitized   \* those checked after loading: the banks of a player, every chest of a world

ASSUME SavesAssumption ==
  /\ Mods \subseteq Nat \ {0} /\ IsFiniteSet(Mods) /\ Unknown \in Nat \ ({0} \union Mods)
  /\ ItemBase \in Nat \ {0} /\ PrefixBase \in Nat \ {0} /\ Sanitized \subseteq Slots

VARIABLES
  pc,         \* where the game's thread is
  loaded,     \* the mods of this session
  bag,        \* slot -> [type, prefix] in memory
  gameFile,   \* the game's own file
  disk,       \* the companion <file>.tef
  tmp,        \* <file>.tef.tmp
  truth,      \* history: slot -> the names in it when the game last wrote its file
  inSync,     \* history: the companion is of the same save as the game's file
  old         \* history: the companion there was when the save under way began

savesVars == <<pc, loaded, bag, gameFile, disk, tmp, truth, inSync, old>>

NoFile == [is |-> "none", holds |-> {}]
Torn   == [is |-> "torn", holds |-> {}]
File(x) == [is |-> "whole", holds |-> x]
Whole(f) == f.is = "whole"
NoName == 0
Empty  == [type |-> 0, prefix |-> 0]

-----------------------------------------------------------------------------
(* Names and numbers of a session. *)
Rank(n, S) == Cardinality({m \in S : m < n})
ItemNames  == loaded \union {Unknown}
TypeOf(n)   == ItemBase + Rank(n, ItemNames)
PrefixOf(n) == PrefixBase + Rank(n, loaded)
ItemCount   == ItemBase + Cardinality(ItemNames)
NameOfType(t)   == IF \E n \in ItemNames : TypeOf(n) = t THEN CHOOSE n \in ItemNames : TypeOf(n) = t ELSE NoName
NameOfPrefix(p) == IF \E n \in loaded : PrefixOf(n) = p THEN CHOOSE n \in loaded : PrefixOf(n) = p ELSE NoName

\* What the player sees in a slot: the game's own things by number, the mods' by name.
Seen(it) == [type   |-> IF it.type < ItemBase THEN <<"game", it.type>> ELSE <<"mod", NameOfType(it.type)>>,
             prefix |-> IF it.prefix < PrefixBase THEN <<"game", it.prefix>> ELSE <<"mod", NameOfPrefix(it.prefix)>>]

SavesInit == /\ pc = "off"
             /\ loaded = {}
             /\ bag = [s \in Slots |-> Empty]
             /\ gameFile = NoFile
             /\ disk = NoFile
             /\ tmp = NoFile
             /\ truth = [s \in Slots |-> Seen(Empty)]
             /\ inSync = FALSE
             /\ old = NoFile

-----------------------------------------------------------------------------
(* write_items_seg, write_chests_seg: one element for every slot that holds  *)
(* something of a mod.                                                        *)
Saved(it) == [id |-> it.type, name |-> NameOfType(it.type), prefix |-> it.prefix, pname |-> NameOfPrefix(it.prefix)]
OfMods(it) == it.type > 0 /\ (it.type >= ItemBase \/ it.prefix >= PrefixBase)
Elements(b) == {[slot |-> s, item |-> Saved(b[s])] : s \in {x \in Slots : OfMods(b[x])}}

\* resolve_item_type: by name, the placeholder when its mod is missing; without a name by number.
ResolveType_ById(e) == IF e.id < ItemCount THEN e.id
                       ELSE IF e.name \in ItemNames THEN TypeOf(e.name) ELSE TypeOf(Unknown)   \* mutant
ResolveType(e) ==
  IF e.name # NoName THEN (IF e.name \in ItemNames THEN TypeOf(e.name) ELSE TypeOf(Unknown))
  ELSE IF e.id < ItemCount THEN e.id     \* below ItemBase the game's, above it whatever has that number now
  ELSE TypeOf(Unknown)
\* resolve_prefix: by name, none when its mod is missing.
ResolvePrefix(e) == IF e.prefix < PrefixBase THEN e.prefix
                    ELSE IF e.pname \in loaded THEN PrefixOf(e.pname) ELSE 0

\* apply_item over what the game loaded, then the stale numbers of the sanitized slots.
Overlay(b, file) == [s \in Slots |->
  IF Whole(file) /\ \E e \in file.holds : e.slot = s
  THEN LET e == CHOOSE x \in file.holds : x.slot = s IN [type |-> ResolveType(e.item), prefix |-> ResolvePrefix(e.item)]
  ELSE b[s]]
Sanitize(b) == [s \in Slots |-> IF s \in Sanitized /\ b[s].type >= ItemCount THEN [type |-> TypeOf(Unknown), prefix |-> 0] ELSE b[s]]

-----------------------------------------------------------------------------
Start(M) == /\ pc = "off"
            /\ pc' = "menu" /\ loaded' = M
            /\ UNCHANGED <<bag, gameFile, disk, tmp, truth, inSync, old>>

NewGame == /\ pc = "menu" /\ gameFile = NoFile
           /\ pc' = "play" /\ bag' = [s \in Slots |-> Empty]
           /\ UNCHANGED <<loaded, gameFile, disk, tmp, truth, inSync, old>>

Load == /\ pc = "menu" /\ gameFile # NoFile
        /\ pc' = "play" /\ bag' = Sanitize(Overlay(gameFile.holds, disk))
        /\ UNCHANGED <<loaded, gameFile, disk, tmp, truth, inSync, old>>

\* The player fills and empties slots.
Put(s, it) == /\ pc = "play"
              /\ bag' = [bag EXCEPT ![s] = it]
              /\ UNCHANGED <<pc, loaded, gameFile, disk, tmp, truth, inSync, old>>

\* The game writes its file, then the postfix writes the companion.
SaveGame == /\ pc = "play"
            /\ pc' = "written" /\ gameFile' = File(bag)
            /\ truth' = [s \in Slots |-> Seen(bag[s])] /\ inSync' = FALSE /\ old' = disk
            /\ UNCHANGED <<loaded, bag, disk, tmp>>

\* tef_save_file_write.
OpenTmp == /\ pc = "written"
           /\ pc' = "writing" /\ tmp' = Torn
           /\ UNCHANGED <<loaded, bag, gameFile, disk, truth, inSync, old>>
WriteTmp == /\ pc = "writing"
            /\ pc' = "removing" /\ tmp' = File(Elements(bag))
            /\ UNCHANGED <<loaded, bag, gameFile, disk, truth, inSync, old>>
WriteFails_GoesOn == /\ pc \in {"written", "writing"}     \* mutant: the result of fwrite is not looked at
                     /\ pc' = "removing" /\ tmp' = Torn
                     /\ UNCHANGED <<loaded, bag, gameFile, disk, truth, inSync, old>>
WriteFails == /\ pc \in {"written", "writing"}     \* fopen, or fwrite and fclose
              /\ pc' = "play" /\ tmp' = (IF pc = "writing" THEN NoFile ELSE tmp) /\ old' = NoFile
              /\ UNCHANGED <<loaded, bag, gameFile, disk, truth, inSync>>
RemoveOld == /\ pc = "removing"     \* nobody looks at what remove says
             /\ pc' = "renaming" /\ disk' \in {NoFile, disk}
             /\ UNCHANGED <<loaded, bag, gameFile, tmp, truth, inSync, old>>
Rename == /\ pc = "renaming"
          /\ pc' = "play" /\ disk' = tmp /\ tmp' = NoFile /\ inSync' = TRUE /\ old' = NoFile
          /\ UNCHANGED <<loaded, bag, gameFile, truth>>
RenameFails == /\ pc = "renaming"
               /\ pc' = "play" /\ tmp' = NoFile /\ old' = NoFile
               /\ UNCHANGED <<loaded, bag, gameFile, disk, truth, inSync>>

ToMenu == /\ pc = "play"
          /\ pc' = "menu"
          /\ UNCHANGED <<loaded, bag, gameFile, disk, tmp, truth, inSync, old>>

\* Erasing: the prefix removes the companion, then the game its file.
EraseCompanion == /\ pc = "menu" /\ gameFile # NoFile
                  /\ pc' = "erasing" /\ disk' = NoFile /\ inSync' = FALSE
                  /\ UNCHANGED <<loaded, bag, gameFile, tmp, truth, old>>
EraseGame == /\ pc = "erasing"
             /\ pc' = "menu" /\ gameFile' = NoFile
             /\ UNCHANGED <<loaded, bag, disk, tmp, truth, inSync, old>>

\* The program ends, in order or not; the files stay as they are.
Stop == /\ pc # "off"
        /\ pc' = "off" /\ loaded' = {} /\ bag' = [s \in Slots |-> Empty] /\ old' = NoFile
        /\ UNCHANGED <<gameFile, disk, tmp, truth, inSync>>

\* What a slot can be given: the game's item with any prefix, a mod's with none or its own.
Items == [type : {1}, prefix : {0} \union {PrefixOf(n) : n \in loaded}]
         \union [type : {TypeOf(n) : n \in ItemNames}, prefix : {0}]
         \union {[type |-> TypeOf(n), prefix |-> PrefixOf(n)] : n \in loaded} \union {Empty}

SavesNext == \/ \E M \in SUBSET Mods : Start(M)
             \/ NewGame \/ Load \/ SaveGame \/ OpenTmp \/ WriteTmp \/ WriteFails \/ RemoveOld
             \/ Rename \/ RenameFails \/ ToMenu \/ EraseCompanion \/ EraseGame \/ Stop
             \/ \E s \in Slots, it \in Items : Put(s, it)

SavesSpec == SavesInit /\ [][SavesNext]_savesVars

-----------------------------------------------------------------------------
\* Type invariant.
SlotType == [type : 0..(ItemBase + Cardinality(Mods)), prefix : 0..(PrefixBase + Cardinality(Mods))]
SavesTypeOK ==
  /\ pc \in {"off", "menu", "play", "written", "writing", "removing", "renaming", "erasing"}
  /\ loaded \subseteq Mods /\ bag \in [Slots -> SlotType]
  /\ Whole(gameFile) => gameFile.holds \in [Slots -> SlotType]
  /\ \A f \in {disk, tmp} : Whole(f) => \A e, d \in f.holds : e.slot \in Slots /\ (e.slot = d.slot => e = d)
  /\ inSync \in BOOLEAN

\* What a slot must show after loading: the same, the placeholder for an item
\* whose mod is not there, no prefix for a prefix whose mod is not there.
Expected(seen) ==
  [type   |-> IF seen.type[1] = "mod" /\ seen.type[2] \notin ItemNames THEN <<"mod", Unknown>> ELSE seen.type,
   prefix |-> IF seen.prefix[1] = "mod" /\ seen.prefix[2] \notin loaded THEN <<"game", 0>> ELSE seen.prefix]

\* Loading what was saved gives every item back as itself, whatever mods were loaded
\* then and now and however that shifts the numbers; an item never turns into another
\* mod's.  (Both files are of the same save and it saved no number without a name.)
LoadRestores ==
  [][Load /\ inSync /\ (\A s \in Slots : truth[s].type # <<"mod", NoName>>)
     => \A s \in Slots : Seen(bag[s])' = Expected(truth[s])]_savesVars

\* A save, however it ends (finished, failed, cut off by a crash), leaves as the companion
\* the file there was, the complete new one or none, never a part of one or a mixture;
\* and until the new one is complete beside it, it leaves the file there was.
Saving == {"written", "writing", "removing", "renaming"}
SaveEnds ==
  [][pc' \notin Saving /\ pc \in Saving
     => \/ disk' \in {old, File(Elements(bag))}
        \/ disk' = NoFile /\ pc = "renaming"]_savesVars

\* What the header says of tef_save_file_write, an atomic replacement: of the two files
\* one is there when the save has ended.
AtomicReplace ==
  [][pc' \notin Saving /\ pc \in Saving => disk' \in {old, File(Elements(bag))}]_savesVars
=============================================================================
