-------------------------- MODULE ContentRegistry --------------------------
(* The registries of custom items, buffs, NPCs, projectiles and prefixes    *)
(* (src/terraria/common/content/*_manager.c) and the list of active buffs.   *)
(* The five registries keep the same three things, a vector of handles, the  *)
(* runtime id in each handle and g_ids_assigned, and do not touch each       *)
(* other: a behaviour follows one of them, its kind.  A name stands for the  *)
(* triple of loader, mod and internal name, ordered as qsort orders them.    *)
(* Everything runs on the game's thread.  A tick is split at the update      *)
(* callback of a buff, which may call everything a mod may call.              *)
EXTENDS Integers, SequencesExt, Stripping

CONSTANTS
  Handles,      \* the mods' handle structures
  NameOf,       \* the name each of them carries
  Debuffs,      \* the handles of buffs with debuff set
  Base,         \* how many ids the game has itself
  PrefixLimit,  \* ids of prefixes stay below this (256 in the code)
  Players,
  ActiveMax,    \* BUFF_ACTIVE_MAX, 32 in the code
  MaxTime       \* bound on the frames a buff lasts

ASSUME ContentAssumption ==
  /\ IsFiniteSet(Handles) /\ NameOf \in [Handles -> Nat] /\ Debuffs \subseteq Handles /\ Players # {}
  /\ Base \in Nat /\ PrefixLimit \in Nat /\ ActiveMax \in Nat /\ MaxTime \in Nat

VARIABLES
  kind,       \* which of the five registries
  registry,   \* its vector
  runtimeId,  \* handle -> runtime_id
  assigned,   \* g_ids_assigned
  declared,   \* items: the handles in g_prefix_decls
  active,     \* buffs: g_active
  tick,       \* buffs: the player_tick in progress
  settled     \* history: nothing was registered anew since ids were last assigned

contentVars == <<kind, registry, runtimeId, assigned, declared, active, tick, settled>>

Kinds  == {"item", "buff", "npc", "projectile", "prefix"}
NoTick == [who |-> CHOOSE p \in Players : TRUE, i |-> 0, calling |-> FALSE, moved |-> FALSE, owed |-> {}]

Registered == ToSet(registry)
NamesTaken == {NameOf[h] : h \in Registered}
Position(h) == CHOOSE i \in DOMAIN registry : registry[i] = h
ByName(n)  == {i \in DOMAIN registry : NameOf[registry[i]] = n}

ContentInit == /\ kind \in Kinds
               /\ registry = <<>>
               /\ runtimeId = [h \in Handles |-> -1]
               /\ assigned = FALSE
               /\ declared = {}
               /\ active = <<>>
               /\ tick = NoTick
               /\ settled = FALSE

-----------------------------------------------------------------------------
(* *_assign_ids: sort the vector by name, then number it from the base.  No   *)
(* two of its handles have the same name, so that each has its place.         *)
Before(h, s) == Cardinality({g \in ToSet(s) : NameOf[g] < NameOf[h]})
Sorted(s) == [k \in DOMAIN s |-> CHOOSE h \in ToSet(s) : Before(h, s) = k - 1]

AssignIds(s) ==
  IF kind = "prefix" /\ Base + Len(s) > PrefixLimit
  THEN registry' = s /\ UNCHANGED <<runtimeId, assigned, settled>>
  ELSE /\ registry' = Sorted(s)
       /\ runtimeId' = [h \in Handles |-> IF h \in ToSet(s) THEN Base + Before(h, s) ELSE runtimeId[h]]
       /\ assigned' = (s # <<>> \/ kind # "item" \/ assigned)
       /\ settled' = TRUE

\* Main.Initialize (main.c), once, and only for a registry that is not empty.
InitializeIds == /\ ~assigned /\ registry # <<>>
                 /\ AssignIds(registry)
                 /\ UNCHANGED <<kind, declared, active, tick>>

(* A handle whose name is registered already replaces the other in place and *)
(* takes its id; a new one goes to the end and gets no id here.               *)
\* Mutant: a reload forgets the id.
Replace_NoId(h) == \E i \in ByName(NameOf[h]) : registry' = [registry EXCEPT ![i] = h] /\ UNCHANGED <<runtimeId, settled>>
Replace(h) == \E i \in ByName(NameOf[h]) :
                /\ registry' = [registry EXCEPT ![i] = h]
                /\ runtimeId' = [runtimeId EXCEPT ![h] = runtimeId[registry[i]]]
                /\ UNCHANGED settled
Append1(h) == /\ ByName(NameOf[h]) = {}
              /\ registry' = Append(registry, h)
              /\ settled' = FALSE
              /\ UNCHANGED runtimeId
Register(k, h) == kind = k /\ (Replace(h) \/ Append1(h)) /\ UNCHANGED <<kind, assigned, declared, active, tick>>

RegisterItem(h)       == Register("item", h)
RegisterBuff(h)       == Register("buff", h)
RegisterNpc(h)        == Register("npc", h)
RegisterProjectile(h) == Register("projectile", h)
RegisterPrefix(h)     == Register("prefix", h)

(* Unregistering erases the handle and numbers the others anew. *)
\* Mutant: nothing is renumbered.
Erase_NoRenumber(k, i, renumber) == /\ kind = k /\ i \in DOMAIN registry
                                    /\ registry' = RemoveAt(registry, i)
                                    /\ UNCHANGED <<kind, runtimeId, assigned, settled>>
Erase(k, i, renumber) ==
  /\ kind = k /\ i \in DOMAIN registry
  /\ IF renumber THEN AssignIds(RemoveAt(registry, i))
                 ELSE registry' = RemoveAt(registry, i) /\ UNCHANGED <<runtimeId, assigned, settled>>
  /\ UNCHANGED kind

\* The loop of *_unregister_*_by_id takes the first handle with that id.
FirstWith(id) == {i \in DOMAIN registry : runtimeId[registry[i]] = id /\ \A j \in 1..(i-1) : runtimeId[registry[j]] # id}

UnregisterItemById(id) == \E i \in FirstWith(id) : id >= 0 /\ Erase("item", i, assigned) /\ declared' = declared \ {registry[i]} /\ UNCHANGED <<active, tick>>
UnregisterItem(h)      == h \in Registered /\ Erase("item", Position(h), assigned) /\ declared' = declared \ {h} /\ UNCHANGED <<active, tick>>
UnregisterNpcById(id)  == \E i \in FirstWith(id) : id >= 0 /\ Erase("npc", i, TRUE) /\ UNCHANGED <<declared, active, tick>>
UnregisterNpc(h)       == h \in Registered /\ Erase("npc", Position(h), assigned) /\ UNCHANGED <<declared, active, tick>>
UnregisterProjectileById(id) == \E i \in FirstWith(id) : id >= 0 /\ Erase("projectile", i, TRUE) /\ UNCHANGED <<declared, active, tick>>
UnregisterProjectile(h)      == h \in Registered /\ Erase("projectile", Position(h), assigned) /\ UNCHANGED <<declared, active, tick>>
UnregisterPrefixById(id)     == \E i \in FirstWith(id) : id >= 0 /\ Erase("prefix", i, TRUE) /\ UNCHANGED <<declared, active, tick>>

(* A call may come from the update callback of a tick.  What it takes off the *)
(* list is owed no more; if that moved another buff to an index the tick has  *)
(* passed, the tick remembers it.                                             *)
Stays(k)  == k \in DOMAIN active' /\ active'[k].who = active[k].who /\ active'[k].id = active[k].id
AfterCall == tick' = [tick EXCEPT !.owed = {id \in @ : \E a \in ToSet(active') : a.who = tick.who /\ a.id = id},
                                  !.moved = tick.moved \/ \E k \in 1..tick.i : k \in DOMAIN active /\ ~Stays(k)]

(* Taking a buff off the list moves the last one into its place. *)
ClearActiveOf(id) == active' = Without(active, {a \in ToSet(active) : a.id = id})

UnregisterBuffById(id) == /\ id >= 0
                          /\ \E i \in FirstWith(id) : Erase("buff", i, TRUE)
                          /\ ClearActiveOf(id) /\ AfterCall
                          /\ UNCHANGED declared
UnregisterBuff(h) == /\ h \in Registered
                     /\ Erase("buff", Position(h), assigned)
                     /\ IF runtimeId[h] >= 0 THEN ClearActiveOf(runtimeId[h]) ELSE UNCHANGED active
                     /\ AfterCall
                     /\ UNCHANGED declared

\* terraria_item_manager_set_prefix_class: kept by handle, so before ids exist.
DeclarePrefixClass(h) == kind = "item" /\ declared' = declared \union {h}
                         /\ UNCHANGED <<kind, registry, runtimeId, assigned, active, tick, settled>>

-----------------------------------------------------------------------------
(* Active buffs. *)
Found(id) == IF FirstWith(id) = {} THEN 0 ELSE CHOOSE i \in FirstWith(id) : TRUE
MeaningOf(a) == IF Found(a.id) = 0 THEN -1 ELSE NameOf[registry[Found(a.id)]]

\* terraria_buff_manager_add: prolongs a buff the player has, or appends one.
Added(h, p, t) ==
  LET mine == {i \in DOMAIN active : active[i].who = p /\ active[i].id = runtimeId[h]} IN
  IF mine # {}
  THEN [i \in DOMAIN active |-> IF i \in mine /\ active[i].time < t THEN [active[i] EXCEPT !.time = t] ELSE active[i]]
  ELSE IF Len(active) >= ActiveMax THEN active
  ELSE Append(active, [who |-> p, id |-> runtimeId[h], time |-> t])
Dropped(h, p) == Without(active, {a \in ToSet(active) : a.who = p /\ a.id = runtimeId[h]})

AddBuff(h, p, t) ==
  /\ kind = "buff" /\ runtimeId[h] >= 0
  /\ active' = Added(h, p, t) /\ AfterCall
  /\ UNCHANGED <<kind, registry, runtimeId, assigned, declared, settled>>
RemoveBuff(h, p) ==
  /\ kind = "buff"
  /\ active' = Dropped(h, p) /\ AfterCall
  /\ UNCHANGED <<kind, registry, runtimeId, assigned, declared, settled>>

\* terraria_buff_manager_clear_debuffs, also the nurse's treatment.
ClearDebuffs(p) ==
  /\ kind = "buff"
  /\ active' = Without(active, {a \in ToSet(active) : a.who = p /\ Found(a.id) # 0 /\ registry[Found(a.id)] \in Debuffs})
  /\ AfterCall
  /\ UNCHANGED <<kind, registry, runtimeId, assigned, declared, settled>>

\* player_tick for one player; owed are the buffs it has still to count down.
TickBegin(p) ==
  /\ kind = "buff" /\ active # <<>>
  /\ tick' = [who |-> p, i |-> 1, calling |-> FALSE, moved |-> FALSE,
              owed |-> {a.id : a \in {b \in ToSet(active) : b.who = p}}]
  /\ UNCHANGED <<kind, registry, runtimeId, assigned, declared, active, settled>>

TickSkip == /\ tick.i \in DOMAIN active /\ active[tick.i].who # tick.who
            /\ tick' = [tick EXCEPT !.i = @ + 1]
            /\ UNCHANGED <<kind, registry, runtimeId, assigned, declared, active, settled>>

\* Mutant: steps over the entry moved in.
TickDrop_Advances == LET a == active[tick.i] IN
                     /\ tick.i \in DOMAIN active /\ a.who = tick.who
                     /\ Found(a.id) = 0 \/ a.time <= 1
                     /\ active' = SwapErase(active, tick.i)
                     /\ tick' = [tick EXCEPT !.i = @ + 1, !.owed = @ \ {a.id}]
                     /\ UNCHANGED <<kind, registry, runtimeId, assigned, declared, settled>>
TickDrop == LET a == active[tick.i] IN   \* no such handle any more, or its last frame
            /\ tick.i \in DOMAIN active /\ a.who = tick.who
            /\ Found(a.id) = 0 \/ a.time <= 1
            /\ active' = SwapErase(active, tick.i)
            /\ tick' = [tick EXCEPT !.owed = @ \ {a.id}]
            /\ UNCHANGED <<kind, registry, runtimeId, assigned, declared, settled>>

\* One frame less, then the mod's update callback begins, and returns.
TickCount == LET a == active[tick.i] IN
             /\ tick.i \in DOMAIN active /\ a.who = tick.who
             /\ Found(a.id) # 0 /\ a.time > 1
             /\ active' = [active EXCEPT ![tick.i].time = @ - 1]
             /\ tick' = [tick EXCEPT !.calling = TRUE, !.owed = @ \ {a.id}]
             /\ UNCHANGED <<kind, registry, runtimeId, assigned, declared, settled>>
TickReturn == /\ tick' = [tick EXCEPT !.calling = FALSE, !.i = @ + 1]
              /\ UNCHANGED <<kind, registry, runtimeId, assigned, declared, active, settled>>

TickEnd == /\ tick.i > Len(active)
           /\ tick' = NoTick
           /\ UNCHANGED <<kind, registry, runtimeId, assigned, declared, active, settled>>

Ids == -1..(Base + Cardinality(Handles))
RegisterAny(h) == RegisterItem(h) \/ RegisterBuff(h) \/ RegisterNpc(h) \/ RegisterProjectile(h) \/ RegisterPrefix(h)
UnregisterAny == \/ \E h \in Handles : UnregisterItem(h) \/ UnregisterBuff(h) \/ UnregisterNpc(h) \/ UnregisterProjectile(h)
                 \/ \E id \in Ids : UnregisterItemById(id) \/ UnregisterBuffById(id) \/ UnregisterNpcById(id)
                                    \/ UnregisterProjectileById(id) \/ UnregisterPrefixById(id)
BuffCall == \E h \in Handles, p \in Players, t \in 1..MaxTime : AddBuff(h, p, t) \/ RemoveBuff(h, p) \/ ClearDebuffs(p)
ModCall  == UnregisterAny \/ BuffCall \/ \E h \in Handles : RegisterAny(h) \/ DeclarePrefixClass(h)
TickStep == TickSkip \/ TickDrop \/ TickCount \/ TickEnd

ContentNext == \/ tick = NoTick /\ (ModCall \/ InitializeIds \/ \E p \in Players : TickBegin(p))
               \/ tick # NoTick /\ ~tick.calling /\ TickStep
               \/ tick.calling /\ (ModCall \/ TickReturn)

ContentSpec == ContentInit /\ [][ContentNext]_contentVars

-----------------------------------------------------------------------------
\* Type invariant: no two handles with one name, no buff twice on one player.
ContentTypeOK ==
  /\ kind \in Kinds /\ assigned \in BOOLEAN /\ settled \in BOOLEAN
  /\ registry \in Seq(Handles) /\ Cardinality(NamesTaken) = Len(registry)
  /\ runtimeId \in [Handles -> Ids] /\ declared \subseteq Handles
  /\ active \in Seq([who : Players, id : Ids \ {-1}, time : 1..MaxTime]) /\ Len(active) <= ActiveMax
  /\ \A i, j \in DOMAIN active : active[i].who = active[j].who /\ active[i].id = active[j].id => i = j
  /\ tick \in [who : Players, i : 0..(ActiveMax + 1), calling : BOOLEAN, moved : BOOLEAN, owed : SUBSET Ids]

\* As long as nothing came late, an id depends on the names that are loaded and not on the order in
\* which the mods registered, reloaded and unregistered; and get_item/get_buff/..., which index
\* the vector with the id, reach the handle that carries it.
IdsFollowTheNames ==
  settled => \A h \in Registered : /\ runtimeId[h] = Base + Cardinality({n \in NamesTaken : n < NameOf[h]})
                                   /\ registry[runtimeId[h] - Base + 1] = h

\* Registering (a reload replaces the handle under a buff that is running), late or in
\* time, never turns an active buff into another: the id on the list leads to a handle of
\* the same name.  Only unregistering may do that.
BuffsKeepTheirMeaning ==
  [][NamesTaken \subseteq NamesTaken' => \A a \in ToSet(active) : MeaningOf(a) # -1 => MeaningOf(a)' = MeaningOf(a)]_contentVars

\* What the comment and the header say of the tick: when its loop ends, every buff that the player
\* had and that is still on the list has been counted down.
TickEnds == tick # NoTick /\ ~tick.calling /\ tick.i > Len(active)
EveryBuffTicks == TickEnds => tick.owed = {}

\* That is so unless a callback of this pass took a buff off at an index the loop had reached
\* (its own, say), whatever else was added, prolonged, dropped, registered or unregistered.
TicksUnlessMoved == TickEnds /\ ~tick.moved => tick.owed = {}
=============================================================================
