----------------------------- MODULE CoreProofs ------------------------------
(***************************************************************************)
(* Theorems about Registry, for any packages and dependencies, and about   *)
(* MethodHook, for any methods, callbacks and handles, as long as no       *)
(* method gets the same callback twice.                                    *)
(*                                                                         *)
(* None of the invariants is inductive alone.  Registry: that a library's  *)
(* pointers lead to loaded plugins only, needs that every open module and  *)
(* modloader is in shared_plugin_libraries while no plugin is, which needs *)
(* that memdl_open hands out values no open library has and that the       *)
(* kernel loads plugins before it lists the first library.  MethodHook:    *)
(* that a hook stays active needs that no two hooks of a method share a    *)
(* callback, because uninstalling removes every equal value; that a method *)
(* never runs a freed closure needs that a handle is freed only when no    *)
(* hook is left; that callbacks run in the order of installation needs     *)
(* both.                                                                   *)
(***************************************************************************)
EXTENDS Registry, MethodHook, InductionProofs, FiniteSetTheorems

-----------------------------------------------------------------------------
(* Registry *)

LEMMA Disjoint ==
  /\ Modules \intersect Loaders = {} /\ Modules \intersect Plugins = {}
  /\ Loaders \intersect Plugins = {}
  /\ Nil \notin Handles /\ HandlesReused \in BOOLEAN
BY RegistryAssumption DEF Users

\* Where handle values and library lists stand in the course of loading.
Bookkeeping ==
  /\ \A c \in Components : Open(c) => handle[c] \in used
  /\ shared \subseteq used
  /\ \A c \in todo : ~Open(c)
  /\ phase = "plugins" => shared = {} /\ modules = {} /\ loaders = {}

\* Which libraries are listed as shared, and what their pointers lead to.
Pointers ==
  /\ \A c \in modules \union loaders : handle[c] \in shared
  /\ \A p \in Plugins : bound[p] = {} /\ handle[p] \notin shared

IInv ==
  TypeOK /\ ListedAreOpen /\ Bookkeeping /\ Pointers /\ NoDanglingSymbol /\ RefsCoverUsers

-----------------------------------------------------------------------------
\* What IInv holds of the first state.
LEMMA InitIInv == Init => IInv
<1> SUFFICES ASSUME Init PROVE IInv OBVIOUS
<1> USE Disjoint DEF Init, Open
<1>1. \A c \in Components : ~Open(c) OBVIOUS
<1>2. TypeOK BY DEF TypeOK, Components
<1>3. ListedAreOpen BY <1>1 DEF ListedAreOpen
<1>4. Bookkeeping /\ Pointers
  BY <1>1 DEF Bookkeeping, Pointers, Components
<1>5. NoDanglingSymbol /\ RefsCoverUsers
  BY <1>1 DEF NoDanglingSymbol, RefsCoverUsers
<1> QED BY <1>2, <1>3, <1>4, <1>5 DEF IInv

\* A component is in the list of its kind iff it is open.
LEMMA OpenIsListed ==
  ASSUME IInv
  PROVE  /\ \A p \in Plugins : Open(p) <=> p \in plugins
         /\ \A m \in Modules : Open(m) <=> m \in modules
         /\ \A l \in Loaders : Open(l) <=> l \in loaders
BY Disjoint DEF IInv, ListedAreOpen, TypeOK, Components, Users

\* A value memdl_open returns belongs to no open library.
LEMMA FreshIsFresh ==
  ASSUME IInv, NEW h \in FreshHandles
  PROVE  /\ h \in Handles /\ h # Nil
         /\ \A c \in Components : handle[c] # h
<1>1. h \in Handles /\ h # Nil
  BY Disjoint DEF FreshHandles
<1>2. \A c \in Components : handle[c] # h
  <2>1. CASE HandlesReused
    BY <2>1 DEF FreshHandles
  <2>2. CASE ~HandlesReused
    BY <2>2, <1>1 DEF FreshHandles, IInv, Bookkeeping, Open
  <2> QED BY <2>1, <2>2, Disjoint
<1> QED BY <1>1, <1>2
-----------------------------------------------------------------------------
(* One lemma for each kind of step.                                        *)

\* A package was tried and nothing was opened.
LEMMA Refused ==
  ASSUME IInv, UNCHANGED listVars, UNCHANGED <<handle, bound>>,
         todo' \subseteq todo,
         phase' \in {"plugins", "modules", "loaders", "start", "up", "down"},
         shared' \in SUBSET used', used' \in SUBSET Handles, used \subseteq used',
         shared \subseteq shared',
         \A c \in Components : Open(c) /\ handle[c] \in shared' => handle[c] \in shared,
         phase' = "plugins" => phase = "plugins" /\ shared' = shared,
         refs' \in [Components -> [Plugins -> Nat]],
         \A c \in Components, p \in Plugins : refs'[c][p] >= refs[c][p]
  PROVE  IInv'
<1> USE Disjoint DEF listVars
<1>0. TypeOK /\ ListedAreOpen /\ Bookkeeping /\ Pointers /\ NoDanglingSymbol /\ RefsCoverUsers
  BY DEF IInv
<1>1. \A c \in Components : Open(c)' <=> Open(c)
  BY DEF Open
<1>2. TypeOK'
  BY <1>0 DEF TypeOK
<1>3. ListedAreOpen'
  BY <1>0, <1>1 DEF ListedAreOpen
<1>4. Bookkeeping'
  BY <1>0, <1>1 DEF Bookkeeping, TypeOK
<1>5. Pointers'
  <2>1. \A p \in Plugins : handle[p] \notin shared'
    <3> SUFFICES ASSUME NEW p \in Plugins PROVE handle[p] \notin shared' OBVIOUS
    <3>1. CASE Open(p)
      BY <1>0, <3>1 DEF Components, Pointers
    <3>2. CASE ~Open(p)
      BY <1>0, <3>2 DEF Open, Components
    <3> QED BY <3>1, <3>2
  <2> QED BY <1>0, <2>1 DEF Pointers
<1>6. NoDanglingSymbol'
  BY <1>0, <1>1 DEF NoDanglingSymbol
<1>7. RefsCoverUsers'
  <2>1. \A m \in modules : \A p \in Deps[m] : m \in Components /\ p \in Plugins
    BY <1>0, RegistryAssumption DEF TypeOK, Components, Users
  <2>2. \A p \in plugins : p \in Components /\ p \in Plugins
    BY <1>0 DEF TypeOK, Components
  <2>3. \A c \in Components, p \in Plugins :
          refs[c][p] >= 1 => refs'[c][p] >= 1
    <3> SUFFICES ASSUME NEW c \in Components, NEW p \in Plugins, refs[c][p] >= 1
                 PROVE  refs'[c][p] >= 1
      OBVIOUS
    <3>1. refs[c][p] \in Nat /\ refs'[c][p] \in Nat /\ refs'[c][p] >= refs[c][p]
      BY <1>0 DEF TypeOK
    <3> QED BY <3>1
  <2> QED BY <1>0, <2>1, <2>2, <2>3 DEF RefsCoverUsers
<1> QED BY <1>2, <1>3, <1>4, <1>5, <1>6, <1>7 DEF IInv
\* A plugin was opened and listed.
LEMMA PluginLoaded ==
  ASSUME IInv, NEW p \in Plugins, NEW h \in FreshHandles, phase = "plugins", p \in todo,
         Tried(p), Opened(p, h), plugins' = plugins \union {p},
         refs' = [refs EXCEPT ![p][p] = @ + 1],
         UNCHANGED <<phase, modules, loaders, shared, bound>>
  PROVE  IInv'
<1> USE Disjoint DEF Tried, Opened
<1>0. /\ TypeOK /\ ListedAreOpen /\ Bookkeeping /\ Pointers
      /\ NoDanglingSymbol /\ RefsCoverUsers
  BY DEF IInv
<1>1. /\ h \in Handles /\ h # Nil /\ \A c \in Components : handle[c] # h
      /\ modules = {} /\ loaders = {} /\ shared = {}
  BY <1>0, FreshIsFresh DEF Bookkeeping
<1>2. TypeOK'
  BY <1>0, <1>1 DEF TypeOK, Components
<1>3. \A c \in Components : Open(c)' <=> Open(c) \/ c = p
  BY <1>0, <1>1 DEF Open, TypeOK
<1>4. ListedAreOpen'
  <2>1. {c \in Components : Open(c)}' = {c \in Components : Open(c)} \union {p}
    BY <1>3 DEF Components
  <2>2. ASSUME NEW c \in Components, NEW d \in Components,
               Open(c)', handle'[c] = handle'[d]
        PROVE  c = d
    BY <1>0, <1>1, <2>2 DEF TypeOK, ListedAreOpen, Open
  <2> QED BY <1>0, <2>1, <2>2 DEF ListedAreOpen
<1>5. Bookkeeping'
  BY <1>0, <1>1, <1>3 DEF Bookkeeping, TypeOK
<1>6. Pointers' /\ NoDanglingSymbol'
  BY <1>0, <1>1, <1>3 DEF Pointers, NoDanglingSymbol, TypeOK, Components
<1>7. RefsCoverUsers'
  <2>1. \A q \in plugins \union {p} : q \in Plugins /\ q \in Components
    BY <1>0 DEF TypeOK, Components
  <2>2. \A q \in plugins : refs'[q][q] >= 1
    BY <1>0, <2>1 DEF TypeOK, RefsCoverUsers
  <2>3. refs'[p][p] >= 1
    BY <1>0, <2>1 DEF TypeOK
  <2> QED BY <1>1, <2>2, <2>3 DEF RefsCoverUsers
<1> QED BY <1>2, <1>4, <1>5, <1>6, <1>7 DEF IInv

\* A module or modloader was opened, listed and given its symbols.
LEMMA UserLoaded ==
  ASSUME IInv, NEW u \in Users, NEW h \in FreshHandles, phase \in {"modules", "loaders"},
         u \in todo, Tried(u), Opened(u, h), Shared(u, h),
         \/ u \in Modules /\ modules' = modules \union {u} /\ UNCHANGED loaders
         \/ u \in Loaders /\ loaders' = loaders \union {u} /\ UNCHANGED modules,
         refs' \in [Components -> [Plugins -> Nat]],
         \A c \in Components, p \in Plugins : refs'[c][p] >= refs[c][p],
         u \in Modules => \A p \in Deps[u] : refs'[u][p] >= 1,
         UNCHANGED <<phase, plugins>>
  PROVE  IInv'
<1> USE Disjoint DEF Tried, Opened, Shared
<1>0. /\ TypeOK /\ ListedAreOpen /\ Bookkeeping /\ Pointers
      /\ NoDanglingSymbol /\ RefsCoverUsers
  BY DEF IInv
<1>1. /\ h \in Handles /\ h # Nil /\ \A c \in Components : handle[c] # h
  BY FreshIsFresh
<1>2. TypeOK'
  BY <1>0, <1>1 DEF TypeOK, Components
<1>3. \A c \in Components : Open(c)' <=> Open(c) \/ c = u
  BY <1>0, <1>1 DEF Open, TypeOK
<1>4. ListedAreOpen'
  <2>1. {c \in Components : Open(c)}' = {c \in Components : Open(c)} \union {u}
    BY <1>3 DEF Components
  <2>2. ASSUME NEW c \in Components, NEW d \in Components,
               Open(c)', handle'[c] = handle'[d]
        PROVE  c = d
    BY <1>0, <1>1, <2>2 DEF TypeOK, ListedAreOpen, Open
  <2> QED BY <1>0, <2>1, <2>2 DEF ListedAreOpen
<1>5. Bookkeeping'
  BY <1>0, <1>1, <1>3 DEF Bookkeeping, TypeOK, Components
<1>6. Pointers'
  <2>1. \A c \in modules \union loaders : c # u /\ c \in Components
    BY <1>0 DEF Bookkeeping, ListedAreOpen, TypeOK, Components, Users
  <2>2. \A c \in (modules \union loaders)' : handle'[c] \in shared'
    BY <1>0, <2>1 DEF Pointers, TypeOK, Components
  <2>3. \A p \in Plugins : bound'[p] = {} /\ handle'[p] \notin shared'
    BY <1>0, <1>1 DEF Pointers, TypeOK, Components, Users
  <2> QED BY <2>2, <2>3 DEF Pointers
<1>7. NoDanglingSymbol'
  BY <1>0, <1>3 DEF NoDanglingSymbol, TypeOK, Components
<1>8. RefsCoverUsers'
  <2>1. ASSUME NEW c \in Components, NEW p \in Plugins, refs[c][p] >= 1
        PROVE  refs'[c][p] >= 1
    <3>1. refs[c][p] \in Nat /\ refs'[c][p] \in Nat /\ refs'[c][p] >= refs[c][p]
      BY <1>0 DEF TypeOK
    <3> QED BY <2>1, <3>1
  <2>2. \A m \in modules : \A p \in Deps[m] : m \in Components /\ p \in Plugins
    BY <1>0, RegistryAssumption DEF TypeOK, Components, Users
  <2>3. \A p \in plugins : p \in Components /\ p \in Plugins
    BY <1>0 DEF TypeOK, Components
  <2> QED BY <1>0, <2>1, <2>2, <2>3 DEF RefsCoverUsers
<1> QED BY <1>2, <1>4, <1>5, <1>6, <1>7, <1>8 DEF IInv
\* The plugins of gone and the libraries of libs were closed.
LEMMA CleanedUp ==
  ASSUME IInv, NEW gone \in SUBSET plugins, NEW libs \in SUBSET (modules \union loaders),
         CleanUp(gone, libs),
         modules' = modules \ libs, loaders' = loaders \ libs,
         UNCHANGED <<todo, used, shared>>,
         phase' \in {"start", "up", "down"},
         refs' \in [Components -> [Plugins -> Nat]],
         \A c \in Components \ (gone \union libs) : refs'[c] = refs[c]
  PROVE  IInv'
<1> USE Disjoint DEF CleanUp
<1>0. /\ TypeOK /\ ListedAreOpen /\ Bookkeeping /\ Pointers
      /\ NoDanglingSymbol /\ RefsCoverUsers
  BY DEF IInv
<1>1. /\ gone \subseteq Plugins /\ libs \subseteq Users
      /\ gone \subseteq Components /\ libs \subseteq Components
  BY <1>0 DEF TypeOK, Components, Users
<1>2. \A c \in Components : Open(c)' <=> Open(c) /\ c \notin gone \union libs
  BY <1>0 DEF Open
<1>3. TypeOK'
  BY <1>0 DEF TypeOK
<1>4. ListedAreOpen'
  <2>1. {c \in Components : Open(c)}' = {c \in Components : Open(c)} \ (gone \union libs)
    BY <1>2 DEF Components
  <2>2. (plugins \union modules \union loaders)'
          = (plugins \union modules \union loaders) \ (gone \union libs)
    BY <1>0, <1>1 DEF TypeOK, Users
  <2>3. ASSUME NEW c \in Components, NEW d \in Components,
               Open(c)', handle'[c] = handle'[d]
        PROVE  c = d
    BY <1>0, <2>3 DEF ListedAreOpen, Open
  <2> QED BY <1>0, <2>1, <2>2, <2>3 DEF ListedAreOpen
<1>5. Bookkeeping'
  BY <1>0, <1>2 DEF Bookkeeping, TypeOK
<1>6. \A c \in (modules \union loaders)' :
        /\ c \in modules \union loaders /\ c \in Components
        /\ handle'[c] = handle[c] /\ bound'[c] = bound[c] \ gone
  <2> SUFFICES ASSUME NEW c \in (modules \union loaders)'
               PROVE  /\ c \in modules \union loaders /\ c \in Components
                      /\ handle'[c] = handle[c] /\ bound'[c] = bound[c] \ gone
    OBVIOUS
  <2>1. c \in modules \union loaders /\ c \notin libs /\ c \in Users /\ c \in Components
    BY <1>0 DEF TypeOK, Users, Components
  <2>2. c \notin gone
    BY <1>1, <2>1 DEF Users
  <2>3. Open(c) /\ handle[c] \in shared
    BY <1>0, <2>1 DEF ListedAreOpen, Pointers
  <2> QED BY <2>1, <2>2, <2>3
<1>7. Pointers'
  <2>1. \A p \in Plugins : bound'[p] = {} /\ handle'[p] \notin shared
    BY <1>0 DEF Pointers, TypeOK, Components
  <2>3. \A c \in (modules \union loaders)' : handle'[c] \in shared
    BY <1>0, <1>6 DEF Pointers
  <2>4. shared' = shared
    OBVIOUS
  <2> HIDE DEF CleanUp
  <2> QED BY <2>1, <2>3, <2>4 DEF Pointers
<1>8. NoDanglingSymbol'
  <2> SUFFICES ASSUME NEW c \in Components, Open(c)'
               PROVE  bound'[c] \subseteq plugins'
    BY DEF NoDanglingSymbol
  <2>1. Open(c) /\ bound[c] \subseteq plugins
    BY <1>0, <1>2 DEF NoDanglingSymbol
  <2>2. CASE c \in Plugins
    BY <1>0, <1>7, <2>2 DEF Pointers
  <2>3. CASE c \in Users
    <3>1. c \in (modules \union loaders)'
      BY <1>0, <1>2, <2>1, <2>3 DEF ListedAreOpen, TypeOK, Users
    <3> QED BY <1>6, <2>1, <3>1, ZenonT(60)
  <2> QED BY <2>2, <2>3 DEF Components
<1>9. RefsCoverUsers'
  <2>1. \A m \in modules' : m \in modules /\ m \in Components \ (gone \union libs)
    BY <1>0, <1>1 DEF TypeOK, Users, Components
  <2>2. \A p \in plugins' : p \in plugins /\ p \in Components \ (gone \union libs)
    BY <1>0, <1>1 DEF TypeOK, Users, Components
  <2> QED BY <1>0, <2>1, <2>2 DEF RefsCoverUsers
<1> QED BY <1>3, <1>4, <1>5, <1>7, <1>8, <1>9 DEF IInv

-----------------------------------------------------------------------------
\* A module that is listed was counted, so removing it removes no plugin.
LEMMA NothingUnused ==
  ASSUME IInv, NEW m \in modules, NEW p \in Deps[m]
  PROVE  StillReferenced(m, p)
<1> DEFINE M == {n \in modules \ {m} : p \in Deps[n]}
           L == {l \in loaders : p \in Deps[l]}
<1>1. m \in Components /\ p \in Plugins
  BY RegistryAssumption DEF IInv, TypeOK, Components, Users
<1>2. refs[m][p] \in Nat /\ refs[m][p] >= 1
  BY <1>1 DEF IInv, TypeOK, RefsCoverUsers
<1>3. IsFiniteSet(M) /\ IsFiniteSet(L)
  <2>1. M \subseteq Components /\ L \subseteq Components
    BY DEF IInv, TypeOK, Components, Users
  <2> QED BY <2>1, FS_Subset, RegistryAssumption
<1>4. Cardinality(M) \in Nat /\ Cardinality(L) \in Nat
  BY <1>3, FS_CardinalityType
<1> HIDE DEF M, L
<1>5. refs[m][p] + Cardinality(M) + Cardinality(L) > 0
  BY <1>2, <1>4
<1> QED BY <1>5 DEF StillReferenced, M, L
-----------------------------------------------------------------------------
LEMMA AddRefsRaises ==
  ASSUME TypeOK, NEW u \in Users, AddRefs(u)
  PROVE  /\ refs' \in [Components -> [Plugins -> Nat]]
         /\ \A c \in Components, p \in Plugins : refs'[c][p] >= refs[c][p]
         /\ \A p \in Deps[u] : refs'[u][p] >= 1
<1>1. u \in Components /\ Deps[u] \subseteq Plugins
  BY RegistryAssumption DEF Components
<1>2. ASSUME NEW c \in Components, NEW p \in Plugins
      PROVE  /\ refs[c][p] \in Nat /\ refs'[c][p] \in {refs[c][p], refs[c][p] + 1}
             /\ c = u /\ p \in Deps[u] => refs'[c][p] = refs[c][p] + 1
  BY <1>1 DEF TypeOK, AddRefs
<1>3. refs' \in [Components -> [Plugins -> Nat]]
  BY <1>1 DEF TypeOK, AddRefs
<1>4. \A c \in Components, p \in Plugins : refs'[c][p] >= refs[c][p]
  <2> SUFFICES ASSUME NEW c \in Components, NEW p \in Plugins
               PROVE  refs'[c][p] >= refs[c][p]
    OBVIOUS
  <2> QED BY <1>2
<1>5. \A p \in Deps[u] : refs'[u][p] >= 1
  <2> SUFFICES ASSUME NEW p \in Deps[u] PROVE refs'[u][p] >= 1 OBVIOUS
  <2>1. refs[u][p] \in Nat /\ refs'[u][p] = refs[u][p] + 1
    BY <1>1, <1>2
  <2> QED BY <2>1
<1> QED BY <1>3, <1>4, <1>5

\* Nothing is in the counters' way when they stay as they are.
LEMMA RefsStay ==
  ASSUME TypeOK, UNCHANGED refs
  PROVE  /\ refs' \in [Components -> [Plugins -> Nat]]
         /\ \A c \in Components, p \in Plugins : refs'[c][p] >= refs[c][p]
<1>1. refs' \in [Components -> [Plugins -> Nat]]
  BY DEF TypeOK
<1>2. \A c \in Components, p \in Plugins : refs'[c][p] >= refs[c][p]
  <2> SUFFICES ASSUME NEW c \in Components, NEW p \in Plugins
               PROVE  refs'[c][p] >= refs[c][p]
    OBVIOUS
  <2>1. refs[c][p] \in Nat /\ refs'[c][p] = refs[c][p]
    BY DEF TypeOK
  <2> QED BY <2>1
<1> QED BY <1>1, <1>2

\* free_module.
LEMMA FreeModuleStep ==
  ASSUME IInv, NEW m \in modules, FreeModule(m), UNCHANGED todo,
         phase' \in {"start", "up", "down"}
  PROVE  IInv'
<1> DEFINE gone == {p \in Deps[m] \intersect plugins : ~StillReferenced(m, p)}
<1>1. gone \in SUBSET plugins /\ {m} \in SUBSET (modules \union loaders)
  OBVIOUS
<1>2. CleanUp(gone, {m}) /\ modules' = modules \ {m} /\ UNCHANGED <<used, shared, loaders>>
  BY DEF FreeModule
<1>3. loaders' = loaders \ {m}
  BY <1>2, Disjoint DEF IInv, TypeOK
<1>4. refs' = [c \in Components |-> [p \in Plugins |->
                   IF p \in gone /\ c \in {m, p} /\ refs[c][p] > 0
                   THEN refs[c][p] - 1 ELSE refs[c][p]]]
  BY DEF FreeModule
<1> HIDE DEF gone
<1>5. refs' \in [Components -> [Plugins -> Nat]]
  <2>1. \A c \in Components, p \in Plugins : refs[c][p] \in Nat
    BY DEF IInv, TypeOK
  <2> QED BY <1>4, <2>1
<1>6. \A c \in Components \ (gone \union {m}) : refs'[c] = refs[c]
  <2> SUFFICES ASSUME NEW c \in Components \ (gone \union {m})
               PROVE  refs'[c] = refs[c]
    OBVIOUS
  <2>1. refs'[c] = [p \in Plugins |-> refs[c][p]]
    BY <1>4
  <2>2. refs[c] = [p \in Plugins |-> refs[c][p]]
    BY DEF IInv, TypeOK
  <2> QED BY <2>1, <2>2
<1> QED BY <1>1, <1>2, <1>3, <1>5, <1>6, CleanedUp

\* remove_plugin_ref on the own counters of the plugins that go.
LEMMA LessRefs ==
  ASSUME TypeOK, NEW gone \in SUBSET plugins,
         refs' = [c \in Components |-> IF c \in gone THEN Less(refs, c, c)[c]
                                                    ELSE refs[c]]
  PROVE  /\ refs' \in [Components -> [Plugins -> Nat]]
         /\ \A c \in Components \ gone : refs'[c] = refs[c]
<1>1. \A c \in gone : c \in Components /\ c \in Plugins
  BY DEF TypeOK, Components
<1>2. \A c \in Components : refs[c] \in [Plugins -> Nat]
  BY DEF TypeOK
<1>3. \A c \in gone : Less(refs, c, c)[c] \in [Plugins -> Nat]
  <2> SUFFICES ASSUME NEW c \in gone PROVE Less(refs, c, c)[c] \in [Plugins -> Nat]
    OBVIOUS
  <2>1. Less(refs, c, c)[c]
          = [refs[c] EXCEPT ![c] = IF @ > 0 THEN @ - 1 ELSE 0]
    BY <1>1 DEF Less, TypeOK
  <2>2. (IF refs[c][c] > 0 THEN refs[c][c] - 1 ELSE 0) \in Nat
    BY <1>1, <1>2
  <2> QED BY <1>1, <1>2, <2>1, <2>2
<1> QED BY <1>2, <1>3
-----------------------------------------------------------------------------
\* Every step keeps the invariant: one step of the proof for each action.
LEMMA NextIInv == IInv /\ [Next]_vars => IInv'
<1> SUFFICES ASSUME IInv, [Next]_vars PROVE IInv' OBVIOUS
<1>0. TypeOK /\ Bookkeeping
  BY DEF IInv
<1>1. ASSUME NEW p \in Plugins, LoadPlugin(p) PROVE IInv'
  <2>1. CASE \E h \in FreshHandles :
               /\ Opened(p, h)
               /\ plugins' = plugins \union {p}
               /\ refs' = [refs EXCEPT ![p][p] = @ + 1]
    BY <1>1, <2>1, PluginLoaded DEF LoadPlugin
  <2>2. CASE UNCHANGED <<handle, used, plugins, refs>>
    BY <1>0, <1>1, <2>2, RefsStay, Refused
       DEF LoadPlugin, Tried, listVars, TypeOK, Bookkeeping
  <2> QED BY <1>1, <2>1, <2>2 DEF LoadPlugin
<1>2. CASE InitializePlugins
  <2>1. shared = {}
    BY <1>0, <1>2 DEF InitializePlugins, Bookkeeping
  <2>2. bound' = bound
    BY <1>0, <1>2, <2>1 DEF InitializePlugins, TypeOK
  <2> QED BY <1>0, <1>2, <2>2, RefsStay, Refused
          DEF InitializePlugins, listVars, TypeOK, Bookkeeping
<1>3. ASSUME NEW m \in Modules, LoadModule(m) PROVE IInv'
  <2>0. m \in Users
    BY DEF Users
  <2>1. CASE \E h \in FreshHandles :
               /\ Opened(m, h)
               /\ AddRefs(m)
               /\ modules' = modules \union {m}
               /\ Shared(m, h)
    BY <1>0, <1>3, <2>0, <2>1, AddRefsRaises, UserLoaded DEF LoadModule
  <2>2. CASE AddRefs(m) /\ UNCHANGED <<modules, libVars>>
    BY <1>0, <1>3, <2>0, <2>2, AddRefsRaises, Refused
       DEF LoadModule, Tried, listVars, libVars, TypeOK, Bookkeeping
  <2>3. CASE UNCHANGED <<refs, modules, libVars>>
    BY <1>0, <1>3, <2>3, RefsStay, Refused
       DEF LoadModule, Tried, listVars, libVars, TypeOK, Bookkeeping
  <2> QED BY <1>3, <2>1, <2>2, <2>3 DEF LoadModule
<1>4. CASE EndModules
  BY <1>0, <1>4, RefsStay, Refused DEF EndModules, listVars, libVars, TypeOK, Bookkeeping
<1>5. ASSUME NEW l \in Loaders, LoadLoader(l) PROVE IInv'
  <2>0. l \in Users /\ l \notin Modules
    BY Disjoint DEF Users
  <2>1. CASE \E h \in FreshHandles :
               Opened(l, h) /\ Shared(l, h) /\ loaders' = loaders \union {l}
    BY <1>0, <1>5, <2>0, <2>1, RefsStay, UserLoaded DEF LoadLoader
  <2>2. CASE \E h \in FreshHandles :
               /\ shared' = shared \union {h} /\ used' = used \union {h}
               /\ UNCHANGED <<handle, bound, loaders>>
    <3>1. PICK h \in FreshHandles :
            /\ shared' = shared \union {h} /\ used' = used \union {h}
            /\ UNCHANGED <<handle, bound, loaders>>
      BY <2>2
    <3>2. h \in Handles /\ \A c \in Components : handle[c] # h
      BY FreshIsFresh
    <3> QED BY <1>0, <1>5, <3>1, <3>2, RefsStay, Refused
            DEF LoadLoader, Tried, listVars, TypeOK, Bookkeeping
  <2>3. CASE UNCHANGED <<libVars, loaders>>
    BY <1>0, <1>5, <2>3, RefsStay, Refused
       DEF LoadLoader, Tried, listVars, libVars, TypeOK, Bookkeeping
  <2> QED BY <1>5, <2>1, <2>2, <2>3 DEF LoadLoader
<1>6. CASE EndLoaders
  BY <1>0, <1>6, RefsStay, Refused DEF EndLoaders, listVars, libVars, TypeOK, Bookkeeping
<1>7. ASSUME NEW m \in Modules, DropExtension(m) PROVE IInv'
  BY <1>7, FreeModuleStep DEF DropExtension
<1>8. CASE EndStart
  BY <1>0, <1>8, RefsStay, Refused DEF EndStart, listVars, libVars, TypeOK, Bookkeeping
<1>9. ASSUME NEW m \in Modules, CleanupModule(m) PROVE IInv'
  BY <1>9, FreeModuleStep DEF CleanupModule
<1>10. ASSUME NEW l \in Loaders, CleanupLoader(l) PROVE IInv'
  <2> DEFINE gone == {p \in Deps[l] \intersect plugins :
                        \A k \in loaders \ {l} : p \notin Deps[k]}
  <2>1. /\ phase = "up" /\ l \in loaders /\ loaders' = loaders \ {l}
        /\ CleanUp(gone, {l})
        /\ refs' = [c \in Components |-> IF c \in gone THEN Less(refs, c, c)[c]
                                                       ELSE refs[c]]
        /\ UNCHANGED <<phase, todo, used, shared, modules>>
    BY <1>10 DEF CleanupLoader
  <2>2. gone \in SUBSET plugins /\ {l} \in SUBSET (modules \union loaders)
    BY <2>1
  <2>3. modules' = modules \ {l}
    BY <1>0, <2>1, Disjoint DEF TypeOK
  <2> HIDE DEF gone
  <2> QED BY <1>0, <2>1, <2>2, <2>3, LessRefs, CleanedUp
<1>11. CASE Cleanup
  <2> DEFINE gone == plugins \intersect UNION {Deps[l] : l \in loaders}
             libs == modules \union loaders
  <2>1. /\ phase' = "down" /\ modules' = {} /\ loaders' = {}
        /\ CleanUp(gone, libs)
        /\ refs' = [c \in Components |-> IF c \in gone THEN Less(refs, c, c)[c]
                                                       ELSE refs[c]]
        /\ UNCHANGED <<todo, used, shared>>
    BY <1>11 DEF Cleanup
  <2>2. /\ gone \in SUBSET plugins /\ libs \in SUBSET (modules \union loaders)
        /\ modules' = modules \ libs /\ loaders' = loaders \ libs
    BY <2>1
  <2> HIDE DEF gone, libs
  <2> QED BY <1>0, <2>1, <2>2, LessRefs, CleanedUp
<1>12. CASE UNCHANGED vars
  BY <1>0, <1>12, RefsStay, Refused
     DEF vars, listVars, libVars, TypeOK, Bookkeeping
<1> QED BY <1>1, <1>2, <1>3, <1>4, <1>5, <1>6, <1>7, <1>8, <1>9, <1>10, <1>11, <1>12
        DEF Next

LEMMA Invariant == Spec => []IInv
BY InitIInv, NextIInv, PTL DEF Spec

-----------------------------------------------------------------------------
\* The variables of the kernel's registry keep their types.
THEOREM TypeCorrect == Spec => []TypeOK
<1>1. IInv => TypeOK BY DEF IInv
<1> QED BY <1>1, Invariant, PTL

\* The lists of plugins, modules and modloaders hold exactly the open libraries,
\* each with a handle of its own, whatever load, failure and removal come.
THEOREM Listed == Spec => []ListedAreOpen
<1>1. IInv => ListedAreOpen BY DEF IInv
<1> QED BY <1>1, Invariant, PTL

\* No pointer of an open library leads into a plugin that was closed, even if
\* memdl_open returns the value of a closed handle again.
THEOREM NoDangling == Spec => []NoDanglingSymbol
<1>1. IInv => NoDanglingSymbol BY DEF IInv
<1> QED BY <1>1, Invariant, PTL

-----------------------------------------------------------------------------
(* Which symbols a library has after a step.                               *)
HasAll(c) == IF c \in modules \union loaders THEN bound[c] = plugins => bound'[c] = plugins'
                                             ELSE handle'[c] \notin shared => bound'[c] = plugins'

\* Nothing was opened and nothing closed.
LEMMA NothingBound ==
  ASSUME UNCHANGED listVars, UNCHANGED bound, NEW c \in modules' \union loaders' PROVE HasAll(c)
BY DEF listVars, HasAll

\* The library of u was opened: the others are not touched.
LEMMA OneBound ==
  ASSUME IInv, NEW u \in Users, u \in todo, NEW h, Opened(u, h), Shared(u, h), UNCHANGED plugins,
         modules' \union loaders' = modules \union loaders \union {u}, NEW c \in modules' \union loaders'
  PROVE  HasAll(c)
<1>1. u \in Components /\ handle'[u] = h /\ bound'[u] = IF h \in shared THEN {} ELSE plugins
  BY DEF Components, Opened, Shared, IInv, TypeOK
<1>2. u \notin modules \union loaders
  BY <1>1 DEF IInv, Bookkeeping, ListedAreOpen
<1>3. ASSUME c # u PROVE bound'[c] = bound[c] /\ c \in modules \union loaders
  BY <1>3 DEF Shared, IInv, TypeOK
<1> QED BY <1>1, <1>2, <1>3 DEF HasAll

\* The plugins of gone were closed: what is still listed loses their symbols and no others.
LEMMA LessBound ==
  ASSUME IInv, NEW gone, NEW libs, CleanUp(gone, libs),
         modules' = modules \ libs, loaders' = loaders \ libs, NEW c \in modules' \union loaders'
  PROVE  HasAll(c)
<1>1. c \in modules \union loaders /\ c \in Components /\ Open(c) /\ handle[c] \in shared
  BY DEF IInv, TypeOK, Users, Components, ListedAreOpen, Pointers
<1>2. bound'[c] = bound[c] \ gone /\ plugins' = plugins \ gone BY <1>1 DEF CleanUp
<1> QED BY <1>1, <1>2 DEF HasAll

\* Property StaysBound: a listed library never loses the symbol of a loaded plugin nor keeps that of a
\* closed one, and a new one lacks symbols only if its handle value is still listed from before.
THEOREM Bound == Spec => StaysBound
<1>1. IInv /\ [Next]_vars => [\A c \in modules' \union loaders' : HasAll(c)]_vars
  <2> SUFFICES ASSUME IInv, Next, NEW c \in modules' \union loaders' PROVE HasAll(c) OBVIOUS
  <2>0. TypeOK /\ Bookkeeping BY DEF IInv
  <2>1. ASSUME NEW p \in Plugins, LoadPlugin(p) PROVE HasAll(c)
    BY <2>0, <2>1 DEF LoadPlugin, Bookkeeping
  <2>2. CASE InitializePlugins BY <2>0, <2>2 DEF InitializePlugins, Bookkeeping, listVars
  <2>3. ASSUME NEW m \in Modules, LoadModule(m) PROVE HasAll(c)
    <3>1. m \in Users /\ UNCHANGED <<plugins, loaders>> /\ m \in todo BY <2>3 DEF Users, LoadModule
    <3>2. CASE UNCHANGED <<modules, libVars>> BY <3>1, <3>2, NothingBound DEF listVars, libVars
    <3>3. CASE \E h \in FreshHandles : Opened(m, h) /\ modules' = modules \union {m} /\ Shared(m, h)
      <4>1. modules' \union loaders' = modules \union loaders \union {m} BY <3>1, <3>3
      <4> QED BY <3>1, <3>3, <4>1, OneBound
    <3> QED BY <2>3, <3>2, <3>3 DEF LoadModule
  <2>4. CASE EndModules BY <2>4, NothingBound DEF EndModules, libVars
  <2>5. ASSUME NEW l \in Loaders, LoadLoader(l) PROVE HasAll(c)
    <3>1. l \in Users /\ UNCHANGED <<plugins, modules>> /\ l \in todo BY <2>5 DEF Users, LoadLoader
    <3>2. CASE UNCHANGED <<bound, loaders>> BY <3>1, <3>2, NothingBound DEF listVars
    <3>3. CASE \E h \in FreshHandles : Opened(l, h) /\ Shared(l, h) /\ loaders' = loaders \union {l}
      <4>1. modules' \union loaders' = modules \union loaders \union {l} BY <3>1, <3>3
      <4> QED BY <3>1, <3>3, <4>1, OneBound
    <3> QED BY <2>5, <3>2, <3>3 DEF LoadLoader, libVars
  <2>6. CASE EndLoaders BY <2>6, NothingBound DEF EndLoaders, libVars
  <2>7. ASSUME NEW m \in modules, FreeModule(m) PROVE HasAll(c)
    <3>1. /\ CleanUp({p \in Deps[m] \intersect plugins : ~StillReferenced(m, p)}, {m})
          /\ modules' = modules \ {m} /\ UNCHANGED loaders
      BY <2>7 DEF FreeModule
    <3>2. loaders' = loaders \ {m} BY <2>0, <3>1, Disjoint DEF TypeOK
    <3> QED BY <3>1, <3>2, LessBound
  <2>8. CASE EndStart BY <2>8, NothingBound DEF EndStart, libVars
  <2>9. ASSUME NEW l \in Loaders, CleanupLoader(l) PROVE HasAll(c)
    <3>1. /\ CleanUp({p \in Deps[l] \intersect plugins : \A k \in loaders \ {l} : p \notin Deps[k]}, {l})
          /\ loaders' = loaders \ {l} /\ UNCHANGED modules
      BY <2>9 DEF CleanupLoader
    <3>2. modules' = modules \ {l} BY <2>0, <3>1, Disjoint DEF TypeOK
    <3> QED BY <3>1, <3>2, LessBound
  <2>10. CASE Cleanup BY <2>10 DEF Cleanup
  <2> QED BY <2>1, <2>2, <2>3, <2>4, <2>5, <2>6, <2>7, <2>8, <2>9, <2>10 DEF Next, DropExtension, CleanupModule
<1>2. [\A c \in modules' \union loaders' : HasAll(c)]_vars =>
        [\A c \in modules' \union loaders' :
           IF c \in modules \union loaders THEN bound[c] = plugins => bound'[c] = plugins'
                                           ELSE handle'[c] \notin shared => bound'[c] = plugins']_vars
  BY DEF HasAll
<1> QED BY <1>1, <1>2, Invariant, PTL DEF StaysBound, Spec

\* The reference counters never fall short of the modules that depend on a
\* plugin.
THEOREM RefsCover == Spec => []RefsCoverUsers
<1>1. IInv => RefsCoverUsers BY DEF IInv
<1> QED BY <1>1, Invariant, PTL

\* Removing one module leaves every plugin another module or modloader depends
\* on: free_module, because of the count of the module itself, removes none.
THEOREM ModuleKeeps == Spec => ModuleKeepsPlugins
<1> DEFINE Kept == modules' # modules /\ phase' # "down" =>
                     \A c \in modules' \union loaders' :
                       Deps[c] \intersect plugins \subseteq plugins'
<1>1. IInv /\ [Next]_vars => [Kept]_vars
  <2> SUFFICES ASSUME IInv, Next, modules' # modules, phase' # "down"
               PROVE  plugins \subseteq plugins'
    OBVIOUS
  <2>1. ASSUME NEW m \in modules, FreeModule(m) PROVE plugins' = plugins
    <3>1. {p \in Deps[m] \intersect plugins : ~StillReferenced(m, p)} = {}
      BY NothingUnused
    <3> QED BY <2>1, <3>1 DEF FreeModule, CleanUp
  <2> QED BY <2>1 DEF Next, LoadPlugin, InitializePlugins, LoadModule, EndModules,
            LoadLoader, EndLoaders, DropExtension, EndStart, CleanupModule,
            CleanupLoader, Cleanup, listVars
<1> QED BY <1>1, Invariant, PTL DEF Spec, ModuleKeepsPlugins

-----------------------------------------------------------------------------
(* MethodHook *)

Callbacks(i) == {node[i].prefix, node[i].postfix} \ {NoCallback}

\* method_to_handle, the allocated handles and the patches match.
HandlesMatch ==
  /\ Live \subseteq HookHandles
  /\ \A h \in Live :
       /\ hookHandle[h] \in [method : Methods, prefixes : Seq(PrefixFns), postfixes : Seq(PostfixFns)]
       /\ hookHandle[h].method \in DOMAIN handleOf /\ handleOf[hookHandle[h].method] = h
  /\ \A m \in DOMAIN handleOf :
       m \in Methods \ Typed /\ handleOf[m] \in Live /\ hookHandle[handleOf[m]].method = m
  /\ patch \in [Methods -> HookHandles \union {Unpatched, Detour}]
  /\ \A m \in DOMAIN handleOf : patch[m] = handleOf[m]
  /\ \A m \in Methods \ DOMAIN handleOf : patch[m] \notin HookHandles

\* The hooks have their handle and their callbacks, which no other has.
HooksMatch ==
  /\ nextId \in 0 .. MaxId /\ DOMAIN node \subseteq 0 .. nextId - 1
  /\ \A i \in DOMAIN node :
       /\ node[i] \in [handle : HookHandles, prefix : PrefixFns \union {NoCallback},
                       postfix : PostfixFns \union {NoCallback}]
       /\ node[i].handle \in Live
       /\ node[i].prefix # NoCallback \/ node[i].postfix # NoCallback
       /\ node[i].prefix  \in {NoCallback} \union ToSet(hookHandle[node[i].handle].prefixes)
       /\ node[i].postfix \in {NoCallback} \union ToSet(hookHandle[node[i].handle].postfixes)
  /\ \A i, j \in DOMAIN node :
       i # j /\ node[i].handle = node[j].handle => Callbacks(i) \intersect Callbacks(j) = {}

Begins(s, t) == Len(s) <= Len(t) /\ \A k \in 1..Len(s) : s[k] = t[k]

\* The frame runs what there was when the stage began, which is still there.
FrameMatches ==
  call # NoCall =>
    /\ call \in Frames /\ call.handle \in Live
    /\ call.at # "postfix" => /\ call.due \in Seq(PrefixFns) /\ call.ran \in Seq(PrefixFns)
                              /\ Begins(call.due, hookHandle[call.handle].prefixes)
    /\ call.at = "postfix" => /\ call.due \in Seq(PostfixFns) /\ call.ran \in Seq(PostfixFns)
                              /\ Begins(call.due, hookHandle[call.handle].postfixes)
    /\ call.count = Len(call.due) /\ call.i = Len(call.ran) /\ Begins(call.ran, call.due)
    /\ call.at = "original" /\ ~call.skip => call.i = call.count

HookInv == HandlesMatch /\ HooksMatch /\ FrameMatches

-----------------------------------------------------------------------------
\* What is left when every element equal to c is removed.
LEMMA RemoveValueRemoves ==
  ASSUME NEW S, NEW s \in Seq(S), NEW c
  PROVE  RemoveValue(s, c) \in Seq(S) /\ ToSet(RemoveValue(s, c)) = ToSet(s) \ {c}
<1> DEFINE gone == {c}
<1>1. RemoveValue(s, c) = Strip(s, gone) BY DEF RemoveValue
<1> HIDE DEF gone
<1>2. Strip(s, gone) \in Seq(S) BY StripType
<1>3. {Strip(s, gone)[i] : i \in DOMAIN Strip(s, gone)} = {s[i] : i \in DOMAIN s} \ gone
  BY StripRange
<1>4. ToSet(Strip(s, gone)) = ToSet(s) \ gone BY <1>3 DEF ToSet
<1> QED BY <1>1, <1>2, <1>4 DEF gone

LEMMA NothingInEmpty == ToSet(<<>>) = {}
BY DEF ToSet

\* A callback that is added comes behind the others.
LEMMA WithAdds ==
  ASSUME NEW S, NEW s \in Seq(S), NEW c \in S \union {NoCallback}
  PROVE  /\ With(s, c) \in Seq(S) /\ Begins(s, With(s, c))
         /\ ToSet(With(s, c)) = ToSet(s) \union ({c} \ {NoCallback})
<1>1. Len(s) \in Nat /\ DOMAIN s = 1..Len(s) BY LenProperties
<1>2. CASE c = NoCallback BY <1>1, <1>2 DEF With, Begins
<1>3. CASE c # NoCallback
  <2> DEFINE t == Append(s, c)
  <2>1. t \in Seq(S) /\ Len(t) = Len(s) + 1 /\ (\A k \in 1..Len(s) : t[k] = s[k]) /\ t[Len(s)+1] = c
    BY <1>3, AppendProperties
  <2>2. With(s, c) = t BY <1>3 DEF With
  <2> HIDE DEF t
  <2>3. DOMAIN t = 1..(Len(s)+1) BY <2>1, LenProperties
  <2>4. ToSet(t) = ToSet(s) \union {c} BY <1>1, <2>1, <2>3 DEF ToSet
  <2> QED BY <1>1, <1>3, <2>1, <2>2, <2>4 DEF Begins
<1> QED BY <1>2, <1>3

LEMMA BeginsTransitive ==
  ASSUME NEW S, NEW s \in Seq(S), NEW t \in Seq(S), NEW u \in Seq(S), Begins(s, t), Begins(t, u)
  PROVE  Begins(s, u)
<1>1. Len(s) \in Nat /\ Len(t) \in Nat /\ Len(u) \in Nat BY LenProperties
<1> QED BY <1>1 DEF Begins

LEMMA BeginsSame == ASSUME NEW S, NEW s \in Seq(S) PROVE Begins(s, s)
<1>1. Len(s) \in Nat BY LenProperties
<1> QED BY <1>1 DEF Begins

\* Begins is the community modules' IsPrefix.
LEMMA BeginsIsPrefix ==
  ASSUME NEW S, NEW s \in Seq(S), NEW t \in Seq(S), Begins(s, t)
  PROVE  IsPrefix(s, t) /\ (Len(s) = Len(t) => s = t)
<1>1. Len(s) \in Nat /\ Len(t) \in Nat /\ Len(s) <= Len(t) BY LenProperties DEF Begins
<1>2. (\A k \in 1..Len(s) : s[k] \in S) /\ \A k \in 1..Len(s) : t[k] \in S BY <1>1, ElementOfSeq DEF Begins
<1>3. /\ SubSeq(s, 1, Len(s)) \in Seq(S) /\ SubSeq(t, 1, Len(s)) \in Seq(S)
      /\ Len(SubSeq(s, 1, Len(s))) = Len(s) /\ Len(SubSeq(t, 1, Len(s))) = Len(s)
      /\ \A k \in 1..Len(s) : SubSeq(s, 1, Len(s))[k] = s[k] /\ SubSeq(t, 1, Len(s))[k] = t[k]
  <2>1. 1 \in Int /\ Len(s) \in Int BY <1>1
  <2>2. /\ SubSeq(s, 1, Len(s)) \in Seq(S)
        /\ Len(SubSeq(s, 1, Len(s))) = IF 1 <= Len(s) THEN Len(s) - 1 + 1 ELSE 0
        /\ \A k \in 1..(Len(s)-1+1) : SubSeq(s, 1, Len(s))[k] = s[1+k-1]
    BY <1>2, <2>1, SubSeqProperties
  <2>3. /\ SubSeq(t, 1, Len(s)) \in Seq(S)
        /\ Len(SubSeq(t, 1, Len(s))) = IF 1 <= Len(s) THEN Len(s) - 1 + 1 ELSE 0
        /\ \A k \in 1..(Len(s)-1+1) : SubSeq(t, 1, Len(s))[k] = t[1+k-1]
    BY <1>2, <2>1, SubSeqProperties
  <2> QED BY <1>1, <2>2, <2>3
<1>4. SubSeq(s, 1, Len(s)) = SubSeq(t, 1, Len(s)) BY <1>3, SeqEqual DEF Begins
<1>5. Len(s) = Len(t) => s = t BY SeqEqual DEF Begins
<1> QED BY <1>1, <1>4, <1>5 DEF IsPrefix

-----------------------------------------------------------------------------
LEMMA HookInvInit == HookInit => HookInv
BY MethodHookAssumption DEF HookInit, HookInv, HandlesMatch, HooksMatch, FrameMatches, Live

-----------------------------------------------------------------------------
\* What an installation makes of the handle: it adds to it, or creates it.
LEMMA InstallHandle ==
  ASSUME HookInv, NEW m \in Methods \ Typed, NEW h \in HandleFor(m),
         NEW pre \in PrefixFns \union {NoCallback}, NEW post \in PostfixFns \union {NoCallback}
  PROVE  LET old == Registered(m, h)
             new == [old EXCEPT !.prefixes = With(@, pre), !.postfixes = With(@, post)]
         IN /\ h \in HookHandles
            /\ h \in Live <=> m \in DOMAIN handleOf
            /\ h \in Live => handleOf[m] = h /\ patch[m] = h /\ hookHandle[h].method = m
            /\ new \in [method : Methods, prefixes : Seq(PrefixFns), postfixes : Seq(PostfixFns)]
            /\ new.method = m
            /\ ToSet(new.prefixes) = ToSet(old.prefixes) \union ({pre} \ {NoCallback})
            /\ ToSet(new.postfixes) = ToSet(old.postfixes) \union ({post} \ {NoCallback})
            /\ Begins(old.prefixes, new.prefixes) /\ Begins(old.postfixes, new.postfixes)
<1> DEFINE old == Registered(m, h)
           new == [old EXCEPT !.prefixes = With(@, pre), !.postfixes = With(@, post)]
<1>1. h \in HookHandles /\ (h \in Live <=> m \in DOMAIN handleOf)
      /\ (h \in Live => handleOf[m] = h /\ patch[m] = h /\ hookHandle[h].method = m)
  <2>1. CASE m \in DOMAIN handleOf BY <2>1 DEF HookInv, HandlesMatch, HandleFor
  <2>2. CASE m \notin DOMAIN handleOf BY <2>2 DEF HookInv, HandlesMatch, HandleFor
  <2> QED BY <2>1, <2>2
<1>2. old \in [method : Methods, prefixes : Seq(PrefixFns), postfixes : Seq(PostfixFns)] /\ old.method = m
  BY <1>1 DEF HookInv, HandlesMatch, Registered
<1> HIDE DEF old
<1>3. /\ new \in [method : Methods, prefixes : {With(old.prefixes, pre)}, postfixes : {With(old.postfixes, post)}]
      /\ new.method = m
  BY <1>2
<1>4. old.prefixes \in Seq(PrefixFns) /\ old.postfixes \in Seq(PostfixFns) BY <1>2
<1>5. /\ With(old.prefixes, pre) \in Seq(PrefixFns) /\ Begins(old.prefixes, With(old.prefixes, pre))
      /\ ToSet(With(old.prefixes, pre)) = ToSet(old.prefixes) \union ({pre} \ {NoCallback})
  BY <1>4, WithAdds
<1>6. /\ With(old.postfixes, post) \in Seq(PostfixFns) /\ Begins(old.postfixes, With(old.postfixes, post))
      /\ ToSet(With(old.postfixes, post)) = ToSet(old.postfixes) \union ({post} \ {NoCallback})
  BY <1>4, WithAdds
<1> HIDE DEF new
<1> QED BY <1>1, <1>3, <1>5, <1>6 DEF old, new

LEMMA InstallKeeps ==
  ASSUME HookInv, NEW m \in Methods,
         NEW pre \in PrefixFns \union {NoCallback}, NEW post \in PostfixFns \union {NoCallback},
         NewToMethod(m, pre, post), Install(m, pre, post)
  PROVE  HookInv'
<1>1. PICK h \in HandleFor(m) :
        LET old == Registered(m, h)
        IN /\ handleOf' = Extended(handleOf, m, h)
           /\ hookHandle' = Extended(hookHandle, h,
                [old EXCEPT !.prefixes = With(@, pre), !.postfixes = With(@, post)])
           /\ patch' = IF h \in Live THEN patch ELSE [patch EXCEPT ![m] = h]
           /\ node' = Extended(node, nextId, [handle |-> h, prefix |-> pre, postfix |-> post])
  BY DEF Install
<1> DEFINE old == Registered(m, h)
           new == [old EXCEPT !.prefixes = With(@, pre), !.postfixes = With(@, post)]
           hook == [handle |-> h, prefix |-> pre, postfix |-> post]
<1>2. m \in Methods \ Typed /\ nextId < MaxId /\ (pre # NoCallback \/ post # NoCallback)
      /\ nextId' = nextId + 1 /\ call' = call
  BY DEF Install
<1>3. /\ h \in HookHandles
      /\ h \in Live <=> m \in DOMAIN handleOf
      /\ h \in Live => handleOf[m] = h /\ patch[m] = h /\ hookHandle[h].method = m
      /\ new \in [method : Methods, prefixes : Seq(PrefixFns), postfixes : Seq(PostfixFns)]
      /\ new.method = m
      /\ ToSet(new.prefixes) = ToSet(old.prefixes) \union ({pre} \ {NoCallback})
      /\ ToSet(new.postfixes) = ToSet(old.postfixes) \union ({post} \ {NoCallback})
      /\ Begins(old.prefixes, new.prefixes) /\ Begins(old.postfixes, new.postfixes)
  BY <1>2, InstallHandle
<1>4. handleOf' = Extended(handleOf, m, h) /\ hookHandle' = Extended(hookHandle, h, new)
      /\ patch' = (IF h \in Live THEN patch ELSE [patch EXCEPT ![m] = h])
      /\ node' = Extended(node, nextId, hook)
  BY <1>1
<1>5. h \in Live => old = hookHandle[h] BY DEF Registered
<1> HIDE DEF old, new, hook
<1>6. /\ DOMAIN handleOf' = DOMAIN handleOf \union {m} /\ handleOf'[m] = h
      /\ \A k \in DOMAIN handleOf : k # m => handleOf'[k] = handleOf[k]
  BY <1>4 DEF Extended
<1>7. /\ Live' = Live \union {h} /\ hookHandle'[h] = new
      /\ \A g \in Live : g # h => hookHandle'[g] = hookHandle[g]
  BY <1>4 DEF Extended, Live
<1>8. /\ nextId \in Nat /\ nextId \notin DOMAIN node
      /\ DOMAIN node' = DOMAIN node \union {nextId} /\ node'[nextId] = hook
      /\ \A i \in DOMAIN node : node'[i] = node[i]
  <2>1. nextId \in Nat /\ nextId \notin DOMAIN node BY MethodHookAssumption DEF HookInv, HooksMatch
  <2> QED BY <1>4, <2>1 DEF Extended
<1>9. \A g \in Live : g # h => hookHandle[g].method # m BY <1>3 DEF HookInv, HandlesMatch
<1>10. HandlesMatch'
  <2>1. patch' \in [Methods -> HookHandles \union {Unpatched, Detour}] /\ patch'[m] = h
        /\ \A k \in Methods : k # m => patch'[k] = patch[k]
    BY <1>2, <1>3, <1>4 DEF HookInv, HandlesMatch
  <2>2. (Live \subseteq HookHandles)' BY <1>3, <1>7 DEF HookInv, HandlesMatch
  <2>3. ASSUME NEW g \in Live'
        PROVE  /\ hookHandle'[g] \in [method : Methods, prefixes : Seq(PrefixFns), postfixes : Seq(PostfixFns)]
               /\ hookHandle'[g].method \in DOMAIN handleOf' /\ handleOf'[hookHandle'[g].method] = g
    <3>1. CASE g = h BY <3>1, <1>3, <1>6, <1>7
    <3>2. CASE g # h BY <3>2, <1>6, <1>7, <1>9 DEF HookInv, HandlesMatch
    <3> QED BY <3>1, <3>2
  <2>4. ASSUME NEW k \in DOMAIN handleOf'
        PROVE  k \in Methods \ Typed /\ handleOf'[k] \in Live' /\ hookHandle'[handleOf'[k]].method = k
               /\ patch'[k] = handleOf'[k]
    <3>1. CASE k = m BY <3>1, <1>2, <1>3, <1>6, <1>7, <2>1
    <3>2. CASE k # m
      <4>1. k \in DOMAIN handleOf /\ k \in Methods \ Typed /\ handleOf[k] \in Live
            /\ hookHandle[handleOf[k]].method = k /\ patch[k] = handleOf[k]
        BY <3>2, <1>6 DEF HookInv, HandlesMatch
      <4>2. handleOf[k] # h BY <3>2, <4>1, <1>3
      <4> QED BY <3>2, <4>1, <4>2, <1>6, <1>7, <2>1
    <3> QED BY <3>1, <3>2
  <2>5. ASSUME NEW k \in Methods \ DOMAIN handleOf' PROVE patch'[k] \notin HookHandles
    BY <1>6, <2>1 DEF HookInv, HandlesMatch
  <2> QED BY <2>1, <2>2, <2>3, <2>4, <2>5 DEF HandlesMatch
<1>11. HooksMatch'
  <2>1. (nextId \in 0 .. MaxId /\ DOMAIN node \subseteq 0 .. nextId - 1)'
    BY <1>2, <1>8, MethodHookAssumption DEF HookInv, HooksMatch
  <2>2. ASSUME NEW i \in DOMAIN node'
        PROVE  /\ node'[i] \in [handle : HookHandles, prefix : PrefixFns \union {NoCallback},
                                postfix : PostfixFns \union {NoCallback}]
               /\ node'[i].handle \in Live'
               /\ node'[i].prefix # NoCallback \/ node'[i].postfix # NoCallback
               /\ node'[i].prefix  \in {NoCallback} \union ToSet(hookHandle'[node'[i].handle].prefixes)
               /\ node'[i].postfix \in {NoCallback} \union ToSet(hookHandle'[node'[i].handle].postfixes)
    <3>1. CASE i = nextId
      <4>1. node'[i] = hook BY <3>1, <1>8
      <4> QED BY <4>1, <1>2, <1>3, <1>7 DEF hook
    <3>2. CASE i # nextId
      <4>1. i \in DOMAIN node /\ node'[i] = node[i] BY <3>2, <1>8
      <4>2. CASE node[i].handle = h
        <5>1. old = hookHandle[h] BY <4>1, <4>2, <1>5 DEF HookInv, HooksMatch
        <5> QED BY <4>1, <4>2, <5>1, <1>3, <1>7 DEF HookInv, HooksMatch
      <4>3. CASE node[i].handle # h BY <4>1, <4>3, <1>7 DEF HookInv, HooksMatch
      <4> QED BY <4>2, <4>3
    <3> QED BY <3>1, <3>2
  <2>3. ASSUME NEW i \in DOMAIN node, node[i].handle = h
        PROVE  ({pre, post} \ {NoCallback}) \intersect {node[i].prefix, node[i].postfix} = {}
    <3>1. h \in Live BY <2>3 DEF HookInv, HooksMatch
    <3> QED BY <2>3, <3>1, <1>3 DEF NewToMethod
  <2>4. ASSUME NEW i \in DOMAIN node', NEW j \in DOMAIN node', i # j, node'[i].handle = node'[j].handle
        PROVE  Callbacks(i)' \intersect Callbacks(j)' = {}
    <3>1. CASE i # nextId /\ j # nextId
      BY <2>4, <3>1, <1>8 DEF HookInv, HooksMatch, Callbacks
    <3>2. CASE i = nextId
      <4>1. j \in DOMAIN node /\ node'[j] = node[j] /\ node'[i] = hook BY <2>4, <3>2, <1>8
      <4>2. node[j].handle = h BY <2>4, <4>1 DEF hook
      <4> QED BY <4>1, <4>2, <2>3 DEF Callbacks, hook
    <3>3. CASE j = nextId
      <4>1. i \in DOMAIN node /\ node'[i] = node[i] /\ node'[j] = hook BY <2>4, <3>3, <1>8
      <4>2. node[i].handle = h BY <2>4, <4>1 DEF hook
      <4> QED BY <4>1, <4>2, <2>3 DEF Callbacks, hook
    <3> QED BY <3>1, <3>2, <3>3
  <2> QED BY <2>1, <2>2, <2>4 DEF HooksMatch
<1>12. FrameMatches'
  <2> SUFFICES ASSUME call # NoCall PROVE FrameMatches' BY <1>2 DEF FrameMatches
  <2>1. call.handle \in Live /\ call.handle \in Live' /\ FrameMatches /\ call' = call
    BY <1>2, <1>7 DEF HookInv, FrameMatches
  <2>2. CASE call.handle # h
    <3>1. hookHandle'[call.handle] = hookHandle[call.handle] BY <2>1, <2>2, <1>7
    <3> QED BY <2>1, <3>1 DEF FrameMatches
  <2>3. CASE call.handle = h
    <3>1. old = hookHandle[h] /\ hookHandle'[h] = new BY <2>1, <2>3, <1>5, <1>7
    <3>2. hookHandle[h].prefixes \in Seq(PrefixFns) /\ hookHandle[h].postfixes \in Seq(PostfixFns)
          /\ new.prefixes \in Seq(PrefixFns) /\ new.postfixes \in Seq(PostfixFns)
      BY <2>1, <2>3, <1>3 DEF HookInv, HandlesMatch
    <3>3. Begins(hookHandle[h].prefixes, new.prefixes) /\ Begins(hookHandle[h].postfixes, new.postfixes)
      BY <3>1, <1>3
    <3>4. call.at # "postfix" => Begins(call.due, new.prefixes)
      BY <2>1, <2>3, <3>2, <3>3, BeginsTransitive DEF FrameMatches
    <3>5. call.at = "postfix" => Begins(call.due, new.postfixes)
      BY <2>1, <2>3, <3>2, <3>3, BeginsTransitive DEF FrameMatches
    <3> QED BY <2>1, <2>3, <3>1, <3>4, <3>5 DEF FrameMatches
  <2> QED BY <2>2, <2>3
<1> QED BY <1>10, <1>11, <1>12 DEF HookInv

-----------------------------------------------------------------------------
\* What an uninstallation leaves of the callbacks of the handle: those of every
\* other hook.
LEMMA StrippedHandle ==
  ASSUME HookInv, NEW id \in DOMAIN node
  PROVE  LET h == node[id].handle
             stripped == [hookHandle[h] EXCEPT !.prefixes  = RemoveValue(@, node[id].prefix),
                                               !.postfixes = RemoveValue(@, node[id].postfix)]
         IN /\ h \in Live
            /\ stripped \in [method : Methods, prefixes : Seq(PrefixFns), postfixes : Seq(PostfixFns)]
            /\ stripped.method = hookHandle[h].method
            /\ \A j \in DOMAIN node : j # id /\ node[j].handle = h =>
                 /\ node[j].prefix  \in {NoCallback} \union ToSet(stripped.prefixes)
                 /\ node[j].postfix \in {NoCallback} \union ToSet(stripped.postfixes)
<1> DEFINE h == node[id].handle
           old == hookHandle[h]
           pre == RemoveValue(old.prefixes, node[id].prefix)
           post == RemoveValue(old.postfixes, node[id].postfix)
           stripped == [hookHandle[h] EXCEPT !.prefixes  = RemoveValue(@, node[id].prefix),
                                             !.postfixes = RemoveValue(@, node[id].postfix)]
<1>1. h \in Live BY DEF HookInv, HooksMatch
<1>2. old \in [method : Methods, prefixes : Seq(PrefixFns), postfixes : Seq(PostfixFns)]
  BY <1>1 DEF HookInv, HandlesMatch
<1>3. /\ pre \in Seq(PrefixFns) /\ ToSet(pre) = ToSet(old.prefixes) \ {node[id].prefix}
      /\ post \in Seq(PostfixFns) /\ ToSet(post) = ToSet(old.postfixes) \ {node[id].postfix}
  BY <1>2, RemoveValueRemoves
<1>4. stripped \in [method : {old.method}, prefixes : {pre}, postfixes : {post}]
  BY <1>2
<1> HIDE DEF pre, post, stripped
<1>5. ASSUME NEW j \in DOMAIN node, j # id, node[j].handle = h
      PROVE  /\ node[j].prefix  \in {NoCallback} \union ToSet(pre)
             /\ node[j].postfix \in {NoCallback} \union ToSet(post)
  <2>1. Callbacks(j) \intersect Callbacks(id) = {} BY <1>5 DEF HookInv, HooksMatch
  <2>2. node[j].prefix \in {NoCallback} \union ToSet(old.prefixes)
        /\ node[j].postfix \in {NoCallback} \union ToSet(old.postfixes)
    BY <1>5 DEF HookInv, HooksMatch
  <2> QED BY <2>1, <2>2, <1>3 DEF Callbacks
<1>6. stripped.method = old.method /\ stripped.prefixes = pre /\ stripped.postfixes = post
      /\ stripped \in [method : Methods, prefixes : Seq(PrefixFns), postfixes : Seq(PostfixFns)]
  BY <1>2, <1>3, <1>4
<1> QED BY <1>1, <1>5, <1>6 DEF stripped

LEMMA UninstallKeeps ==
  ASSUME HookInv, NEW id \in DOMAIN node, Uninstall(id)
  PROVE  HookInv'
<1> DEFINE h == node[id].handle
           m == hookHandle[h].method
           stripped == [hookHandle[h] EXCEPT !.prefixes  = RemoveValue(@, node[id].prefix),
                                             !.postfixes = RemoveValue(@, node[id].postfix)]
           last == stripped.prefixes = <<>> /\ stripped.postfixes = <<>>
<1>1. /\ h \in Live
      /\ stripped \in [method : Methods, prefixes : Seq(PrefixFns), postfixes : Seq(PostfixFns)]
      /\ stripped.method = m
      /\ \A j \in DOMAIN node : j # id /\ node[j].handle = h =>
           /\ node[j].prefix  \in {NoCallback} \union ToSet(stripped.prefixes)
           /\ node[j].postfix \in {NoCallback} \union ToSet(stripped.postfixes)
  BY StrippedHandle
<1>2. /\ call # NoCall => call.handle # h
      /\ Release(h, stripped)
      /\ node' = Dropped(node, id) /\ nextId' = nextId /\ call' = call
  BY DEF Uninstall
<1> HIDE DEF stripped
<1>3. /\ m \in DOMAIN handleOf /\ handleOf[m] = h /\ m \in Methods \ Typed /\ patch[m] = h
      /\ \A g \in Live : g # h => hookHandle[g].method # m
  BY <1>1 DEF HookInv, HandlesMatch
<1>4. /\ DOMAIN node' = DOMAIN node \ {id}
      /\ \A j \in DOMAIN node' : j \in DOMAIN node /\ j # id /\ node'[j] = node[j]
  BY <1>2 DEF Dropped
<1>5. \A j \in DOMAIN node' : node'[j].handle = h => ~last
  BY <1>1, <1>4, NothingInEmpty DEF HookInv, HooksMatch
<1>6. \A g \in Live : g # h => g \in Live' /\ hookHandle'[g] = hookHandle[g]
  BY <1>2 DEF Release, Dropped, Live
<1>7. HandlesMatch'
  <2>1. CASE last
    <3>1. hookHandle' = Dropped(hookHandle, h) /\ handleOf' = Dropped(handleOf, m)
          /\ patch' = [patch EXCEPT ![m] = Unpatched]
      BY <1>1, <1>2, <2>1 DEF Release
    <3>2. /\ Live' = Live \ {h}
          /\ DOMAIN handleOf' = DOMAIN handleOf \ {m}
          /\ \A k \in DOMAIN handleOf' : handleOf'[k] = handleOf[k]
      BY <3>1 DEF Dropped, Live
    <3>3. patch' \in [Methods -> HookHandles \union {Unpatched, Detour}] /\ patch'[m] = Unpatched
          /\ \A k \in Methods : k # m => patch'[k] = patch[k]
      BY <1>3, <3>1 DEF HookInv, HandlesMatch
    <3>4. ASSUME NEW g \in Live'
          PROVE  /\ hookHandle'[g] \in [method : Methods, prefixes : Seq(PrefixFns), postfixes : Seq(PostfixFns)]
                 /\ hookHandle'[g].method \in DOMAIN handleOf' /\ handleOf'[hookHandle'[g].method] = g
                 /\ g \in HookHandles
      BY <3>2, <1>3, <1>6 DEF HookInv, HandlesMatch
    <3>5. ASSUME NEW k \in DOMAIN handleOf'
          PROVE  k \in Methods \ Typed /\ handleOf'[k] \in Live' /\ hookHandle'[handleOf'[k]].method = k
                 /\ patch'[k] = handleOf'[k]
      <4>1. k \in DOMAIN handleOf /\ k # m /\ handleOf'[k] = handleOf[k] BY <3>2
      <4>2. handleOf[k] \in Live /\ hookHandle[handleOf[k]].method = k /\ k \in Methods \ Typed
            /\ patch[k] = handleOf[k]
        BY <4>1 DEF HookInv, HandlesMatch
      <4>3. handleOf[k] # h BY <4>1, <4>2
      <4> QED BY <4>1, <4>2, <4>3, <1>6, <3>3
    <3>6. ASSUME NEW k \in Methods \ DOMAIN handleOf' PROVE patch'[k] \notin HookHandles
      BY <3>2, <3>3, MethodHookAssumption DEF HookInv, HandlesMatch
    <3> QED BY <3>3, <3>4, <3>5, <3>6 DEF HandlesMatch
  <2>2. CASE ~last
    <3>1. hookHandle' = [hookHandle EXCEPT ![h] = stripped] /\ handleOf' = handleOf /\ patch' = patch
      BY <1>2, <2>2 DEF Release
    <3>2. Live' = Live /\ hookHandle'[h] = stripped BY <3>1, <1>1 DEF Live
    <3>3. ASSUME NEW g \in Live'
          PROVE  /\ hookHandle'[g] \in [method : Methods, prefixes : Seq(PrefixFns), postfixes : Seq(PostfixFns)]
                 /\ hookHandle'[g].method = hookHandle[g].method
      <4>1. CASE g = h BY <4>1, <1>1, <3>2
      <4>2. CASE g # h BY <4>2, <1>6, <3>2 DEF HookInv, HandlesMatch
      <4> QED BY <4>1, <4>2
    <3> QED BY <3>1, <3>2, <3>3 DEF HookInv, HandlesMatch
  <2> QED BY <2>1, <2>2
<1>8. HooksMatch'
  <2>1. (nextId \in 0 .. MaxId /\ DOMAIN node \subseteq 0 .. nextId - 1)'
    BY <1>2, <1>4 DEF HookInv, HooksMatch
  <2>2. ASSUME NEW i \in DOMAIN node'
        PROVE  /\ node'[i] \in [handle : HookHandles, prefix : PrefixFns \union {NoCallback},
                                postfix : PostfixFns \union {NoCallback}]
               /\ node'[i].handle \in Live'
               /\ node'[i].prefix # NoCallback \/ node'[i].postfix # NoCallback
               /\ node'[i].prefix  \in {NoCallback} \union ToSet(hookHandle'[node'[i].handle].prefixes)
               /\ node'[i].postfix \in {NoCallback} \union ToSet(hookHandle'[node'[i].handle].postfixes)
    <3>1. i \in DOMAIN node /\ i # id /\ node'[i] = node[i] BY <1>4
    <3>2. CASE node[i].handle = h
      <4>1. ~last BY <3>1, <3>2, <1>5
      <4>2. hookHandle' = [hookHandle EXCEPT ![h] = stripped] BY <1>2, <4>1 DEF Release
      <4>3. h \in Live' /\ hookHandle'[h] = stripped BY <4>2, <1>1 DEF Live
      <4> QED BY <3>1, <3>2, <4>3, <1>1 DEF HookInv, HooksMatch
    <3>3. CASE node[i].handle # h BY <3>1, <3>3, <1>6 DEF HookInv, HooksMatch
    <3> QED BY <3>2, <3>3
  <2>3. ASSUME NEW i \in DOMAIN node', NEW j \in DOMAIN node', i # j, node'[i].handle = node'[j].handle
        PROVE  Callbacks(i)' \intersect Callbacks(j)' = {}
    BY <2>3, <1>4 DEF HookInv, HooksMatch, Callbacks
  <2> QED BY <2>1, <2>2, <2>3 DEF HooksMatch
<1>9. FrameMatches'
  <2> SUFFICES ASSUME call # NoCall PROVE FrameMatches' BY <1>2 DEF FrameMatches
  <2>1. call.handle \in Live /\ call.handle # h BY <1>2 DEF HookInv, FrameMatches
  <2>2. call.handle \in Live' /\ hookHandle'[call.handle] = hookHandle[call.handle] BY <1>6, <2>1
  <2> QED BY <1>2, <2>2 DEF HookInv, FrameMatches
<1> QED BY <1>7, <1>8, <1>9 DEF HookInv

\* Typed hooks touch only methods without prefix and postfix hooks.
LEMMA TypedKeeps ==
  ASSUME HookInv, NEW m \in Typed, InstallTyped(m) \/ UninstallTyped(m)
  PROVE  HookInv'
<1>1. m \in Methods /\ m \notin DOMAIN handleOf
  BY MethodHookAssumption DEF HookInv, HandlesMatch
<1>2. PICK p \in {Unpatched, Detour} :
        /\ patch' = [patch EXCEPT ![m] = p]
        /\ UNCHANGED <<handleOf, hookHandle, node, nextId, call>>
  BY DEF InstallTyped, UninstallTyped
<1>3. p \notin HookHandles BY MethodHookAssumption
<1>4. HandlesMatch' BY <1>1, <1>2, <1>3 DEF HookInv, HandlesMatch, Live
<1>5. HooksMatch' BY <1>2 DEF HookInv, HooksMatch, Live, Callbacks
<1>6. FrameMatches' BY <1>2 DEF HookInv, FrameMatches, Live
<1> QED BY <1>4, <1>5, <1>6 DEF HookInv

-----------------------------------------------------------------------------
\* The dispatcher changes nothing but its frame.
LEMMA DispatcherChangesFrame ==
  ASSUME HookInv, UNCHANGED <<handleOf, hookHandle, node, nextId, patch>>
  PROVE  HandlesMatch' /\ HooksMatch'
BY DEF HookInv, HandlesMatch, HooksMatch, Live, Callbacks

\* A stage begins with nothing run and everything due.
LEMMA StageBegins ==
  ASSUME NEW S, NEW s \in Seq(S), S \in {PrefixFns, PostfixFns},
         NEW h \in HookHandles, NEW at \in {"prefix", "original", "postfix"}, NEW skip \in BOOLEAN
  PROVE  LET c == Stage(h, at, s, skip)
         IN /\ c \in Frames /\ c.handle = h /\ c.at = at /\ c.due = s /\ c.ran = <<>>
            /\ c.count = Len(c.due) /\ c.i = Len(c.ran) /\ c.ran \in Seq(S)
            /\ Begins(c.due, s) /\ Begins(c.ran, c.due)
<1> DEFINE c == Stage(h, at, s, skip)
<1>1. c = [handle |-> h, at |-> at, i |-> 0, count |-> Len(s), ran |-> <<>>, due |-> s, skip |-> skip]
  BY DEF Stage
<1>2. <<>> \in Seq(S) /\ Len(<<>>) = 0 /\ Len(s) \in Nat BY EmptySeq, LenProperties
<1>3. s \in Seq(PrefixFns) \union Seq(PostfixFns) /\ <<>> \in Seq(PrefixFns) \union Seq(PostfixFns)
  BY EmptySeq
<1>4. Begins(s, s) /\ Begins(<<>>, s) BY <1>2, BeginsSame DEF Begins
<1> HIDE DEF c
<1>5. c \in Frames BY <1>1, <1>2, <1>3 DEF Frames
<1> QED BY <1>1, <1>2, <1>4, <1>5 DEF c

\* The callback that is taken up is the one that was due.
LEMMA TakesUpDue ==
  ASSUME FrameMatches, call # NoCall, call.i < call.count,
         NEW S, S \in {PrefixFns, PostfixFns}, NEW now \in Seq(S),
         call.due \in Seq(S), call.ran \in Seq(S), Begins(call.due, now)
  PROVE  /\ call.i < Len(now) /\ call.i + 1 <= Len(call.due) /\ call.i \in Nat
         /\ Append(call.ran, now[call.i + 1]) \in Seq(S)
         /\ Len(Append(call.ran, now[call.i + 1])) = call.i + 1
         /\ Begins(Append(call.ran, now[call.i + 1]), call.due)
<1>1. /\ call.count = Len(call.due) /\ call.i = Len(call.ran) /\ Begins(call.ran, call.due)
      /\ Len(call.due) \in Nat /\ Len(call.ran) \in Nat /\ Len(now) \in Nat
  BY LenProperties DEF FrameMatches
<1> DEFINE k == call.i + 1  d == call.due  r == call.ran
<1>2. k \in 1..Len(d) /\ k \in 1..Len(now) /\ now[k] = d[k] /\ k = Len(r) + 1 BY <1>1, SMTT(60) DEF Begins
<1>3. now[k] \in S BY <1>2, ElementOfSeq
<1> HIDE DEF k, d, r
<1>4. /\ Append(r, now[k]) \in Seq(S) /\ Len(Append(r, now[k])) = Len(r) + 1
      /\ Append(r, now[k])[Len(r)+1] = now[k]
      /\ \A j \in 1..Len(r) : Append(r, now[k])[j] = r[j]
  BY <1>3, AppendProperties DEF r
<1>5. \A j \in 1..Len(r) : r[j] = d[j] BY <1>1 DEF Begins, r, d
<1>6. Len(r) \in Nat BY <1>1 DEF r
<1>7. Begins(Append(r, now[k]), d) BY <1>2, <1>4, <1>5, <1>6 DEF Begins
<1> QED BY <1>1, <1>2, <1>4, <1>7 DEF k, d, r

LEMMA EnterKeeps ==
  ASSUME HookInv, NEW m \in Methods, Enter(m)
  PROVE  HookInv'
<1> DEFINE h == patch[m]  s == hookHandle[h].prefixes  no == FALSE
<1>1. h \in HookHandles /\ h \in Live /\ s \in Seq(PrefixFns) BY DEF Enter, HookInv, HandlesMatch
<1>2. call' = Stage(h, "prefix", s, no) /\ UNCHANGED <<handleOf, hookHandle, node, nextId, patch>>
      /\ no \in BOOLEAN
  BY DEF Enter
<1> HIDE DEF h, s, no
<1>3. /\ call' \in Frames /\ call'.handle = h /\ call'.at = "prefix" /\ call'.due = s
      /\ call'.count = Len(call'.due) /\ call'.i = Len(call'.ran) /\ call'.ran \in Seq(PrefixFns)
      /\ Begins(call'.due, s) /\ Begins(call'.ran, call'.due)
  BY <1>1, <1>2, StageBegins
<1>4. Live' = Live /\ hookHandle' = hookHandle BY <1>2 DEF Live
<1>5. FrameMatches' BY <1>1, <1>3, <1>4 DEF FrameMatches, s
<1> QED BY <1>2, <1>5, DispatcherChangesFrame DEF HookInv

LEMMA RunPrefixKeeps ==
  ASSUME HookInv, NEW skip \in BOOLEAN, RunPrefix(skip)
  PROVE  HookInv'
<1> DEFINE now == hookHandle[call.handle].prefixes
           ran == Append(call.ran, now[call.i + 1])
<1>1. /\ call # NoCall /\ call.at = "prefix" /\ call.i < call.count
      /\ UNCHANGED <<handleOf, hookHandle, node, nextId, patch>>
  BY DEF RunPrefix
<1>2. /\ FrameMatches /\ call \in Frames /\ call.handle \in Live
      /\ now \in Seq(PrefixFns) /\ call.due \in Seq(PrefixFns) /\ call.ran \in Seq(PrefixFns)
      /\ Begins(call.due, now) /\ call.count = Len(call.due)
  BY <1>1 DEF HookInv, FrameMatches, HandlesMatch
<1>3. /\ call.i < Len(now) /\ call.i + 1 <= Len(call.due) /\ call.i \in Nat
      /\ ran \in Seq(PrefixFns) /\ Len(ran) = call.i + 1 /\ Begins(ran, call.due)
  BY <1>1, <1>2, TakesUpDue
<1>4. call' \in [handle : {call.handle}, at : {IF skip THEN "original" ELSE "prefix"},
                 i : {call.i + 1}, count : {call.count}, ran : {ran}, due : {call.due}, skip : {skip}]
  BY <1>2, <1>3 DEF RunPrefix, Next1, Frames
<1> HIDE DEF ran, now
<1>5. call' \in Frames BY <1>2, <1>3, <1>4 DEF Frames
<1>6. Live' = Live /\ hookHandle' = hookHandle BY <1>1 DEF Live
<1>7. FrameMatches' BY <1>2, <1>3, <1>4, <1>5, <1>6 DEF FrameMatches, now
<1> QED BY <1>1, <1>7, DispatcherChangesFrame DEF HookInv

LEMMA RunPostfixKeeps ==
  ASSUME HookInv, RunPostfix
  PROVE  HookInv'
<1> DEFINE now == hookHandle[call.handle].postfixes
           ran == Append(call.ran, now[call.i + 1])
<1>1. /\ call # NoCall /\ call.at = "postfix" /\ call.i < call.count
      /\ UNCHANGED <<handleOf, hookHandle, node, nextId, patch>>
  BY DEF RunPostfix
<1>2. /\ FrameMatches /\ call \in Frames /\ call.handle \in Live
      /\ now \in Seq(PostfixFns) /\ call.due \in Seq(PostfixFns) /\ call.ran \in Seq(PostfixFns)
      /\ Begins(call.due, now) /\ call.count = Len(call.due)
  BY <1>1 DEF HookInv, FrameMatches, HandlesMatch
<1>3. /\ call.i < Len(now) /\ call.i + 1 <= Len(call.due) /\ call.i \in Nat
      /\ ran \in Seq(PostfixFns) /\ Len(ran) = call.i + 1 /\ Begins(ran, call.due)
  BY <1>1, <1>2, TakesUpDue
<1>4. call' \in [handle : {call.handle}, at : {"postfix"}, i : {call.i + 1}, count : {call.count},
                 ran : {ran}, due : {call.due}, skip : {call.skip}]
  BY <1>1, <1>2, <1>3 DEF RunPostfix, Next1, Frames
<1> HIDE DEF ran, now
<1>5. call' \in Frames BY <1>2, <1>3, <1>4 DEF Frames
<1>6. Live' = Live /\ hookHandle' = hookHandle BY <1>1 DEF Live
<1>7. FrameMatches' BY <1>2, <1>3, <1>4, <1>5, <1>6 DEF FrameMatches, now
<1> QED BY <1>1, <1>7, DispatcherChangesFrame DEF HookInv

LEMMA RunOriginalKeeps ==
  ASSUME HookInv, RunOriginal
  PROVE  HookInv'
<1>1. /\ call # NoCall /\ call.at = "prefix" /\ call.i = call.count
      /\ call' = [call EXCEPT !.at = "original"]
      /\ UNCHANGED <<handleOf, hookHandle, node, nextId, patch>>
  BY DEF RunOriginal
<1>2. FrameMatches /\ call \in Frames BY <1>1 DEF HookInv, FrameMatches
<1>3. /\ call' \in Frames /\ call'.handle = call.handle /\ call'.at = "original" /\ call'.i = call.i
      /\ call'.count = call.count /\ call'.ran = call.ran /\ call'.due = call.due
  BY <1>1, <1>2 DEF Frames
<1>4. Live' = Live /\ hookHandle' = hookHandle BY <1>1 DEF Live
<1>5. FrameMatches' BY <1>1, <1>2, <1>3, <1>4 DEF FrameMatches
<1> QED BY <1>1, <1>5, DispatcherChangesFrame DEF HookInv

LEMMA StartPostfixesKeeps ==
  ASSUME HookInv, StartPostfixes
  PROVE  HookInv'
<1> DEFINE h == call.handle  s == hookHandle[h].postfixes
<1>1. call' = Stage(h, "postfix", s, call.skip) /\ call # NoCall
      /\ UNCHANGED <<handleOf, hookHandle, node, nextId, patch>>
  BY DEF StartPostfixes
<1>2. h \in HookHandles /\ h \in Live /\ call.skip \in BOOLEAN /\ s \in Seq(PostfixFns)
  BY <1>1 DEF HookInv, HandlesMatch, FrameMatches, Frames
<1> HIDE DEF h, s
<1>3. /\ call' \in Frames /\ call'.handle = h /\ call'.at = "postfix" /\ call'.due = s
      /\ call'.count = Len(call'.due) /\ call'.i = Len(call'.ran) /\ call'.ran \in Seq(PostfixFns)
      /\ Begins(call'.due, s) /\ Begins(call'.ran, call'.due)
  BY <1>1, <1>2, StageBegins
<1>4. Live' = Live /\ hookHandle' = hookHandle BY <1>1 DEF Live
<1>5. FrameMatches' BY <1>2, <1>3, <1>4 DEF FrameMatches, s
<1> QED BY <1>1, <1>5, DispatcherChangesFrame DEF HookInv

LEMMA LeaveKeeps ==
  ASSUME HookInv, Leave
  PROVE  HookInv'
<1>1. FrameMatches' BY DEF Leave, FrameMatches
<1> QED BY <1>1, DispatcherChangesFrame DEF Leave, HookInv

LEMMA HookInvStep ==
  ASSUME SharedCallbacks = FALSE, HookInv, [HookNext]_hookVars
  PROVE  HookInv'
<1>1. CASE UNCHANGED hookVars
  <2>1. FrameMatches' BY <1>1 DEF hookVars, HookInv, FrameMatches, Live
  <2> QED BY <1>1, <2>1, DispatcherChangesFrame DEF hookVars, HookInv
<1>2. CASE Hooking
  <2>1. CASE \E m \in Methods, pre \in PrefixFns \union {NoCallback},
               post \in PostfixFns \union {NoCallback} :
               (SharedCallbacks \/ NewToMethod(m, pre, post)) /\ Install(m, pre, post)
    BY <2>1, InstallKeeps
  <2>2. CASE \E id \in DOMAIN node : Uninstall(id) BY <2>2, UninstallKeeps
  <2>3. CASE \E m \in Typed : InstallTyped(m) \/ UninstallTyped(m) BY <2>3, TypedKeeps
  <2> QED BY <1>2, <2>1, <2>2, <2>3 DEF Hooking
<1>3. CASE Dispatching
  BY <1>3, EnterKeeps, RunPrefixKeeps, RunOriginalKeeps, StartPostfixesKeeps, RunPostfixKeeps,
     LeaveKeeps DEF Dispatching
<1> QED BY <1>1, <1>2, <1>3 DEF HookNext

-----------------------------------------------------------------------------
LEMMA HooksSafe == SharedCallbacks = FALSE => (HookSpec => []HookInv)
<1> SUFFICES ASSUME SharedCallbacks = FALSE PROVE HookSpec => []HookInv OBVIOUS
<1>1. HookInv /\ [HookNext]_hookVars => HookInv' BY HookInvStep
<1> QED BY <1>1, HookInvInit, PTL DEF HookSpec

\* The handles, hooks and frames keep their types (method_hook.c:101).
THEOREM HookTypesCorrect == SharedCallbacks = FALSE => (HookSpec => []HookTypeOK)
<1>1. HookInv => HookTypeOK
  <2> SUFFICES ASSUME HookInv PROVE HookTypeOK OBVIOUS
  <2>1. call # NoCall => call \in Frames /\ call.i <= call.count
    <3> SUFFICES ASSUME call # NoCall PROVE call \in Frames /\ call.i <= call.count OBVIOUS
    <3> QED BY DEF HookInv, FrameMatches, Begins
  <2> QED BY <2>1 DEF HookInv, HandlesMatch, HooksMatch, HookTypeOK
<1> QED BY <1>1, HooksSafe, PTL

\* Uninstalling a hook leaves the other hooks of its method active
\* (method.h:245): each has its handle, its callbacks, and is what its method
\* runs.
THEOREM OtherHooksStayActive == SharedCallbacks = FALSE => (HookSpec => []HooksStayActive)
<1>1. HookInv => HooksStayActive BY DEF HookInv, HandlesMatch, HooksMatch, HooksStayActive
<1> QED BY <1>1, HooksSafe, PTL

\* A method never runs the closure of a freed handle or of another method.
THEOREM NoFreedClosureRuns == SharedCallbacks = FALSE => (HookSpec => []PatchedIsLive)
<1>1. HookInv => PatchedIsLive BY DEF HookInv, HandlesMatch, PatchedIsLive
<1> QED BY <1>1, HooksSafe, PTL

\* A call asks every prefix there was when it began, in order, unless one says
\* skip, and runs every postfix even then, whatever the callbacks install and
\* uninstall meanwhile (hook_dispatcher_static).
THEOREM DispatcherRunsAll == SharedCallbacks = FALSE => (HookSpec => []EveryCallbackRuns)
<1>1. HookInv => EveryCallbackRuns
  <2> SUFFICES ASSUME HookInv, call # NoCall
      PROVE /\ IsPrefix(call.ran, call.due)
            /\ call.at = "original" /\ ~call.skip => call.ran = call.due
            /\ call.at = "postfix" /\ call.i = call.count =>
                 call.ran = call.due /\ IsPrefix(call.due, hookHandle[call.handle].postfixes)
    BY DEF EveryCallbackRuns
  <2>1. FrameMatches /\ call.handle \in Live BY DEF HookInv, FrameMatches
  <2>2. IsPrefix(call.ran, call.due) /\ (call.i = call.count => call.ran = call.due)
    <3>1. CASE call.at = "postfix" BY <2>1, <3>1, BeginsIsPrefix DEF FrameMatches
    <3>2. CASE call.at # "postfix" BY <2>1, <3>2, BeginsIsPrefix DEF FrameMatches
    <3> QED BY <3>1, <3>2
  <2>3. call.at = "postfix" => IsPrefix(call.due, hookHandle[call.handle].postfixes)
    <3>1. hookHandle[call.handle].postfixes \in Seq(PostfixFns) BY <2>1 DEF HookInv, HandlesMatch
    <3> QED BY <2>1, <3>1, BeginsIsPrefix DEF FrameMatches
  <2> QED BY <2>1, <2>2, <2>3 DEF FrameMatches
<1> QED BY <1>1, HooksSafe, PTL

-----------------------------------------------------------------------------
\* The callbacks given to a handle, in the order of installation, and what is
\* left of them without the hooks that give none or are gone.
Given(callbacks) == RemoveValue(callbacks, NoCallback)

PrefixTable(h)  == [k \in 1 .. nextId |-> PrefixOf(h, k - 1)]
PostfixTable(h) == [k \in 1 .. nextId |-> PostfixOf(h, k - 1)]

\* One hook more.
LEMMA GivenMore ==
  ASSUME NEW S, NoCallback \in S, NEW n \in Nat, NEW s \in [1..n -> S], NEW t \in [1..(n+1) -> S],
         \A k \in 1..n : t[k] = s[k]
  PROVE  Given(t) = With(Given(s), t[n+1])
<1> DEFINE a == Append(s, t[n+1])
<1>1. n + 1 \in 1..(n+1) OBVIOUS
<1>2. t[n+1] \in S BY <1>1
<1>3. s \in Seq(S) /\ Len(s) = n /\ t \in Seq(S) /\ Len(t) = n + 1
  <2>1. n + 1 \in Nat OBVIOUS
  <2> QED BY <2>1
<1>4. a \in Seq(S) /\ Len(a) = n + 1 /\ (\A k \in 1..n : a[k] = s[k]) /\ a[n+1] = t[n+1]
  BY <1>2, <1>3, AppendProperties
<1> HIDE DEF a
<1>5. \A k \in 1..(n+1) : a[k] = t[k]
  <2> SUFFICES ASSUME NEW k \in 1..(n+1) PROVE a[k] = t[k] OBVIOUS
  <2>1. k = n + 1 \/ k \in 1..n OBVIOUS
  <2> QED BY <2>1, <1>4
<1>6. a = t BY <1>3, <1>4, <1>5, SeqEqual
<1>7. Strip(Append(s, t[n+1]), {NoCallback}) =
        IF t[n+1] \in {NoCallback} THEN Strip(s, {NoCallback})
        ELSE Append(Strip(s, {NoCallback}), t[n+1])
  <2> DEFINE e == t[n+1]  gone == {NoCallback}
  <2>1. e \in S /\ s \in Seq(S) BY <1>2, <1>3
  <2> HIDE DEF e, gone
  <2>2. Strip(Append(s, e), gone) = IF e \in gone THEN Strip(s, gone) ELSE Append(Strip(s, gone), e)
    BY <2>1, StripAppend
  <2> QED BY <2>2 DEF e, gone
<1> QED BY <1>6, <1>7 DEF a, Given, RemoveValue, With

\* Nothing given.
LEMMA GivenNone ==
  ASSUME NEW n \in Nat, NEW s, s = [k \in 1..n |-> NoCallback] PROVE Given(s) = <<>>
<1> DEFINE gone == {NoCallback}
<1>1. s \in Seq({NoCallback}) OBVIOUS
<1>2. \A i \in DOMAIN s : s[i] \in gone OBVIOUS
<1> HIDE DEF gone
<1>3. Strip(s, gone) = <<>> BY <1>1, <1>2, StripAll
<1> QED BY <1>3 DEF gone, Given, RemoveValue

\* Taking out the value c takes out one hook, if no other hook gave c.
LEMMA GivenLess ==
  ASSUME NEW S, NoCallback \in S, NEW n \in Nat, NEW s \in [1..n -> S], NEW t \in [1..n -> S],
         NEW j \in 1..n, NEW c, c = s[j], t[j] = NoCallback,
         \A k \in 1..n : k # j => t[k] = s[k] /\ (s[k] = c => c = NoCallback)
  PROVE  RemoveValue(Given(s), c) = Given(t)
<1> DEFINE A == {NoCallback}  C == {c}  AC == A \union C
<1>1. s \in Seq(S) OBVIOUS
<1>2. \A k \in 1..n : (s[k] \in AC <=> t[k] \in A) /\ (s[k] \in AC \/ s[k] = t[k]) OBVIOUS
<1> HIDE DEF A, C
<1>3. Strip(Strip(s, A), C) = Strip(s, AC) BY <1>1, StripTwice
<1> HIDE DEF AC
<1>4. Strip(s, AC) = Strip(t, A) BY <1>2, StripReplace
<1> QED BY <1>3, <1>4 DEF Given, RemoveValue, A, C


\* The tables hold callbacks.
LEMMA GivenTypes ==
  ASSUME HookInv, NEW h
  PROVE  /\ PrefixTable(h) \in [1..nextId -> PrefixFns \union {NoCallback}]
         /\ PostfixTable(h) \in [1..nextId -> PostfixFns \union {NoCallback}]
<1>1. \A i : PrefixOf(h, i) \in PrefixFns \union {NoCallback}
  BY DEF HookInv, HooksMatch, PrefixOf
<1>2. \A i : PostfixOf(h, i) \in PostfixFns \union {NoCallback}
  BY DEF HookInv, HooksMatch, PostfixOf
<1> QED BY <1>1, <1>2 DEF PrefixTable, PostfixTable

OrderInv ==
  \A h \in Live : /\ hookHandle[h].prefixes = Given(PrefixTable(h))
                  /\ hookHandle[h].postfixes = Given(PostfixTable(h))

\* An installation comes behind what the handle had.
LEMMA OrderInstall ==
  ASSUME HookInv, HookInv', OrderInv, NEW m \in Methods,
         NEW pre \in PrefixFns \union {NoCallback}, NEW post \in PostfixFns \union {NoCallback},
         Install(m, pre, post)
  PROVE  OrderInv'
<1>1. PICK h \in HandleFor(m) :
        LET old == Registered(m, h)
        IN /\ handleOf' = Extended(handleOf, m, h)
           /\ hookHandle' = Extended(hookHandle, h,
                [old EXCEPT !.prefixes = With(@, pre), !.postfixes = With(@, post)])
           /\ patch' = IF h \in Live THEN patch ELSE [patch EXCEPT ![m] = h]
           /\ node' = Extended(node, nextId, [handle |-> h, prefix |-> pre, postfix |-> post])
  BY DEF Install
<1> DEFINE old == Registered(m, h)
           new == [old EXCEPT !.prefixes = With(@, pre), !.postfixes = With(@, post)]
           hook == [handle |-> h, prefix |-> pre, postfix |-> post]
<1>2. nextId' = nextId + 1 /\ nextId \in Nat /\ nextId \notin DOMAIN node
  <2>1. nextId \in Nat /\ nextId \notin DOMAIN node BY MethodHookAssumption DEF HookInv, HooksMatch
  <2> QED BY <2>1 DEF Install
<1>3. old.prefixes = Given(PrefixTable(h)) /\ old.postfixes = Given(PostfixTable(h))
  <2>1. CASE h \in Live BY <2>1 DEF OrderInv, Registered
  <2>2. CASE h \notin Live
    <3>1. \A i : PrefixOf(h, i) = NoCallback /\ PostfixOf(h, i) = NoCallback
      BY <2>2 DEF HookInv, HooksMatch, PrefixOf, PostfixOf
    <3>2. PrefixTable(h) = [k \in 1..nextId |-> NoCallback] /\ PostfixTable(h) = [k \in 1..nextId |-> NoCallback]
      BY <3>1 DEF PrefixTable, PostfixTable
    <3>3. Given(PrefixTable(h)) = <<>> /\ Given(PostfixTable(h)) = <<>> BY <1>2, <3>2, GivenNone
    <3> QED BY <2>2, <3>3 DEF Registered
  <2> QED BY <2>1, <2>2
<1>4. new.prefixes = With(old.prefixes, pre) /\ new.postfixes = With(old.postfixes, post)
  <2>1. old \in [method : {old.method}, prefixes : {old.prefixes}, postfixes : {old.postfixes}]
    <3>1. h \in Live => hookHandle[h] \in [method : Methods, prefixes : Seq(PrefixFns), postfixes : Seq(PostfixFns)]
      BY DEF HookInv, HandlesMatch
    <3> QED BY <3>1 DEF Registered
  <2> HIDE DEF old
  <2> QED BY <2>1
<1>5. hookHandle' = Extended(hookHandle, h, new) /\ node' = Extended(node, nextId, hook) BY <1>1
<1> HIDE DEF old, new
<1>6. /\ Live' = Live \union {h} /\ hookHandle'[h] = new
      /\ \A g \in Live : g # h => hookHandle'[g] = hookHandle[g]
  BY <1>5 DEF Extended, Live
<1>7. /\ DOMAIN node' = DOMAIN node \union {nextId} /\ node'[nextId] = hook
      /\ \A i \in DOMAIN node : node'[i] = node[i]
  BY <1>2, <1>5 DEF Extended
<1>8. ASSUME NEW g
      PROVE  /\ Given(PrefixTable(g)') = With(Given(PrefixTable(g)), IF g = h THEN pre ELSE NoCallback)
             /\ Given(PostfixTable(g)') = With(Given(PostfixTable(g)), IF g = h THEN post ELSE NoCallback)
  <2>1. /\ PrefixTable(g) \in [1..nextId -> PrefixFns \union {NoCallback}]
        /\ PostfixTable(g) \in [1..nextId -> PostfixFns \union {NoCallback}]
    BY GivenTypes
  <2>2. \A i \in 0..nextId :
          /\ PrefixOf(g, i)' = IF i = nextId THEN IF g = h THEN pre ELSE NoCallback ELSE PrefixOf(g, i)
          /\ PostfixOf(g, i)' = IF i = nextId THEN IF g = h THEN post ELSE NoCallback ELSE PostfixOf(g, i)
    BY <1>2, <1>7 DEF PrefixOf, PostfixOf
  <2>3. \A k \in 1..(nextId+1) : k - 1 \in 0..nextId /\ (k - 1 = nextId <=> k = nextId + 1) BY <1>2
  <2>4. /\ PrefixTable(g)' = [k \in 1..(nextId+1) |-> PrefixOf(g, k - 1)']
        /\ PostfixTable(g)' = [k \in 1..(nextId+1) |-> PostfixOf(g, k - 1)']
    BY <1>2 DEF PrefixTable, PostfixTable
  <2>5. nextId + 1 \in 1..(nextId+1) /\ \A k \in 1..nextId : k \in 1..(nextId+1) /\ k # nextId + 1
    BY <1>2
  <2>6. /\ PrefixTable(g)'[nextId+1] = IF g = h THEN pre ELSE NoCallback
        /\ PostfixTable(g)'[nextId+1] = IF g = h THEN post ELSE NoCallback
        /\ \A k \in 1..nextId : PrefixTable(g)'[k] = PrefixTable(g)[k] /\ PostfixTable(g)'[k] = PostfixTable(g)[k]
    BY <2>2, <2>3, <2>4, <2>5 DEF PrefixTable, PostfixTable
  <2>7. /\ PrefixTable(g)' \in [1..(nextId+1) -> PrefixFns \union {NoCallback}]
        /\ PostfixTable(g)' \in [1..(nextId+1) -> PostfixFns \union {NoCallback}]
    <3>1. \A k \in 1..(nextId+1) : /\ PrefixOf(g, k - 1)' \in PrefixFns \union {NoCallback}
                                  /\ PostfixOf(g, k - 1)' \in PostfixFns \union {NoCallback}
      BY DEF HookInv, HooksMatch, PrefixOf, PostfixOf
    <3> QED BY <2>4, <3>1
  <2> DEFINE s == PrefixTable(g)  t == PrefixTable(g)'  u == PostfixTable(g)  v == PostfixTable(g)'
  <2>8. /\ s \in [1..nextId -> PrefixFns \union {NoCallback}]
        /\ t \in [1..(nextId+1) -> PrefixFns \union {NoCallback}]
        /\ \A k \in 1..nextId : t[k] = s[k]
    BY <2>1, <2>6, <2>7
  <2>9. /\ u \in [1..nextId -> PostfixFns \union {NoCallback}]
        /\ v \in [1..(nextId+1) -> PostfixFns \union {NoCallback}]
        /\ \A k \in 1..nextId : v[k] = u[k]
    BY <2>1, <2>6, <2>7
  <2> HIDE DEF s, t, u, v
  <2> DEFINE PreS == PrefixFns \union {NoCallback}  PostS == PostfixFns \union {NoCallback}
  <2>10. NoCallback \in PreS /\ NoCallback \in PostS OBVIOUS
  <2>11. Given(t) = With(Given(s), t[nextId+1])
    <3>1. s \in [1..nextId -> PreS] /\ t \in [1..(nextId+1) -> PreS] BY <2>8
    <3> HIDE DEF PreS
    <3> QED BY <1>2, <2>8, <2>10, <3>1, GivenMore
  <2>12. Given(v) = With(Given(u), v[nextId+1])
    <3>1. u \in [1..nextId -> PostS] /\ v \in [1..(nextId+1) -> PostS] BY <2>9
    <3> HIDE DEF PostS
    <3> QED BY <1>2, <2>9, <2>10, <3>1, GivenMore
  <2> QED BY <2>6, <2>11, <2>12 DEF s, t, u, v
<1>9. ASSUME NEW g \in Live'
      PROVE  hookHandle'[g].prefixes = Given(PrefixTable(g)') /\ hookHandle'[g].postfixes = Given(PostfixTable(g)')
  <2>1. CASE g = h BY <2>1, <1>3, <1>4, <1>6, <1>8
  <2>2. CASE g # h
    <3>1. g \in Live /\ hookHandle'[g] = hookHandle[g] BY <2>2, <1>6
    <3>2. Given(PrefixTable(g)') = Given(PrefixTable(g)) /\ Given(PostfixTable(g)') = Given(PostfixTable(g))
      BY <2>2, <1>8 DEF With
    <3> QED BY <3>1, <3>2 DEF OrderInv
  <2> QED BY <2>1, <2>2
<1> QED BY <1>9 DEF OrderInv, Given

\* An uninstallation takes out its own callbacks and leaves the order.
LEMMA OrderUninstall ==
  ASSUME HookInv, HookInv', OrderInv, NEW id \in DOMAIN node, Uninstall(id)
  PROVE  OrderInv'
<1>0. PICK h : h = node[id].handle OBVIOUS
<1> DEFINE stripped == [hookHandle[h] EXCEPT !.prefixes  = RemoveValue(@, node[id].prefix),
                                             !.postfixes = RemoveValue(@, node[id].postfix)]
<1>1. Release(h, stripped) /\ node' = Dropped(node, id) /\ nextId' = nextId
  BY <1>0 DEF Uninstall
<1>2. h \in Live /\ hookHandle[h] \in [method : Methods, prefixes : Seq(PrefixFns), postfixes : Seq(PostfixFns)]
      /\ nextId \in Nat /\ id \in 0..(nextId-1)
  BY <1>0, MethodHookAssumption DEF HookInv, HandlesMatch, HooksMatch
<1>3. /\ stripped.prefixes = RemoveValue(hookHandle[h].prefixes, node[id].prefix)
      /\ stripped.postfixes = RemoveValue(hookHandle[h].postfixes, node[id].postfix)
  BY <1>2
<1> HIDE DEF stripped
<1>4. \A g \in Live' : g \in Live /\ hookHandle'[g] = IF g = h THEN stripped ELSE hookHandle[g]
  <2>1. CASE stripped.prefixes = <<>> /\ stripped.postfixes = <<>>
    BY <1>1, <2>1 DEF Release, Dropped, Live
  <2>2. CASE ~(stripped.prefixes = <<>> /\ stripped.postfixes = <<>>)
    BY <1>1, <2>2 DEF Release, Live
  <2> QED BY <2>1, <2>2
<1>5. DOMAIN node' = DOMAIN node \ {id} /\ \A i \in DOMAIN node' : node'[i] = node[i]
  BY <1>1 DEF Dropped
<1>6. ASSUME NEW g
      PROVE  /\ PrefixTable(g)' = [k \in 1..nextId |-> IF k = id + 1 /\ g = h THEN NoCallback ELSE PrefixTable(g)[k]]
             /\ PostfixTable(g)' = [k \in 1..nextId |-> IF k = id + 1 /\ g = h THEN NoCallback ELSE PostfixTable(g)[k]]
  <2>1. \A i \in Nat :
          /\ PrefixOf(g, i)' = IF i = id /\ g = h THEN NoCallback ELSE PrefixOf(g, i)
          /\ PostfixOf(g, i)' = IF i = id /\ g = h THEN NoCallback ELSE PostfixOf(g, i)
    BY <1>0, <1>5 DEF PrefixOf, PostfixOf
  <2>2. \A k \in 1..nextId : k - 1 \in Nat /\ (k - 1 = id <=> k = id + 1) BY <1>2
  <2>3. /\ PrefixTable(g)' = [k \in 1..nextId |-> PrefixOf(g, k - 1)']
        /\ PostfixTable(g)' = [k \in 1..nextId |-> PostfixOf(g, k - 1)']
    BY <1>1 DEF PrefixTable, PostfixTable
  <2>4. \A k \in 1..nextId :
          /\ PrefixOf(g, k - 1)' = IF k = id + 1 /\ g = h THEN NoCallback ELSE PrefixTable(g)[k]
          /\ PostfixOf(g, k - 1)' = IF k = id + 1 /\ g = h THEN NoCallback ELSE PostfixTable(g)[k]
    BY <2>1, <2>2 DEF PrefixTable, PostfixTable
  <2> QED BY <2>3, <2>4
<1>7. ASSUME h \in Live'
      PROVE  /\ RemoveValue(Given(PrefixTable(h)), node[id].prefix) = Given(PrefixTable(h)')
             /\ RemoveValue(Given(PostfixTable(h)), node[id].postfix) = Given(PostfixTable(h)')
  <2> DEFINE s == PrefixTable(h)  t == PrefixTable(h)'  u == PostfixTable(h)  v == PostfixTable(h)'  j == id + 1
             b == node[id].prefix  c == node[id].postfix
  <2>1. /\ s \in [1..nextId -> PrefixFns \union {NoCallback}]
        /\ u \in [1..nextId -> PostfixFns \union {NoCallback}]
    BY GivenTypes
  <2>2. /\ t = [k \in 1..nextId |-> IF k = j THEN NoCallback ELSE s[k]]
        /\ v = [k \in 1..nextId |-> IF k = j THEN NoCallback ELSE u[k]]
    BY <1>6
  <2>3. j \in 1..nextId /\ j - 1 = id BY <1>2
  <2>4. s[j] = b /\ u[j] = c BY <1>0, <2>3 DEF PrefixTable, PostfixTable, PrefixOf, PostfixOf
  <2>5. ASSUME NEW k \in 1..nextId, k # j
        PROVE (s[k] = b => b = NoCallback) /\ (u[k] = c => c = NoCallback)
    <3>1. k - 1 # id BY <2>5, <1>2
    <3>2. s[k] = PrefixOf(h, k - 1) /\ u[k] = PostfixOf(h, k - 1) BY DEF PrefixTable, PostfixTable
    <3>3. CASE k - 1 \in DOMAIN node /\ node[k-1].handle = h
      <4>1. s[k] = node[k-1].prefix /\ u[k] = node[k-1].postfix BY <3>2, <3>3 DEF PrefixOf, PostfixOf
      <4>2. Callbacks(k-1) \intersect Callbacks(id) = {} BY <1>0, <3>1, <3>3 DEF HookInv, HooksMatch
      <4> QED BY <4>1, <4>2 DEF Callbacks
    <3>4. CASE ~(k - 1 \in DOMAIN node /\ node[k-1].handle = h)
      BY <3>2, <3>4 DEF PrefixOf, PostfixOf
    <3> QED BY <3>3, <3>4
  <2> HIDE DEF s, t, u, v, j, b, c
  <2>6. /\ t \in [1..nextId -> PrefixFns \union {NoCallback}]
        /\ v \in [1..nextId -> PostfixFns \union {NoCallback}]
    BY <2>1, <2>2
  <2>7. t[j] = NoCallback /\ v[j] = NoCallback BY <2>2, <2>3
  <2>8. \A k \in 1..nextId : k # j => t[k] = s[k] /\ v[k] = u[k] BY <2>2
  <2> DEFINE PreS == PrefixFns \union {NoCallback}  PostS == PostfixFns \union {NoCallback}
  <2>0. NoCallback \in PreS /\ NoCallback \in PostS OBVIOUS
  <2>9. RemoveValue(Given(s), b) = Given(t)
    <3>1. s \in [1..nextId -> PreS] /\ t \in [1..nextId -> PreS] BY <2>1, <2>6
    <3>2. b = s[j] /\ t[j] = NoCallback /\ nextId \in Nat BY <1>2, <2>4, <2>7
    <3>3. \A k \in 1..nextId : k # j => t[k] = s[k] /\ (s[k] = b => b = NoCallback)
      BY <2>5, <2>8
    <3> HIDE DEF PreS
    <3> QED BY <2>0, <3>1, <2>3, <3>2, <3>3, GivenLess
  <2>10. RemoveValue(Given(u), c) = Given(v)
    <3>1. u \in [1..nextId -> PostS] /\ v \in [1..nextId -> PostS] BY <2>1, <2>6
    <3>2. c = u[j] /\ v[j] = NoCallback /\ nextId \in Nat BY <1>2, <2>4, <2>7
    <3>3. \A k \in 1..nextId : k # j => v[k] = u[k] /\ (u[k] = c => c = NoCallback)
      BY <2>5, <2>8
    <3> HIDE DEF PostS
    <3> QED BY <2>0, <3>1, <2>3, <3>2, <3>3, GivenLess
  <2> QED BY <2>9, <2>10 DEF s, t, u, v, b, c
<1>8. ASSUME NEW g \in Live'
      PROVE  hookHandle'[g].prefixes = Given(PrefixTable(g)') /\ hookHandle'[g].postfixes = Given(PostfixTable(g)')
  <2>1. CASE g = h BY <2>1, <1>2, <1>3, <1>4, <1>7 DEF OrderInv
  <2>2. CASE g # h
    <3>1. \A k \in 1..nextId : (IF k = id + 1 /\ g = h THEN NoCallback ELSE PrefixTable(g)[k]) = PrefixTable(g)[k]
                              /\ (IF k = id + 1 /\ g = h THEN NoCallback ELSE PostfixTable(g)[k]) = PostfixTable(g)[k]
      BY <2>2
    <3>2. PrefixTable(g)' = PrefixTable(g) /\ PostfixTable(g)' = PostfixTable(g)
      <4> DEFINE s == PrefixTable(g)  u == PostfixTable(g)
      <4>1. s = [k \in 1..nextId |-> s[k]] /\ u = [k \in 1..nextId |-> u[k]]
        BY DEF PrefixTable, PostfixTable
      <4>2. /\ PrefixTable(g)' = [k \in 1..nextId |-> s[k]]
            /\ PostfixTable(g)' = [k \in 1..nextId |-> u[k]]
        BY <3>1, <1>6
      <4> QED BY <4>1, <4>2
    <3> QED BY <2>2, <3>2, <1>4 DEF OrderInv
  <2> QED BY <2>1, <2>2
<1> QED BY <1>8 DEF OrderInv, Given

LEMMA OrderStep ==
  ASSUME SharedCallbacks = FALSE, HookInv, HookInv', OrderInv, [HookNext]_hookVars
  PROVE  OrderInv'
<1>1. ASSUME UNCHANGED <<hookHandle, node, nextId>> PROVE OrderInv'
  BY <1>1 DEF OrderInv, PrefixTable, PostfixTable, PrefixOf, PostfixOf, Given, Live
<1>2. CASE Hooking
  <2>1. CASE \E m \in Methods, pre \in PrefixFns \union {NoCallback},
               post \in PostfixFns \union {NoCallback} :
               (SharedCallbacks \/ NewToMethod(m, pre, post)) /\ Install(m, pre, post)
    BY <2>1, OrderInstall
  <2>2. CASE \E id \in DOMAIN node : Uninstall(id) BY <2>2, OrderUninstall
  <2>3. CASE \E m \in Typed : InstallTyped(m) \/ UninstallTyped(m)
    BY <1>1, <2>3 DEF InstallTyped, UninstallTyped
  <2> QED BY <1>2, <2>1, <2>2, <2>3 DEF Hooking
<1>3. CASE Dispatching
  BY <1>1, <1>3 DEF Dispatching, Enter, RunPrefix, RunOriginal, StartPostfixes, RunPostfix, Leave
<1>4. CASE UNCHANGED hookVars BY <1>1, <1>4 DEF hookVars
<1> QED BY <1>2, <1>3, <1>4 DEF HookNext

\* A method's callbacks are those of its hooks that were not uninstalled, in the
\* order of installation (method.h:226), whatever was uninstalled between.
THEOREM CallbacksInInstallOrder == SharedCallbacks = FALSE => (HookSpec => []InstallOrder)
<1> SUFFICES ASSUME SharedCallbacks = FALSE PROVE HookSpec => []InstallOrder OBVIOUS
<1>1. HookInit => OrderInv BY DEF HookInit, OrderInv, Live
<1>2. HookInv /\ HookInv' /\ OrderInv /\ [HookNext]_hookVars => OrderInv' BY OrderStep
<1>3. OrderInv => InstallOrder
  BY DEF OrderInv, InstallOrder, PrefixTable, PostfixTable, Given
<1>4. HookSpec => []HookInv BY HooksSafe
<1> QED BY <1>1, <1>2, <1>3, <1>4, PTL DEF HookSpec
=============================================================================
