------------------------------ MODULE Registry ------------------------------
(***************************************************************************)
(* What the kernel loads and unloads: plugins (src/tefplugin/tpf_core.c),  *)
(* modules (src/module/module_core_imp.c) and modloaders                   *)
(* (src/modloader/modloader_core.c), in the order of tefkernel_load,       *)
(* tefkernel_start and tefkernel_cleanup (src/runtime.c).  All of it runs  *)
(* on one thread.  The mods a modloader owns are not part of this module.  *)
(*                                                                         *)
(* A plugin offers symbols.  A module or modloader has a pointer for each  *)
(* symbol it uses; the kernel fills the pointers of every library listed   *)
(* in shared_plugin_libraries and clears them when the plugin goes.        *)
(* g_plugin_refs is keyed by the POINTER of a package id, so a plugin has  *)
(* one counter per library that names it: refs[c][p].                      *)
(*                                                                         *)
(* free_module and free_modloader read the dependency list, and            *)
(* tpf_cleanup_plugin looks symbols up, in libraries that are closed.  The *)
(* model goes on as if that memory were still mapped.                      *)
(***************************************************************************)
EXTENDS Integers, FiniteSets

CONSTANTS Plugins, Modules, Loaders,  \* enabled packages
          Deps,           \* plugin_dependencies of each module and modloader
          Extensions,     \* modules removed once they are initialised
          Handles,        \* values memdl_open can return
          HandlesReused,  \* may a closed handle's value be returned again?
          Nil

Users      == Modules \union Loaders
Components == Users \union Plugins

ASSUME RegistryAssumption ==
  /\ Deps \in [Users -> SUBSET Plugins]
  /\ Extensions \subseteq Modules /\ Modules \intersect Loaders = {}
  /\ Users \intersect Plugins = {}
  /\ HandlesReused \in BOOLEAN /\ Nil \notin Handles
  /\ IsFiniteSet(Components)

VARIABLES
  phase,      \* how far tefkernel_load, tefkernel_start and cleanup are
  todo,       \* enabled packages not tried yet
  handle,     \* open library of each component
  used,       \* handle values handed out so far
  plugins, modules, loaders,  \* plugin_handles, g_module_list, g_ml_list
  shared,     \* shared_plugin_libraries.handles
  bound,      \* plugins whose symbols a library's pointers lead to
  refs        \* g_plugin_refs

libVars  == <<handle, used, shared, bound>>
listVars == <<plugins, modules, loaders>>
vars == <<phase, todo, libVars, listVars, refs>>

Init ==
  /\ phase = "plugins" /\ todo = Components
  /\ handle = [c \in Components |-> Nil] /\ used = {}
  /\ plugins = {} /\ modules = {} /\ loaders = {}
  /\ shared = {} /\ bound = [c \in Components |-> {}]
  /\ refs = [c \in Components |-> [p \in Plugins |-> 0]]
-----------------------------------------------------------------------------
Open(c) == handle[c] # Nil

\* memdl_open returns a value no open library has.
FreshHandles ==
  Handles \ (IF HandlesReused THEN {handle[c] : c \in Components} ELSE used)

Opened(c, h) == handle' = [handle EXCEPT ![c] = h] /\ used' = used \union {h}
Tried(c)     == todo' = todo \ {c}

\* Mutant: the library is listed, the symbols that exist already are not set.
Shared_NoSymbols(c, h) ==
  /\ shared' = shared \union {h}
  /\ bound' = [bound EXCEPT ![c] = {}]

\* tpf_register_shared_plugin_library for the library c just opened as h: a
\* value that is already listed is taken for a library registered before.
Shared(c, h) ==
  /\ shared' = shared \union {h}
  /\ bound' = [bound EXCEPT ![c] = IF h \in shared THEN {} ELSE plugins]

AddRefs(c) == refs' = [refs EXCEPT ![c] = [p \in Plugins |->
                         IF p \in Deps[c] THEN @[p] + 1 ELSE @[p]]]

(* tefkernel_load: plugins, tpf_initialize_all_plugins, modules,           *)
(* modloaders, mods.                                                       *)

\* load_all_plugins, tpf_load_plugin.  initialize registers the plugin's
\* symbols; no library is listed yet.  One that fails is closed again.
LoadPlugin(p) ==
  /\ phase = "plugins" /\ p \in todo
  /\ Tried(p)
  /\ \/ \E h \in FreshHandles :
          /\ Opened(p, h)
          /\ plugins' = plugins \union {p}
          /\ refs' = [refs EXCEPT ![p][p] = @ + 1]
     \/ UNCHANGED <<handle, used, plugins, refs>>
  /\ UNCHANGED <<phase, modules, loaders, shared, bound>>

\* tpf_initialize_all_plugins binds the symbols of every plugin again.
InitializePlugins ==
  /\ phase = "plugins" /\ todo \intersect Plugins = {}
  /\ phase' = "modules"
  /\ bound' = [c \in Components |->
                 IF Open(c) /\ handle[c] \in shared THEN plugins ELSE bound[c]]
  /\ UNCHANGED <<todo, handle, used, shared, listVars, refs>>

\* tefkernel_load_module.  The counters are incremented before the list is
\* extended and are not taken back when that fails.
LoadModule(m) ==
  /\ phase = "modules" /\ m \in todo
  /\ Tried(m)
  /\ \/ \E h \in FreshHandles :
          /\ Opened(m, h)
          /\ AddRefs(m)
          /\ modules' = modules \union {m}
          /\ Shared(m, h)
     \/ /\ AddRefs(m)
        /\ UNCHANGED <<modules, libVars>>
     \/ UNCHANGED <<refs, modules, libVars>>
  /\ UNCHANGED <<phase, plugins, loaders>>

EndModules ==
  /\ phase = "modules" /\ todo \intersect Modules = {}
  /\ phase' = "loaders"
  /\ UNCHANGED <<todo, libVars, listVars, refs>>

\* tefkernel_load_ml.  The library is listed as shared before the modloader
\* is created and initialised, and stays listed when that fails.
LoadLoader(l) ==
  /\ phase = "loaders" /\ l \in todo
  /\ Tried(l)
  /\ \/ \E h \in FreshHandles :
          Opened(l, h) /\ Shared(l, h) /\ loaders' = loaders \union {l}
     \/ \E h \in FreshHandles :
          /\ shared' = shared \union {h} /\ used' = used \union {h}
          /\ UNCHANGED <<handle, bound, loaders>>
     \/ UNCHANGED <<libVars, loaders>>
  /\ UNCHANGED <<phase, plugins, modules, refs>>

EndLoaders ==
  /\ phase = "loaders" /\ todo \intersect Loaders = {}
  /\ phase' = "start"
  /\ UNCHANGED <<todo, libVars, listVars, refs>>
-----------------------------------------------------------------------------
\* Mutant: the symbols of the plugin are left in the libraries.
CleanUp_SymbolsStay(gone, libs) ==
  /\ plugins' = plugins \ gone
  /\ handle' = [c \in Components |->
                  IF c \in gone \union libs THEN Nil ELSE handle[c]]
  /\ bound' = bound

\* tpf_cleanup_plugin for each plugin of gone: clear its symbols in every
\* listed library, whether that is still open or not.
CleanUp(gone, libs) ==
  /\ plugins' = plugins \ gone
  /\ handle' = [c \in Components |->
                  IF c \in gone \union libs THEN Nil ELSE handle[c]]
  /\ bound' = [c \in Components |->
                 IF Open(c) /\ handle[c] \in shared THEN bound[c] \ gone ELSE bound[c]]

\* remove_plugin_ref on the counter c keeps for p.
Less(r, c, p) == [r EXCEPT ![c][p] = IF @ > 0 THEN @ - 1 ELSE 0]

\* Mutant: only the other modules are asked.
StillReferenced_Modules(m, p) == \E n \in modules \ {m} : p \in Deps[n]

\* module_check_plugin_references, m being out of the list already.
StillReferenced(m, p) ==
  refs[m][p] + Cardinality({n \in modules \ {m} : p \in Deps[n]})
             + Cardinality({l \in loaders : p \in Deps[l]}) > 0

\* free_module with its cleanup_unreferenced_plugins, which reads the
\* dependencies from the library just closed.
FreeModule(m) ==
  LET gone == {p \in Deps[m] \intersect plugins : ~StillReferenced(m, p)}
  IN /\ modules' = modules \ {m}
     /\ CleanUp(gone, {m})
     /\ refs' = [c \in Components |-> [p \in Plugins |->
                   IF p \in gone /\ c \in {m, p} /\ refs[c][p] > 0
                   THEN refs[c][p] - 1 ELSE refs[c][p]]]
     /\ UNCHANGED <<used, shared, loaders>>

(* tefkernel_start.                                                        *)

\* tefkernel_initialize_all_modules: the modules whose init_module fails
\* stay; the signed extension packs are removed one by one.
DropExtension(m) ==
  /\ phase = "start" /\ m \in Extensions \intersect modules
  /\ FreeModule(m)
  /\ UNCHANGED <<phase, todo>>

\* init_ml of every modloader once more, then the mods.
EndStart ==
  /\ phase = "start"
  /\ phase' = "up"
  /\ UNCHANGED <<todo, libVars, listVars, refs>>
-----------------------------------------------------------------------------
(* The running kernel.                                                     *)

\* tefkernel_cleanup_module.
CleanupModule(m) ==
  /\ phase = "up" /\ m \in modules
  /\ FreeModule(m)
  /\ UNCHANGED <<phase, todo>>

\* tefkernel_cleanup_ml: a plugin no other MODLOADER depends on goes.
CleanupLoader(l) ==
  LET gone == {p \in Deps[l] \intersect plugins :
                 \A k \in loaders \ {l} : p \notin Deps[k]}
  IN /\ phase = "up" /\ l \in loaders
     /\ loaders' = loaders \ {l}
     /\ CleanUp(gone, {l})
     /\ refs' = [c \in Components |-> IF c \in gone THEN Less(refs, c, c)[c]
                                                    ELSE refs[c]]
     /\ UNCHANGED <<phase, todo, used, shared, modules>>

\* tefkernel_cleanup: every module, every modloader, and then whatever any
\* modloader depended on.
Cleanup ==
  LET gone == plugins \intersect UNION {Deps[l] : l \in loaders}
  IN /\ phase = "up"
     /\ phase' = "down"
     /\ modules' = {} /\ loaders' = {}
     /\ CleanUp(gone, modules \union loaders)
     /\ refs' = [c \in Components |-> IF c \in gone THEN Less(refs, c, c)[c]
                                                    ELSE refs[c]]
     /\ UNCHANGED <<todo, used, shared>>

Next ==
  \/ \E p \in Plugins : LoadPlugin(p)
  \/ InitializePlugins
  \/ \E m \in Modules : LoadModule(m)
  \/ EndModules
  \/ \E l \in Loaders : LoadLoader(l)
  \/ EndLoaders
  \/ \E m \in Modules : DropExtension(m)
  \/ EndStart
  \/ \E m \in Modules : CleanupModule(m)
  \/ \E l \in Loaders : CleanupLoader(l)
  \/ Cleanup

Spec == Init /\ [][Next]_vars
-----------------------------------------------------------------------------
TypeOK ==
  /\ phase \in {"plugins", "modules", "loaders", "start", "up", "down"}
  /\ todo \subseteq Components
  /\ handle \in [Components -> Handles \union {Nil}] /\ used \subseteq Handles
  /\ plugins \subseteq Plugins /\ modules \subseteq Modules /\ loaders \subseteq Loaders
  /\ shared \subseteq Handles
  /\ bound \in [Components -> SUBSET Plugins]
  /\ refs \in [Components -> [Plugins -> Nat]]

\* The lists and the open libraries agree: what is listed is open, nothing
\* else is, and two libraries never share a handle.
ListedAreOpen ==
  /\ {c \in Components : Open(c)} = plugins \union modules \union loaders
  /\ \A c, d \in Components : Open(c) /\ handle[c] = handle[d] => c = d

\* No pointer of an open library leads into a plugin that was closed.
NoDanglingSymbol == \A c \in Components : Open(c) => bound[c] \subseteq plugins

\* tpf_core.c:570: a listed library has the symbols of all loaded plugins.  Whatever handle values come
\* back, it keeps exactly those of them that stay, and a new one gets them all, unless its value is still listed.
StaysBound ==
  [][\A c \in modules' \union loaders' :
       IF c \in modules \union loaders THEN bound[c] = plugins => bound'[c] = plugins'
                                       ELSE handle'[c] \notin shared => bound'[c] = plugins']_vars

\* The counters never fall short: whoever is loaded and was counted still
\* has its count, so a plugin a module uses is never taken for unused.
RefsCoverUsers ==
  /\ \A m \in modules : \A p \in Deps[m] : refs[m][p] >= 1
  /\ \A p \in plugins : refs[p][p] >= 1

\* Removing a module leaves every plugin that another loaded module or
\* modloader depends on in place.
ModuleKeepsPlugins ==
  [][modules' # modules /\ phase' # "down" =>
       \A c \in modules' \union loaders' :
         Deps[c] \intersect plugins \subseteq plugins']_vars

\* tpf_core.h:142: a plugin is cleaned up when it is no longer used.
CleanedOnlyUnused ==
  [][\A p \in plugins \ plugins' : \A c \in modules' \union loaders' :
       p \notin Deps[c]]_vars
=============================================================================
