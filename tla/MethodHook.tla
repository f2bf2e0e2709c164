----------------------------- MODULE MethodHook ------------------------------
(***************************************************************************)
(* Method hooks on Android, src/patchlib/android/method_hook.c: several    *)
(* prefix/postfix pairs share one handle per method, whose closure Dobby   *)
(* puts in the place of the method, and the dispatcher runs them when the  *)
(* game calls the method.  The callbacks and the original method may       *)
(* install and uninstall hooks while they run: everything happens in one   *)
(* thread (method.h:228, :250).                                            *)
(*                                                                         *)
(* A handle that exists is hooked (is_hooked): install hooks the handle it *)
(* creates and uninstall frees the handle it unhooks.  hook_handles, which *)
(* lists the handles of method_to_handle, is not kept apart.  Memory, the  *)
(* signature, the closure, Dobby and the puts into the maps do not fail.   *)
(***************************************************************************)
EXTENDS Integers, SequencesExt, Stripping

CONSTANTS Methods,
          Typed,             \* the methods that get typed hooks
          PrefixFns, PostfixFns,
          NoCallback,
          HookHandles,       \* addresses of patchlib_hook_handle_t; malloc reuses them
          MaxId,             \* bound: hooks ever installed
          SharedCallbacks,   \* may a method get the same callback twice?
          Unpatched, Detour, NoCall

ASSUME MethodHookAssumption ==
  /\ Typed \subseteq Methods
  /\ MaxId \in Nat
  /\ SharedCallbacks \in BOOLEAN
  /\ NoCallback \notin PrefixFns \union PostfixFns
  /\ Unpatched \notin HookHandles /\ Detour \notin HookHandles /\ Unpatched # Detour

VARIABLES
  handleOf,    \* g_hooks.method_to_handle
  hookHandle,  \* the allocated handles: their method and callbacks
  node,        \* g_hooks.hooks: hook id -> handle, prefix, postfix
  nextId,      \* g_hooks.next_hook_id
  patch,       \* what Dobby has put at the entry of each method
  call         \* the dispatcher's frame, or NoCall

hookVars == <<handleOf, hookHandle, node, nextId, patch, call>>

Live == DOMAIN hookHandle
Extended(f, x, y) == [z \in DOMAIN f \union {x} |-> IF z = x THEN y ELSE f[z]]
Dropped(f, x)     == [z \in DOMAIN f \ {x} |-> f[z]]
\* Mutant: a new callback goes to the front.
With_AtFront(s, c) == IF c = NoCallback THEN s ELSE <<c>> \o s

With(s, c)    == IF c = NoCallback THEN s ELSE Append(s, c)

\* tefstd_vector_remove_value: every element equal to c goes.
RemoveValue(s, c) == Strip(s, {c})

HookInit ==
  /\ handleOf = [m \in {} |-> m] /\ hookHandle = [h \in {} |-> h]
  /\ node = [i \in {} |-> i] /\ nextId = 0
  /\ patch = [m \in Methods |-> Unpatched]
  /\ call = NoCall
-----------------------------------------------------------------------------
\* Mutant: the map of handles is not consulted.
HandleFor_AlwaysNew(m) == HookHandles \ Live

\* find_or_create_hook_handle.
HandleFor(m) == IF m \in DOMAIN handleOf THEN {handleOf[m]} ELSE HookHandles \ Live

Registered(m, h) ==
  IF h \in Live THEN hookHandle[h] ELSE [method |-> m, prefixes |-> <<>>, postfixes |-> <<>>]

\* patchlib_install_prepost_hook.
Install(m, pre, post) ==
  /\ m \notin Typed /\ nextId < MaxId
  /\ pre # NoCallback \/ post # NoCallback
  /\ \E h \in HandleFor(m) :
       LET old == Registered(m, h)
       IN /\ handleOf' = Extended(handleOf, m, h)
          /\ hookHandle' = Extended(hookHandle, h,
               [old EXCEPT !.prefixes = With(@, pre), !.postfixes = With(@, post)])
          /\ patch' = IF h \in Live THEN patch ELSE [patch EXCEPT ![m] = h]
          /\ node' = Extended(node, nextId, [handle |-> h, prefix |-> pre, postfix |-> post])
  /\ nextId' = nextId + 1
  /\ UNCHANGED call

\* The hooks of method m whose callbacks are to be new to it.
NewToMethod(m, pre, post) ==
  \A i \in DOMAIN node : hookHandle[node[i].handle].method = m =>
     ({pre, post} \ {NoCallback}) \intersect {node[i].prefix, node[i].postfix} = {}

\* Mutant: the method keeps its patch.
Release_StaysPatched(h, stripped) ==
  IF stripped.prefixes = <<>> /\ stripped.postfixes = <<>>
  THEN /\ hookHandle' = Dropped(hookHandle, h)
       /\ handleOf' = Dropped(handleOf, stripped.method)
       /\ UNCHANGED patch
  ELSE /\ hookHandle' = [hookHandle EXCEPT ![h] = stripped]
       /\ UNCHANGED <<handleOf, patch>>

\* Frees a handle without callbacks: its method gets its own code back.
Release(h, stripped) ==
  IF stripped.prefixes = <<>> /\ stripped.postfixes = <<>>
  THEN /\ hookHandle' = Dropped(hookHandle, h)
       /\ handleOf' = Dropped(handleOf, stripped.method)
       /\ patch' = [patch EXCEPT ![stripped.method] = Unpatched]
  ELSE /\ hookHandle' = [hookHandle EXCEPT ![h] = stripped]
       /\ UNCHANGED <<handleOf, patch>>

\* patchlib_uninstall_hook.  Callbacks do not uninstall hooks of the method they
\* run for: the dispatcher would go on with a vector that has shrunk, or with a
\* freed handle.
Uninstall(id) ==
  LET h == node[id].handle
  IN /\ call # NoCall => call.handle # h
     /\ Release(h, [hookHandle[h] EXCEPT !.prefixes  = RemoveValue(@, node[id].prefix),
                                     !.postfixes = RemoveValue(@, node[id].postfix)])
     /\ node' = Dropped(node, id)
     /\ UNCHANGED <<nextId, call>>

\* patchlib_install_typed_hook and patchlib_uninstall_typed_hook: Dobby refuses
\* a second patch, and removes whatever patch there is.
InstallTyped(m) ==
  /\ patch[m] = Unpatched
  /\ patch' = [patch EXCEPT ![m] = Detour]
  /\ UNCHANGED <<handleOf, hookHandle, node, nextId, call>>

UninstallTyped(m) ==
  /\ patch[m] # Unpatched
  /\ patch' = [patch EXCEPT ![m] = Unpatched]
  /\ UNCHANGED <<handleOf, hookHandle, node, nextId, call>>
-----------------------------------------------------------------------------
\* The dispatcher, hook_dispatcher_static or hook_dispatcher.  call.at is what
\* runs; call.i of call.count callbacks have been taken up and call.ran has run;
\* call.due is the callbacks there were when the stage began.
Stage(h, stage, callbacks, skip) ==
  [handle |-> h, at |-> stage, i |-> 0, count |-> Len(callbacks),
   ran |-> <<>>, due |-> callbacks, skip |-> skip]

\* The callback at index i, if tefstd_vector_at still finds one.
Next1(callbacks) ==
  [call EXCEPT !.i = @ + 1,
               !.ran = IF call.i < Len(callbacks)
                       THEN Append(@, callbacks[call.i + 1]) ELSE @]

\* The game calls the method.
Enter(m) ==
  /\ call = NoCall /\ patch[m] \in HookHandles
  /\ call' = Stage(patch[m], "prefix", hookHandle[patch[m]].prefixes, FALSE)
  /\ UNCHANGED <<handleOf, hookHandle, node, nextId, patch>>

\* A prefix runs; the next step of the dispatcher comes when it has returned
\* skip.
RunPrefix(skip) ==
  /\ call # NoCall /\ call.at = "prefix" /\ call.i < call.count
  /\ call' = [Next1(hookHandle[call.handle].prefixes) EXCEPT
                !.skip = skip, !.at = IF skip THEN "original" ELSE "prefix"]
  /\ UNCHANGED <<handleOf, hookHandle, node, nextId, patch>>

\* All prefixes let the original run, which may call back into the mods.
RunOriginal ==
  /\ call # NoCall /\ call.at = "prefix" /\ call.i = call.count
  /\ call' = [call EXCEPT !.at = "original"]
  /\ UNCHANGED <<handleOf, hookHandle, node, nextId, patch>>

\* Mutant: a prefix that skips the original skips the postfixes too.
StartPostfixes_NotSkipped ==
  /\ call # NoCall /\ call.at = "original"
  /\ call' = [Stage(call.handle, "postfix", hookHandle[call.handle].postfixes, call.skip)
                EXCEPT !.count = IF call.skip THEN 0 ELSE @]
  /\ UNCHANGED <<handleOf, hookHandle, node, nextId, patch>>

StartPostfixes ==
  /\ call # NoCall /\ call.at = "original"
  /\ call' = Stage(call.handle, "postfix", hookHandle[call.handle].postfixes, call.skip)
  /\ UNCHANGED <<handleOf, hookHandle, node, nextId, patch>>

RunPostfix ==
  /\ call # NoCall /\ call.at = "postfix" /\ call.i < call.count
  /\ call' = Next1(hookHandle[call.handle].postfixes)
  /\ UNCHANGED <<handleOf, hookHandle, node, nextId, patch>>

Leave ==
  /\ call # NoCall /\ call.at = "postfix" /\ call.i = call.count
  /\ call' = NoCall
  /\ UNCHANGED <<handleOf, hookHandle, node, nextId, patch>>

Hooking ==
  \/ \E m \in Methods, pre \in PrefixFns \union {NoCallback},
        post \in PostfixFns \union {NoCallback} :
        (SharedCallbacks \/ NewToMethod(m, pre, post)) /\ Install(m, pre, post)
  \/ \E id \in DOMAIN node : Uninstall(id)
  \/ \E m \in Typed : InstallTyped(m)
  \/ \E m \in Typed : UninstallTyped(m)

Dispatching ==
  \/ \E m \in Methods : Enter(m)
  \/ \E skip \in BOOLEAN : RunPrefix(skip)
  \/ RunOriginal
  \/ StartPostfixes
  \/ RunPostfix
  \/ Leave

HookNext == Hooking \/ Dispatching

HookSpec == HookInit /\ [][HookNext]_hookVars
-----------------------------------------------------------------------------
Frames ==
  [handle : HookHandles, at : {"prefix", "original", "postfix"}, i : Nat, count : Nat,
   ran : Seq(PrefixFns) \union Seq(PostfixFns),
   due : Seq(PrefixFns) \union Seq(PostfixFns), skip : BOOLEAN]

HookTypeOK ==
  /\ DOMAIN handleOf \subseteq Methods \ Typed
  /\ \A m \in DOMAIN handleOf : handleOf[m] \in HookHandles
  /\ Live \subseteq HookHandles
  /\ \A h \in Live : hookHandle[h] \in [method : Methods, prefixes : Seq(PrefixFns),
                                    postfixes : Seq(PostfixFns)]
  /\ nextId \in 0 .. MaxId /\ DOMAIN node \subseteq 0 .. nextId - 1
  /\ \A i \in DOMAIN node :
       node[i] \in [handle : HookHandles, prefix : PrefixFns \union {NoCallback},
                    postfix : PostfixFns \union {NoCallback}]
  /\ patch \in [Methods -> HookHandles \union {Unpatched, Detour}]
  /\ call # NoCall => call \in Frames /\ call.i <= call.count

\* method.h:245: uninstalling a hook leaves the others of its method active.  The
\* handle of every hook that was not uninstalled is there, is what its method
\* runs, and has its callbacks.
HooksStayActive ==
  \A i \in DOMAIN node :
    /\ node[i].handle \in Live
    /\ LET h == hookHandle[node[i].handle]
       IN /\ patch[h.method] = node[i].handle
          /\ node[i].prefix  \in {NoCallback} \union ToSet(h.prefixes)
          /\ node[i].postfix \in {NoCallback} \union ToSet(h.postfixes)

\* A method never runs the closure of a freed handle, or of another method.
PatchedIsLive ==
  \A m \in Methods : patch[m] \in HookHandles =>
    /\ patch[m] \in Live /\ hookHandle[patch[m]].method = m
    /\ m \in DOMAIN handleOf /\ handleOf[m] = patch[m]

\* What hook i has given handle h: hook ids count the installations.
PrefixOf(h, i) ==
  IF i \in DOMAIN node /\ node[i].handle = h THEN node[i].prefix ELSE NoCallback
PostfixOf(h, i) ==
  IF i \in DOMAIN node /\ node[i].handle = h THEN node[i].postfix ELSE NoCallback

\* The callbacks of a method are those of its hooks in the order of installation
\* (method.h:226), none left over from a hook that is gone.
InstallOrder ==
  \A h \in Live :
    /\ hookHandle[h].prefixes =
         RemoveValue([k \in 1 .. nextId |-> PrefixOf(h, k - 1)], NoCallback)
    /\ hookHandle[h].postfixes =
         RemoveValue([k \in 1 .. nextId |-> PostfixOf(h, k - 1)], NoCallback)

\* Whatever the callbacks do to the hooks meanwhile, a call asks every prefix
\* there was when it began unless one of them says skip, in order, and runs
\* every postfix even if one did.
EveryCallbackRuns ==
  call # NoCall =>
    /\ IsPrefix(call.ran, call.due)
    /\ call.at = "original" /\ ~call.skip => call.ran = call.due
    /\ call.at = "postfix" /\ call.i = call.count =>
         call.ran = call.due /\ IsPrefix(call.due, hookHandle[call.handle].postfixes)
=============================================================================
