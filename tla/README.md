# TLA+ models of TEFKernel

TEFKernel is a modding kernel for a game: it is loaded into the game's process,
loads plugins, modules, modloaders and mods as shared libraries, lets them hook
the game's methods (il2cpp on Android, Mono on the desktop), and gives them
content registries, networking, audio, save files and logging.  This directory
holds TLA+ modules translated from its C sources, TLC configurations that
model-check them on small instances, and proofs for TLAPS.

Paths in this file are relative to the root of the repository; `log.c` without
a directory is `src/tefstd/log.c`.  `PROJECT.json` maps every definition to the
lines it stands for, and lists components, hazards, runs and theorems.

    tlc -workers 2 -config Logging.cfg LoggingMC    # one run
    tlapm LoggingProofs.tla                         # one module of proofs

Contents: 1 inventory, 2 modules and how they correspond to the code, 3 runs,
bounds and results, 4 fairness, 5 what the code does against its own words,
6 proofs, 7 limits, 8 what is left.

## 1. Inventory

### Components

| component | sources | state | operations | models |
|---|---|---|---|---|
| Log ring | `src/tefstd/log.c:86-177` | two cursors, per-slot sequence marks, slots | reserve, publish, peek, consume, claim, release | LogRing, LogQueue |
| Log pool | `log.c:180-640` | list of loggers, busy and active flags, files, workers with a batch buffer | open, write, flush, close; drain, rotate, grow | LogPool |
| Kernel log | `src/log.c` | message queue under a mutex, log thread, file | init, write, cleanup | KernelLog |
| Hash map | `src/tefstd/hashmap.c` | cells with tombstones, size, capacity | put, get, del, clear, iterate | HashMap, AssocMap |
| Vector, skip map | `src/tefstd/vector.c`, `skipmap.c` | dynamic array; ordered list with towers | push, erase, remove_value; put, get, iterate | only remove_value |
| Registry of plugins, modules, modloaders | `src/tefplugin/tpf_core.c`, `src/module/module_core_imp.c`, `src/modloader/modloader_core.c`, `src/runtime.c` | lists of handles, shared libraries, symbol pointers, reference counters | load, initialise, start, unload one or all | Registry |
| Mods | `src/mod_core.c` | list of mods with their owner | load, hand to modloaders, free | no: runs once, in sequence |
| Method hooks (Android) | `src/patchlib/android/method_hook.c` | handles with callback vectors, hook nodes, patched methods | install, uninstall, typed hooks, dispatch | MethodHook |
| Runtime packages, hot reload | `src/runtime.c` | package tables, reload thread and mutex | enable, start, stop, walk the lists | order of load and start in Registry |
| Crash handler | `src/crash_handler.c` | saved signal handlers, crumb ring, in-progress flag | install, handle, forward, cleanup | CrashHandler |
| Package format | `src/tefpackage/tefpkg.c` | header, entry table, data, signature | open, add, save, verify, extract | PackageFile |
| Compression, hashing, LZ4 | `src/tefpackage/*.c` | none | pure byte algorithms | no |
| Content registries | `src/terraria/common/content/{item,buff,npc,projectile,prefix}_manager.c` | entries by (loader, mod, name), compact ids, active buffs | register, hot-replace, unregister, renumber | ContentRegistry |
| Recipes, language, assets, GUI, main loop | `src/terraria/common/{recipe_manager,language_manager,asset,gui,main,entity}.c` | callback lists, batches | hooks of the game's own phases | no |
| Handshake | `src/terraria/common/netmanager.c` | per-slot connection type and error | parse, compare versions, accept, reject | Handshake |
| Audio | `src/terraria/common/content/audio_manager.c` | 48 voices shared with the mixer callback | play, pause, stop, unregister; mix | AudioVoices |
| Save files | `src/terraria/common/save/*.c` | companion file of each player and world | save, load, replace on disk | ModSaves |
| Buttons (Android) | `src/terraria/android/content/button_*.c` | actions, claims, held state; bindings, undo and redo, store | register, poll, tick; bind, edit, undo, save, load | ButtonInput, ButtonBindings, EditTimeline |
| patchlib wrappers | `src/patchlib/common`, `desktop`, `android` | the game runtime's | thin calls | no |
| In-memory loader | `src/memdl/memdl.c` | table of descriptors | open, symbol, close | no |
| Android start-up, I/O redirection | `src/android/*.cpp` | watcher thread, hook state | wait for il2cpp, hook init | no |
| Desktop start-up, loaders | `src/desktop`, `tefloader/` | none of their own | bootstrap, once | no |

### How they interact

* `tefkernel_load`, `tefkernel_start`, `tefkernel_cleanup` (`src/runtime.c`)
  drive the registry on the game's thread: plugins, then modules, then
  modloaders, then mods.  A plugin's functions reach modules and modloaders
  through pointers the kernel writes into their libraries; these pointers are
  shared state of three components.
* Everything logs.  The kernel's own messages go to the kernel log (one mutex,
  one thread); mods use the tefstd log (a lock-free ring per logger, a pool of
  workers).  The crash handler cleans up the kernel log from inside a signal
  handler.
* The game calls mods through the dispatcher of the method hooks; mods install
  and uninstall hooks from inside the callbacks.
* The game's thread shares the voices of the audio manager with the mixer's
  callback, and the lists of the registry with the hot reload thread.
* The content registries give numbers to items, buffs, NPCs and projectiles
  that live on in save files and in packets of other players.
* Hash map and vector are used by nearly all of the above.

### What is hard, and what correctness means

| component | hard behaviour | what makes it correct |
|---|---|---|
| ring | interleaved CAS, slow producers, full ring | exclusive slots; order of reservation; loss only when full; everything that got a place arrives |
| pool | workers take turns, loggers come and go under them, close races a stale look at `active` | one drainer per logger; list = open loggers; nothing lost, repeated, reordered; close ends |
| kernel log | signal against wait, time-out, shutdown against writers | order; errors on disk before the thread sleeps; no lost wake-up; what came before the stop is written; shutdown ends |
| hash map | tombstones reused, wrap-around, growth, deletion while iterating | it is a map; sizes are counts; iteration returns each key once |
| registry | several libraries name one plugin, loads fail half-way, handle values return | no pointer into a closed plugin; every library has the symbols it needs; no plugin in use is closed |
| hooks | several hooks share a handle, the last one frees it, callbacks change the hooks of other methods in the middle of a call | a hook stays active until it is uninstalled; a patched method has its handle; order; all callbacks run |
| crash handler | two threads crash at once, handlers chain | the first report is complete; a later crash is still seen |
| content | renumbering while numbers are in use | a number denotes the same entry for as long as somebody holds it |
| audio | mixer against stop and unregister | a stopped voice is reused; samples outlive the mixer's use |
| saves | crash between remove and rename; numbers that shift with the loaded mods | the file there was or the new one, whole; an item comes back as itself |
| handshake | order of messages, slots reused | who is let in matches; the reason given is that of this client |
| packages | a write fails, or its flush unnoticed; a package made in place is interrupted, signed twice | an entry reads as what was added or as an error |
| button input | actions come and go between reading the fingers and using the result | a button is held under a finger, and not for ever |
| bindings | undo, redo and cancelled edits in any order; a crash while saving | undo is the inverse of an edit; the last finished save survives |

The main hazards are in `PROJECT.json`, each at its line, with the properties
that cover them or the reason why none does.  Smaller ones, which no module reaches:

* `log.c:116`: positions are `uint32_t` and compared by their signed difference;
  the models and proofs use natural numbers (see LogRing below).
* `log.c:413`: two first calls of `tefstd_log_open` race on a plain bool.
* `src/log.c:533`: file names have a resolution of one second; a log reopened
  within it truncates the one before.
* `src/crash_handler.c:427`: cleanup restores SIG_DFL, not the saved handlers,
  and a second init installs nothing.
* `src/log.c:611`: a writer that saw `running` locks a mutex that cleanup has
  destroyed; KernelLog records it (`undefined`).
* `src/runtime.c:260`: the hot reload thread walks the lists of modloaders and
  modules without a lock while they may be loaded or unloaded.  Nothing in the
  repository starts that thread.
* `src/runtime.c:226`: `tv_nsec` of 1000000000 is refused by nanosleep, so the
  hot reload thread spins; `:334` locks a mutex that may not exist; `:43` keys
  the package tables by the hash of the id alone.
* `src/module/module_core_imp.c:213`: directories are freed before the callback
  that is given them; `:392` counts dependencies but never checks them.
* `src/tefplugin/tpf_core.c:358`: two plugins with one symbol name clear each
  other's pointers; `:591` shifts names against addresses when a push fails.
* `src/mod_core.c:309`: a manifest is freed twice when the list cannot grow;
  `:299` leaves mods with the address of an unloaded modloader.
* `src/runtime.c:576`: `init_ml` of each modloader is called a second time after
  its mods were loaded (the first time is `src/modloader/modloader_core.c:316`);
  `documents/modloader-en.md:85` shows one call, before the mods, and the example
  there empties its list of mods in it.  `src/runtime.c:642` never unloads the mods
  that line 99 of the document says are unloaded first.
* `hashmap.c:113`: a key whose hash is 0 is given cell 0; `:211` a put that only
  updates may resize and move what `get` returned.
* `skipmap.c:290`: `tefstd_skipmap_next` returns false with the last element, so
  the loop of `documents/tefstd-en.md:526` never sees it.
* `src/patchlib/android/method_hook.c:381`: a handle counts as hooked although
  the closure or the patch failed.
* `src/internal/platform_threads.h:145`: `thrd_create` drops the argument of the
  thread, which `register_symbols_thread` would dereference.
* `src/tefpackage/tefpkg.c:240`: a failed write frees the data, and the caller
  frees it again.
* `src/android/android_runtime_core.cpp:440`: the watcher gives up after 30
  seconds, or hooks an init that has already run.

## 2. Modules

| module | models | lines of the code |
|---|---|---|
| LogQueue | abstract: a bounded queue with places | what `tl_ring_*` promise |
| LogRing | the ring, one action per atomic access | `log.c:86-177`, the loops of 289-316 and `tefstd_log_write` |
| LogPool | loggers, workers, files | `log.c:180-640` |
| KernelLog | the kernel's log | `src/log.c` |
| AssocMap | abstract: a finite map | `include/tefstd/hashmap.h` |
| HashMap | the table and its iterator | `src/tefstd/hashmap.c` |
| Registry | libraries, symbols, counters | the files of section 1 |
| MethodHook | hooks and dispatcher | `src/patchlib/android/method_hook.c` |
| ContentRegistry | registries, ids, active buffs | `src/terraria/common/content/*_manager.c` |
| ModSaves | the companion save file over sessions | `src/terraria/common/save/*.c` |
| Handshake | joining a server | `src/terraria/common/netmanager.c` |
| PackageFile | making, saving, reading a package | `src/tefpackage/tefpkg.c` |
| AudioVoices | the table of voices and the mixer | `.../content/audio_manager.c` |
| CrashHandler | signals, report, forwarding | `src/crash_handler.c` |
| ButtonInput | claims, held state, screens | `.../android/content/button_manager.c`, `button_state.c` |
| EditTimeline | abstract: a line of states with undo and redo | the history of `button_state.c` |
| ButtonBindings | bindings, history, store | `button_state.c`, `button_store.c`, the editor hooks of `button_manager.c` |
| Stripping | taking values out of an array, in order or with the last element filling the hole | `src/tefstd/vector.c:152`, `buff_manager.c:306` |
| InductionProofs | induction without operator parameters; lemmas about recursive functions and Stripping | |
| LoggingProofs | theorems about LogRing and KernelLog | |
| LogPoolProofs, HashMapProofs, ContentProofs | theorems about LogPool, HashMap, ContentRegistry | |
| CoreProofs | theorems about Registry and MethodHook | |
| WorldProofs | theorems about ModSaves, Handshake, PackageFile and WorldMC | |
| DeviceProofs | theorems about AudioVoices, CrashHandler, ButtonInput, ButtonBindings and DeviceMC | |
| `*MC` | values for TLC | |

LoggingMC, StdMC, CoreMC, WorldMC and DeviceMC each hold several modules that
share no state.  (WorldMC takes the values of
ContentMC, HandshakeMC and PackageMC, which also serve the configurations of one part
alone.)  Their variable `part` names the one that moves in a behaviour, and never
changes: the states of the modules are added up and not multiplied, and each module's
behaviours are exactly its own, but for two that are taken in two restricted parts
each, the pool (`Within` of StdMC) and the buttons (`Restricted` of DeviceMC).  The
fairness is that of each module, for the behaviours in which it is the one.

Some operators carry a suffix after an underscore and the comment "Mutant".
Each is what the definition next to it would be after a plausible slip (a missing
reset, a lost sign); no formula uses them.  They document, for each property,
an error of the code that the property detects.

### LogRing

State: `head`, `tail`, `seq`, `data` are the ring's; `busy` the logger's claim;
`ppc`, `ppos` and `cpc`, `cpos`, `cmsg`, `drained` are the local variables and
the next access of each producer and worker.  `log` and `out` record the
messages that got a place and those that left.  One action is one atomic load,
store or CAS, or one plain copy of a slot: `BeginWrite`, `SlotIsFree`,
`DropMessage`, `SlotIsTaken`, `ReloadHead`, `CasSucceeds`, `CasFails`,
`CopyMessage`, `Publish` are `tl_ring_reserve`, the copy in `tl_enqueue` and
`tl_ring_publish`; `Claim` to `Release` are `tl_try_claim`, the drain loop with
`tl_ring_peek` and `tl_ring_consume`, and `tl_release`.  The atomics of the code
are acquire and release; each location's history is sequential, and the plain
copies are exclusive (`NoSlotRace`), so interleaving is an adequate semantics.
Positions are natural numbers; the code's are `uint32_t` compared by their
signed difference, which is the same while fewer than 2^31 positions lie
between two threads.

### LogPool

Uses the queue of LogQueue for each logger, with place and readiness in one
step.  `phead` and `pnext` are the pool's list, `active`, `busy`, `fp` the
logger's flags and file, `batch` a worker's buffer, which it keeps when it moves
from one logger to the next, as in the code.  `DrainOne` is one turn of the drain
loop, with the message that does not fit and, as its second disjunct, the CRITICAL
message of a logger with `sync_on_critical`, which takes the file to the disk.
Owner actions: `Open`, `Grow`,
`Write`, `FlushBegin`, `FlushEnd`, `Unlink`, `Deactivate`, `AwaitIdle`,
`DrainAndFree`, the last five being the steps of flush and close with the waits
between them.  Worker actions follow the labels of `tl_worker_main`.
`UseAfterFree` sets `corrupt` when a worker reaches a logger that was freed;
then nothing is known and no action is enabled.

### KernelLog

Each critical section of the queue's mutex is one action; `running` is read
outside it, as the code does.  The thread sleeps at "waiting" until a push or
the stop moves it to "lock", or `TimeOut` ends the wait.  `Start` to
`DestroyQueue` are the steps of init and cleanup; `Start` may fail to open the
file and `CreateFails` to create the thread.  A push may fail for lack of
memory.  A push on the destroyed queue sets `undefined`.

### HashMap

`cell`, `cap`, `size` are the table; `FindSlot` is `find_slot`, `Rehash` the
loop of `resize`, `Insert` what follows in put.  `iter`, `seen`, `owed` follow
one iterator and what it still owes its caller.  The abstract map is what
`tefstd_hashmap_get` answers (`Content`).

### Registry

`handle` is the open library of a component, `bound` the plugins its symbol
pointers lead to, `shared` the handle values in `shared_plugin_libraries` (the
code never removes one), `refs` the counters, one for each library that names
a plugin because `g_plugin_refs` is keyed by the address of the id string.
`phase` and `todo` are the progress of `tefkernel_load` and `tefkernel_start`.
Each loader is one action with the failures of the function as disjuncts: not
opened, opened and refused, counted and refused.  `HandlesReused` says whether
`memdl_open` may return a value a closed library had.

### MethodHook

`handleOf`, `node`, `nextId` are `g_hooks`; `handle` the live
`patchlib_hook_handle_t`; `patch` what Dobby put at a method's entry; `call` the
frame of the dispatcher, with the count it read before its loop, as in the
code.  Between two steps of a call any hook of another method may be installed
or uninstalled, which is what callbacks do; hooks of the running method may be
installed.  A callback is taken out of a handle's vector by value, with all that
equal it (`RemoveValue`, which is `Strip` of module Stripping).

### ContentRegistry

The five managers keep the same three things and do not touch each other, so a
behaviour follows one of them, `kind`.  `registry`, `runtimeId`, `assigned` are
the vector of handles, the id in each handle and `g_ids_assigned`; a name stands
for (loader, mod, internal name) in the order of `qsort`.  `Replace` is a reload
under a name that is taken, `Append1` a first registration; what erases and
whether it renumbers differs from manager to manager (`Unregister*`).  `active`
is the list of running buffs.  A tick of a player is split into its loop's
turns.  While an update callback runs (`tick.calling`), any call of the registry and
of the buffs may come, for any handle and player (`ModCall`): registering, reloading,
unregistering, adding, prolonging, removing, clearing debuffs.  `tick.owed` are the
buffs the player had when the pass began, that are still on the list and were not
counted down yet; `tick.moved` says that a call took a buff off at an index the loop
had reached, so that the entry moved in there is passed over.

### ModSaves

`gameFile` is the game's own file with raw numbers, `disk` and `tmp` the
companion `<file>.tef` and its temporary file.  `SaveGame`, `OpenTmp`,
`WriteTmp`, `RemoveOld`, `Rename` are the steps of a save, each of which may
fail or be the last one before `Stop`.  The next session has any set of mods, so
the same number may stand for something else.  `truth` is what the player saw in
each slot when the game last wrote, `inSync` says that the companion is of that
same save; `old` is the companion there was when the save under way began.

### Handshake

A node is with or without the kernel, of a release, of a kernel version, with
lists of modules and mods.  `GetConnect` is the server's hook on the connect
packet: parse, compare, remember the error of the slot, hand on the packet the
game knows.  The game's own decision and its kicks are external.  Slots and the
errors in them outlive their peers (`Leave`, `Kick`, `Retry`).  The comparison keeps
`MaxModules` and `MaxMods` entries of each list (512 in the code, 128 mod loaders) and
127 bytes of an id.  Mods beyond the limit are not seen (`Kept`).  A packet with
too many modules, or with a long id on either side, is read on at a wrong place
(`Misread`): then it may be judged either way.

### PackageFile

`header`, `entries`, `data` are the package in memory, `onDisk` the file,
`writes` the `fwrite` calls the running operation has still to make: `Fwrite`
makes one that reaches the file, `FwriteFails` gives up, `PackageCrash` ends the
process between two.  stdio may buffer what `fwrite` took and fail to flush it:
`FlushFails` loses the rest of a row of writes and lets the operation succeed, since
the code looks neither at `fflush` and `fclose` nor at the `fseek` of a save.  Only
the `fseek` of an add is looked at (`AddMeetsError`).  `flush` says whether a flush of
this file failed unnoticed; blocks that were never written read as zeros (`Hole`).
What an `fseek` that fails does to the position is taken as lost writes.  A failed
write of an add frees its buffer twice (`tefpkg.c:240`, `:709`); where the allocator
stops the process that is `PackageCrash`.  A package is made in memory or in the file
itself, and may be signed and saved more than once.  A hash is what it is computed
over.

### AudioVoices

`voice` is the table; `mixer`, `playing` and `request` are the progress of the
device's callback, of the play that holds the mutex and of each pause, resume or
stop.  Every atomic access is a step: `PlayReserve` to `PlayPublish`, `AskVoice`
or `TestOfAll` and then `StoreFlag`, `PassLook` to `PassMix`.  `quiet` are the
voices that were already stopped or paused when the callback began.

### CrashHandler

`disposition` is who handles each signal, `at` where each thread is between its
fault and its death.  The steps of `posix_signal_handler` are separate, from the
test of `g_crash_in_progress` to `raise`; the managed runtime's handlers, which
were there before, are external and survive the runtime's own faults.  A thread
may fault while it holds the lock of the log.

### ButtonInput

`actions`, `normalHeld`, `radialHeld`, `claims`, `regions` are those of
`button_manager.c`.  `Poll` is the hook after the game has read its cursors: it
drops claims, makes new ones (up to `MaxClaims`) and computes what is held; a cursor
that somebody else took (`Ignore`) starts none, and without a manager of cursors all
input is cleared (`NoManager`).  `DrawButton`, `DrawGroup` and `Tick` are the hooks of
drawing and ticking.  In between come `SetMode`, `SetScreen`, and what clears input:
`Register` and `Unregister`, both through `refresh_modules`, the editor's hooks
(`EditorClears` for open, restore, paste and defaults, `EditorResets` for undo, redo and the
directory of the store) and `ManagerShutdown`, which is one step with the next
install because nothing is called without the hooks.  All of them are `ClearInput`, but
for `EditorResets`, which lets only the actions go.  A region carries the `multi` flag
its slot had when it was drawn, and a claim takes it from the region.  The loop over claims whose cursor is gone moves the
last claim into the hole but not its `live` flag, so that everything from the
first such claim on is dropped: `DropGone` says so.

### ButtonBindings

`bindings`, `undo`, `redo`, `backup`, `clipboard` are the editor's;
`tmp`, `store`, `saving` the file and the progress of `button_store_save`.  A
file is whole once its lines are written and durable once it is synced; a crash
between leaves a file that may be torn.  EditTimeline is the abstract history:
the states of `undo`, the shown one and those of `redo` backwards are a line.

## 3. Runs

| run | modules and instance | size | shows |
|---|---|---|---|
| `logs` | LogRing: 2 writers with 2 messages, 2 workers, 2 slots, batch 2; KernelLog: 2 writers, queue of 2, buffer of 1, two openings | 212 k states, 2 min | `IInv` of the ring, refinement of LogQueue, delivery; kernel log: order, errors on disk, wake-ups, shutdown |
| `std` | LogPool, 2 slots, batch 2, buffer of 1: one worker with two file loggers, one rotating, 2 writes; two workers with two open loggers, 3 writes to one; HashMap: 3 colliding keys, 2 values, 4 to 8 cells | 82 k states, 2 min | one drainer, the list, nothing lost; messages reach the disk, flush and close end; the table is a map, iteration is complete |
| `core` | Registry: 2 plugins, 2 modules (one an extension pack), 2 modloaders, 6 handles whose values come back; MethodHook: 3 methods, a typed hook, 2 prefixes, 2 postfixes, 4 ids, 2 handles | 536 k states, 1 min | pointers, who has which symbols, no plugin taken from others; hooks, patches, order, dispatch |
| `world` | ContentRegistry, ModSaves, Handshake, PackageFile | 792 k states, 1 min | ids and buffs, whom a tick reaches; loading and replacing saves; who plays on a server; what a package reads as |
| `device` | AudioVoices, CrashHandler, ButtonInput (one finger on two buttons; two fingers on one), ButtonBindings | 107 k states, 2 min | silence after a stop, voices end; reports, faults end; held buttons, one finger on a slot that takes one; undo and store |
| `log_pool_close_race` | LogPool: a file logger and a console logger, 2 workers, 2 writes | violation | finding 1 |
| `kernel_log_late` | 2 writers, one opening | violation | finding 2 |
| `hash_map_full` | 4 keys with homes of their own, 4 cells | violation | finding 3 |
| `hooks_shared` | as `core`, with shared callbacks | violation | finding 4 |
| `voices_stopped` | 1 voice | violation | finding 5 |
| `buff_skipped` | as `world`, one part | violation | finding 6 |
| `save_not_atomic` | as `world`, one part | violation | finding 7 |

More configurations are kept for use by hand.  `LogPool.cfg` with LogPoolMC is the
larger instance of the safety of the pool: a file logger and a console logger, two
workers and three writes at once (3.9 M states, no error).  `VanillaAdmitted.cfg` and
`ListsCut.cfg` with HandshakeMC and `HoleVerified.cfg` with PackageMC find what
section 5 says of them.  `RegistryUsed.cfg` with
RegistryMC finds `CleanedOnlyUnused` violated: removing a modloader asks only the
other modloaders about its plugins, and takes away a plugin that a loaded module
uses.  `ButtonsHeld.cfg` with ButtonInput finds `StaysHeld` violated, which
`test/button_manager_state_test.c:37` asserts of the state alone: whenever a mod
registers or unregisters an action all input is cleared, and when one is disabled or
hidden every other plain button is let go too.

Bounds, and why they are enough:

* Ring: with two slots and four writes every slot is used twice, the ring fills
  up, each producer can be overtaken between any two of its accesses, and the
  claim changes hands in the middle of a backlog.  `Cap >= 2` is required:
  `tl_round_pow2` never returns less, and with one slot the marks of two laps
  would coincide.  The theorems cover all other sizes.
* Pool: the liveness properties need the state graph without symmetry, and two workers
  with two loggers and three messages are too many states for it.  `std` takes the two
  things that can be shared apart.  One worker with two loggers, of which one may fail to
  reopen its file and leaves its lines in the buffer: two messages, so that a batch is
  full and the second does not fit into the buffer, and a buffer is carried from one
  logger to the next (`Within` of StdMC).  Two workers with the messages of
  one logger: three of them, so that a queue of two is full and drops one, and the workers
  take turns in the middle of a backlog and race with the close; the other logger is there
  because the pool grows only when a logger is opened.  Workers are alike, so the same one
  is always the first to start.  The logger that rotates is always opened second, hence
  in front of the other in the list; a worker meets them in both orders, since its passes
  follow each other.  `LogPool.cfg` has both kinds of sharing at once for the safety
  properties, which are also proved.
* Kernel log: two writers meet each other, the thread and the shutdown; a queue
  of two fills up; a buffer of one overflows; two openings let a writer of the
  first meet the queue of the second.
* Registry: sharing of a plugin within a kind and across kinds, a module that
  needs two plugins, one that is removed as an extension; a handle value each.
* Hash map: three keys with a common home, of which two also collide after
  growth, whose probe sequence wraps around.
* Hooks: two ids more than methods, so that a handle is shared, freed,
  and its address used again for another method.
* Content: three handles with the names 2, 1, 1, so that a reload, an insertion
  before and one behind a name occur; two of them are debuffs; two players and two
  places for active buffs, so that the list is full, an entry of the same or another
  player is moved in, and every call comes from inside a callback (85 k states).  By hand,
  with four handles and one player (345 k states) and with three places (532 k), the
  same holds.  At most one prefix fits below the limit.
* Saves: the mods 1 and 3 around the placeholder 2, so that leaving one out
  shifts numbers of the others; one slot, any number of sessions.  The slot is not
  one of those that are checked after loading; the theorem covers those too.
* Network: two peers of fourteen kinds and four kinds of server with one slot, so
  that each peer finds what any other left behind: no kernel, another release,
  another version, more, fewer, other or reordered modules and mods, one twice, one
  beyond the limit of two, one with a long id.
* Package: two contents of one and two blocks, two reserved entries and one
  fingerprint, so that the table fills up, offsets differ and a package is saved
  again with and without a signature (329 k states).  Any write may fail, and any flush.
* Audio: one voice, so that each play reuses a slot with stale fields; one
  looping source and one that ends; two users who stop it at the same time.
  Two voices add only the walk to the next slot; the theorem covers them.
* Crash: two threads and three faults, so that one thread survives a null
  reference, which puts the runtime's handler back, before both crash.
* Buttons: a plain and a radial one, so that either may be the first in the list;
  one finger.  In a part of its own (`touch`) two fingers are on one plain button, with
  room for both claims.
  Bindings: two profiles with one slot, one key, depth two, so that a
  history overflows; slots with parts are covered by the proofs.

`CHECK_DEADLOCK FALSE` is given because the bounds on writes, openings, faults
and ids let every system come to rest, and a dead process stops.

## 4. Fairness

* LogRing: weak fairness of each producer's steps after `BeginWrite` and of each
  worker's steps.  A thread inside `tefstd_log_write` runs on; `tl_worker_main`
  polls without end.  Nobody is obliged to write.  A single worker may lose the
  claim to the other for ever; the property does not depend on who drains.
* LogPool: weak fairness of the owner's steps inside an API call and of each
  worker.  Opening, writing, flushing and closing are free.  Other threads write while
  the owner flushes; a flush has no end of its own while they go on, and `FlushReturns`
  says that it returns under the bound on the writes.  `AwaitIdle` is
  only weakly fair: the spin of close could be starved if workers claimed the
  logger again and again; it is not, because the logger is unlinked and not
  active by then, and this is what `CloseEnds` checks.
* KernelLog: weak fairness of the thread, of the kernel's steps once init or
  cleanup has begun, and of a writer inside push.  There is no fairness for
  `TimeOut`: `CleanupEnds` and `ErrorReachesDisk` hold by the wake-ups alone.
* AudioVoices: the device calls back as long as it runs, and a call of the
  interface that has begun returns.  Nobody is obliged to play or to stop.
* CrashHandler: each thread takes the next step of its handler when it can; a
  thread that waits for the crash mutex or the log's lock cannot.
* ButtonInput: the game goes on ticking and reading its cursors.
* Registry, MethodHook, ContentRegistry, ModSaves, Handshake, PackageFile,
  ButtonBindings: none; nothing is claimed of them that needs it.

## 5. The code against its own words

Each of these is a run that must find the violation; quotations are in
`PROJECT.json`.

1. `log_pool_close_race`: `tefstd_log_close` waits for `busy` and then believes
   to be alone.  A worker that tested `active` earlier can claim the logger
   after the wait, and goes on with freed memory.
2. `kernel_log_late`: `tefkernel_log_write` tests `running` outside the mutex.
   A message pushed after the thread's last look at the queue is freed unwritten
   although cleanup promises to handle what remains; the mutex may be gone too.
3. `hash_map_full`: tombstones are not counted.  When each cell is a tombstone
   or occupied, a put of a new key fails in a table with room, and no later put
   helps.
4. `hooks_shared`: two hooks of one method with the same callback.  Uninstalling
   one removes both callbacks, and frees the handle the other points to.
5. `voices_stopped`: the mixer skips a stopped voice, so it never becomes free as
   the header says.  After 48 stopped voices nothing can be played any more.
6. `buff_skipped`: a buff whose update callback takes it off is replaced by the last
   entry of the list, and the loop goes on behind it: that entry is not ticked in the
   frame, although each active buff is to be called back each frame.
7. `save_not_atomic`: a companion is replaced by removing the old one and renaming the
   new one.  A crash in between leaves only the `.tmp`, which nothing loads, and a failed
   rename removes that too; the header calls it an atomic replacement.

Stated in the modules and false as well, without a run of their own:

* `VanillaIsTurnedAway` of Handshake (`VanillaAdmitted.cfg`): the branch that turns away
  a peer without the kernel ("Vanilla client detected", `netmanager.c:1405`) is behind a
  parser that never gives the answer it waits for; the game, which knows such a peer's
  packet, lets it in.
* `VerifiedReads` of PackageFile (`HoleVerified.cfg`): results of `fseek`, `fflush` and
  `fclose` are not looked at (`tefpkg.c:560`).  Data of an entry that stdio had only
  buffered are lost, a later entry is written behind them, and the file passes
  `verify_pkg`, which is to verify the integrity of the whole package
  (`include/tefpackage/tefpkg.h:259`), with zeros in the place of the first one.
* `StrictComparison` of Handshake (`ListsCut.cfg`): the comparison keeps 512 mods.  A
  peer with further ones is let in, although any difference is to return false
  (`netmanager.c:247`).
* `ReadsOnlyWhatIsFilled` of AudioVoices, the comment of `ready` in
  `audio_manager.c:50`: for a moment a reused slot is active with its old source.
* `ManagedFaultsGoBack` of CrashHandler, the comment above `g_prev_action`: a
  division by zero of managed code has no low address and becomes a crash.
* `CleanedOnlyUnused` of Registry and `StaysHeld` of ButtonInput, in section 3.

## 6. Proofs

All proofs are for arbitrary constants that satisfy the named assumptions of
the module.  They use no lemma without a proof.  The main theorems are listed in
`PROJECT.json`; others, like `KernelTypeCorrect`, `VoiceTypeCorrect`,
`CrashTypeCorrect`, `SavesTypeCorrect` and `NetTypeCorrect`, state the type
invariants.

**LogRing** (`LoggingProofs`; assumptions `CapAssumption`, `BatchAssumption`,
`WritesAssumption`).  Theorems: `RingInvariant`, `RingTypeOK`, `RingNoSlotRace`,
`RingDeliveredInOrder`, `RingProducerOrder`, `RingDropOnlyWhenFull`,
`RingImplementsQueue`.

The invariant `IInv` says where the ring is:

* the window: `Len(out) <= head <= Len(out) + Cap`, and `tail` lags behind
  `Len(out)` only while a worker is between freeing and advancing (`WindowInv`,
  `TailInv`);
* each position of the window is free, reserved, or published with the message
  that reserved it (`SlotInv`).  Slots are positions modulo `Cap`, so the
  lemmas `WindowInjective` and `NextLap` about remainders carry all of the
  reasoning on aliasing;
* a producer that holds a position holds one inside the window whose mark is
  still its own, and no two hold the same (`ProducerInv`, `PlaceInv`);
* the worker's slot stays published until it frees it, and there is one such
  worker (`DrainInv`, `ClaimInv`).

None of the properties is inductive alone.  `DeliveredInOrder` needs that the
slot at `tail` holds the message of that position, which needs that no producer
one lap behind can store into it, which needs that `ppos < Len(out) + Cap` at
the CAS: a producer that compared `seq` long ago and then wins the CAS on an
unchanged `head` still finds its slot free.  That is the point of the algorithm
and the core of `CasKeepsIInv`.

For the refinement, `Ready` is the set of places whose mark is published.
`CasSucceeds` is `TakePlace`, `Publish` is `MarkReady`, `FreeSlot` is `Leave`,
`DropMessage` is `Lose`, and every other step stutters (`StepImplements`).  The
lemma `MarkBehindMeansFull` shows that a mark behind the position, even a stale
one, is seen only when `Cap` places are taken.

**LogPool** (`LogPoolProofs`, `PoolAssumption`).  Theorems `PoolOneDrainer`,
`PoolNothingLost`, `PoolListHoldsOpen`, for any capacity, batch and buffer, CRITICAL
messages that are synced included.  The invariant `PoolInv` has three parts.  `PoolTypes` is
what the proof needs of the types.  `Claims`: a worker that drains has set the
busy flag of its logger, so that the exchange of another one fails.  `Orderly`,
for a file logger without rotation that is not freed: only the worker that is in
its drain loop has lines of it in its batch, and the file, that batch and the
queue, one behind the other, are the accepted messages 1, 2, ...; without such a
worker the file and the queue are.  That a batch is empty of a logger's lines
before the worker leaves it is not inductive by itself, since workers keep their
batch while they drain another logger; it needs that `fp` of the logger holds,
so that the flush before the release writes.  The race of finding 1 is in the
model: the proof shows what survives it, until `UseAfterFree`.  The list is a
matter of its own: `ListInv` says that there is a sequence without repetition of
exactly the listed loggers, of which `phead` is the first and each `pnext` the
next one (`Chain`), up to and including a `Nil`.  Opening puts one in front
(`ChainPush`), and unlinking takes one out wherever it is.  The model's walk along
the list is a recursive function; that it meets each element of the chain is an
induction on the place in it.  `Loggers` must be finite for that, as it is.

**MethodHook** (`CoreProofs`, `MethodHookAssumption`).  Theorems
`HookTypesCorrect`, `OtherHooksStayActive`, `NoFreedClosureRuns`,
`DispatcherRunsAll`, `CallbacksInInstallOrder`, all for `SharedCallbacks = FALSE`: finding 4 shows that the
first is false otherwise.  The invariant `HookInv` is `HandlesMatch` (the map of
methods, the allocated handles and the patches are one relation, read three
ways), `HooksMatch` (each node's handle lives and has its callbacks, and two
nodes of a handle have none in common: this is what makes removal by value
safe) and `FrameMatches` (the vectors the dispatcher iterates begin with what
they held when the stage began, because only hooks of other methods are removed
meanwhile).  `OrderInv` adds that the vectors of a handle are the table of its
hooks by id, each entry its callback or nothing, without the nothings; ids grow
with each installation.  Uninstalling blanks one entry of the table, and since no
other entry has the same callback, taking it out by value is the same.

**Induction** (`InductionProofs`).  The library's induction theorems take an
operator; here a set of numbers stands in its place.  The numbers for which a fact
fails would have a smallest one (`Least`), and `Climb` derives from this that a
set with 0 and closed under successors up to k contains 0..k.  With it,
`Recursion` shows that the equation f[0] = base, f[n] = step[n, f[n-1]] has a
solution, so that a recursive function, which TLA+ defines by CHOOSE, does what it
is written to do.  Every proof about a loop of the code rests on these: `Strip`
(`StripConcat`, `StripRange`, `StripTwice`; LogPool's `Own` and MethodHook's
`RemoveValue` are `Strip`), `Without` (`WithoutPicks`: what is left are elements
of the list, each at most once), the resize of the hash map, `PollAll` of the
buttons, `TotalSize` of a package.

**Registry** (`CoreProofs`; assumption `RegistryAssumption`).  Theorems:
`TypeCorrect`, `Listed`, `NoDangling`, `Bound`, `RefsCover`, `ModuleKeeps`.  The
invariant adds to the properties that what was not tried yet has no library
and no pointers, that closed libraries are not listed, that the list a load
phase fills is empty before it (`Bookkeeping`), and that open users' handles are
listed (`Pointers`).  Both `NoDangling` and `Bound` hold also when handle values come
back.  `Bound` states `StaysBound`: a listed library keeps the symbols of exactly the
plugins that stay loaded, and a new one lacks those of some only if its value is still
listed from a library that was closed, which is the hazard of `tpf_core.c:555` and all
of it: in such a case the library is mistaken for the old one and gets no symbols.
`NothingUnused` shows the other side of
the counters: a listed module's own counter is never 0, so unloading modules
one by one never cleans up any plugin.

**KernelLog** (`LoggingProofs`).  Theorems: `KernelTypeCorrect`,
`KernelInOrder`, `KernelErrorsOnDisk`, `KernelNoLostWakeup`,
`KernelStoppedIsWritten`.  The invariant `KernelIInv` adds to the types: which of
the kernel's and the thread's steps can be simultaneous, and what `running` is
then (`Phases`); that accepted lines are the file, the batch buffer, the taken
list and the queue, in this order, with nothing left half-way when the thread
rests (`Moved`); that within a batch `has_critical` is set if there is an error
behind the last flush, and that there is none between batches (`Flushed`).  `NoLostWakeup` is inductive together with
them, because a push and the signal are one critical section and so is the test
with the wait.  `StoppedIsWritten` is an action property of the step that gives
the queue up: the thread has ended, and it ends only on an empty queue after the
stop.

**HashMap** (`HashMapProofs`, `HashMapAssumption`).  Theorems `TableTypeCorrect`,
`KeysAreFound`, `SizeCountsEntries`, `IterationIsComplete`, `TableImplementsMap`,
for any keys, any hash function without the value 0 and any capacity.  The
invariant `HashInv` says that the table is `Sound`: on the way of the probe
sequence of a key to its entry there is no empty cell and no other entry of it.
This alone is inductive, over stores (`StoreKeepsSound`), tombstones
(`DeleteKeepsSound`) and, by induction on the cells moved, resizes
(`RehashKeepsEntries`), and from it follow the properties: a search finds the key
or tells that it is not there (`SearchDecides`), so that what `get` answers depends
on the set of entries alone (`AnswersAre`), of which put, delete, clear and resize
are the operations of AssocMap or stutters.  `size` counts the occupied cells, and
an iterator owes what is at its place or behind.  A put that finds no place
although there is room (finding 3) is a stutter of the map: what is proved is that
the map never answers wrongly, not that a put succeeds.

**ContentRegistry** (`ContentProofs`, `ContentAssumption`).  Theorems
`ContentTypeCorrect`, `IdsAreNames`, `TickReachesAll`, `BuffsKeepMeaning`, for
any handles, names, base and limit.  `RegistryInv` says that names are distinct
and that, as long as nothing came late, the handle at index k has the id
Base + k - 1 and k - 1 handles of smaller name in the registry; sorting is proved
to establish this from the cardinalities of the sets of smaller names, and a
replacement to keep it.  `TickInv` says that each buff the tick still owes is at
the index it looks at or behind, unless a callback moved one: what the loop itself moves
into a hole comes from behind it, and so does what a callback moves into a hole ahead of
the loop.  That a call takes nothing else off than it names needs that the list has each
buff of a player once.
For `BuffsKeepMeaning`: a reload puts a handle of the same name and id in the
place of the old one, a first registration goes behind all others, where a search
comes last, the numbering runs once, before any handle has an id, and each way of
unregistering takes a name away.

**PackageFile** (`WorldProofs`, `PackageAssumption`).  Theorems
`PackageTypeCorrect`, `EntriesReadBack`.  The invariant `PackageIInv` has two parts.
`Stands` holds whatever fails: entries lie within the data (`TableInv`), the blocks in
memory of each entry are those of its content (`MemoryInv`), and the entry that waits
is behind the others (`WaitInv`).  `Lossless` holds as long as no flush failed
unnoticed: the same of the blocks in the file, with writes under way going behind them
(`FileInv`), and an entry being added has its first blocks written and the others
waiting, in order (`AddInv`).  `DiskInv` is about the file, whoever wrote it: each write goes
on where the file or the write before it ends, and of every sealed table, in the
header on disk or in one about to be written, the blocks that the file has are
right and no waiting write spoils them.  A hash stands for what it is computed
over, in the model: equal hashes mean equal tables and data.

**Handshake** (`WorldProofs`, `NetAssumption`).  Theorem
`NetKernelPeersMatch`, for lists within the limits of the comparison.  `Differs` is about the first partner of each entry; the
lemmas `SameEntries`, `NoDifference` and `EntryCount` show what it is worth: for
lists without a repeated id, no difference and equal lengths mean the same
entries, and conversely.  The invariant `NetIInv` says that a slot's error is one that
the packet of the peer now in it may get, once that packet arrived (`Judged`), and that
whoever is in may have been accepted by the comparison (`LetIn`).  A peer that the game
kicks before its packet arrived is told the error of the peer before; the theorem says
nothing of it, and the code does not reset the error at a disconnect.

**ModSaves** (`WorldProofs`, `SavesAssumption`).  Theorems `SavesLoadRestores`,
`SavesEndWhole`.  The lemmas `RankInjective` and `Numbering` say that names and
numbers of a session are in bijection, from the cardinality of the sets of smaller
names; that is why the set of mods must be finite.  The invariant: a companion
in sync holds, for each slot with something of a mod, the name `truth` has there,
and the game's file holds the numbers of the rest.  While a save is under way the
companion is the old one until it is removed, and from then on the temporary file is
complete; so a save ends with the old file, the complete new one, or, from the step
between remove and rename alone, with none (finding 7).

**The world side by side** (`WorldProofs`).  `WorldIsTyped` states `WorldInv` of
`WorldSpec`: a step of WorldMC is a step of one of its four modules and a stutter
of the others, so the conjunction of their invariants is inductive.

**AudioVoices** (`DeviceProofs`, `AudioAssumption`).  Theorem `VoiceSilent`:
between `PassFlags` and `PassMix` of a slot in `quiet`, something must have taken
it out of `quiet`, because the flags were seen clear after the pass began.

**CrashHandler** (`DeviceProofs`, `CrashAssumption`).  Theorem
`CrashReported`: the log is closed only after a report, and `raise` and the
default disposition come only after the close, so that a thread that finds the
default in place finds a report.

**ButtonBindings** (`DeviceProofs`, `BindingsAssumption`).  Theorems
`BindingsSafe`, `StoreIsSafe`, `BindingsImplementTimeline`.  The invariant `BIInv`
is types, `HistoryFits` (undo and redo together never exceed the depth, so a redo
never drops a state) and `FilesHold` (the file under its name is whole and synced
and holds the last finished save; the temporary one is whole, and synced, by the
step that needs it).  `BindingsSafe` states all three, the file that the next start
would read included.
The refinement shows that snapshots, changes, undo and redo are moves on a line;
the lemmas are about `Reverse`, `Append` and `Tail`.

**ButtonInput** (`DeviceProofs`, `InputAssumption`).  Theorems `InputTypeCorrect`,
`HeldUnderFinger`, `OneFingerHolds`, for any actions, fingers and number of claims.
`HeldIsTouched` is not inductive: drawing a radial group computes `held` anew from
`normal_held`, which goes by index, long after the poll that filled it.  `PlainHeld` is
what is missing: an index that counts as held is that of an action, and a finger is on
that action's button.  Registering and unregistering change the list, and keep this
because they clear all input (`ClearInput`), `normal_held` included; disabling clears it
too.  A poll is followed cursor by cursor (`PollCursorIs`, `PollAllIs`): what it marks as
held is under a finger of this poll.  `OneFinger` is kept by the same walk: a new claim
on a slot that takes one is cancelled at birth if the button is occupied, no claim comes
back to life, and cutting the list only takes claims away.
`DeviceIsTyped`
states `DeviceInv` of `DeviceSpec`, as in the world.

## 7. Limits

Only model-checked: the type invariant of LogPool, and the liveness properties
(`EventuallyDelivered`, `CloseEnds`, `EventuallyOnDisk`, `FlushReturns`, `CleanupEnds`,
`ErrorReachesDisk`, `PlaysToTheEnd`, `FaultsEnd`, `NotStuck`), which are out of the
prover's reach.  Every other property of a passing run is the statement of a
theorem, for all values of the constants.  The induction theorems of the library
cannot be used with the provers at hand; each recursive function therefore has its
own induction by `Least`, `Climb` and `Recursion`.

Left out of the modelled components:

* logs: formatting, levels, time stamps, file names, the race of two first calls
  of `tefstd_log_open` (the pool starts in one step), positions of 32 bits;
* Registry: mods, API calls made after start, symbol names shared by two plugins;
* HashMap: keys whose hash is 0, failing malloc;
* MethodHook: failures of malloc, closure and Dobby, and a callback that
  uninstalls hooks of its own method, where the code's behaviour is undefined;
* ContentRegistry: the game's arrays, textures, accessories, drawing;
* ModSaves: the segment of active buffs, container layouts;
* Handshake: the layout of the packet and its limit of 1 MB, messages of mods, tile synchronisation.
  Modules and modloaders are compared by the same code; modules stand for both;
* PackageFile: extraction, opening from memory and `verify_signature`, which
  change nothing; compression is external;
* AudioVoices: registering and unregistering sources, volume, pitch, samples;
* CrashHandler: the text of the report, the ring of crumbs, the Windows filter;
* ButtonInput: a group that is not ready when it is drawn, an install that fails, more
  than one entry of the radial list for one key with the same
  age, the edges "pressed" and "released", images, scrolling, native ids;
* ButtonBindings: failing allocation, native ids.

`DrainAndFree` and `Rehash` are one action each: the first is done by a thread
that should be alone (finding 1 is about exactly this), the second is sequential
code.  Undefined behaviour ends a model (`corrupt`) or is recorded and stepped
over (`undefined` in KernelLog, closed libraries that are read in Registry); each
module says which at its head.

Not modelled, and why:

* Mods, recipes, language, assets, GUI and the main loop: sequential code that
  runs once in the game's own phases and fills tables; what is wrong there is
  order (section 1) or ownership of memory, not an interleaving.
* Runtime packages and hot reload: nothing in the repository starts the reload
  thread or calls the cleanup, so there is no schedule to model.
* In-memory loader, patchlib wrappers, Android and desktop start-up: thin calls
  into the system or the game's runtime, or bootstrap in other languages; what
  they race with is not in the repository.
* Compression and hashing: pure byte algorithms without state.
* Vendored code: miniaudio, libffi with dlmalloc, and LZ4 make up more than half
  of the lines of the tree, and generated lists of the game's constants much of
  the rest; none of it is this project's logic.

## 8. What is left

* A violation run for the early return of `tefstd_log_flush` (`log.c:605`), the
  one batch of close (`log.c:590`) and foreign lines in a file (`log.c:312`); all
  three are in LogPool's actions.
* CrashHandler composed with KernelLog: cleanup of the log from a handler on the
  log's own thread.
* Registering and unregistering of sources in AudioVoices; LogRing over positions
  modulo a small power of two.
