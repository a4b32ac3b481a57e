# clientplugin in TLA+

Models of `clientplugin`, a plugin for a Source-engine game client. The plugin
diverts functions of the game with the Gum interceptor, finds those functions
by symbol, byte signature or virtual table, and hands the diverted calls to a
list of small modules. The specifications say what the plugin does to the game
over its life: what is diverted when, what a game thread meets when it runs into
a diverted function, what is left behind. Paths below are relative to the
repository.

## 1. Inventory

The repository has no tests and no prose documentation; what the code says of
itself is in its comments. `src/guifont.hpp` (a font, 7,357 lines) and
`src/modules/telemetrystubs.hpp` (declarations of an interface) hold no logic, and
`external/` holds submodules.

| Component | State | Operations | Hard behaviour | What makes it correct |
|---|---|---|---|---|
| Plugin life: `plugin.cpp`, `interfaces.cpp` | module manager, `g_ClientClasses`, `g_Interceptor`; names in the console | `Load`, `Unload` | errors half-way; a second life in the same process; order of destruction | all hooks in after `Load`, none after `Unload` or a failed `Load`; the console knows every command that exists, and forgets those that do not before the engine runs again |
| Module manager: `modules/modules.*` | `g_ModuleList`, the vector of modules, the overlay | constructor, destructor | unwinding when a module constructor throws | the overlay outlives no module that it draws |
| Hook layer: `hook/hook.hpp`, `hook/gum/*` | hook objects, GObject references, vectors of listeners, gum's transaction and tables | attach, detach, replace, revert; `on_hit`, `on_enter`, `on_leave` | game threads run into hooks that are being built or destroyed, and are still in them when they are gone; raw pointers; an exception inside a transaction | a diverted function leads to an allocated hook object; one at a time at most is incomplete, and none outside `Load` and `Unload` |
| Graphics overlay: `modules/gfxoverlay.*` | own GL context, flag that it was made | handler of `SDL_GL_SwapWindow`, constructor, destructor | the context is made on the first frame; detaching while a frame is drawn | it draws with a context that it made and has not deleted |
| Profiler: `modules/profiler.cpp` | table of contexts in the game's memory, level state, reader-writer mutex; per thread: observed state, stack of zones | tick, enter, leave, overlay text | the game reads the table without a lock; scopes straddle a change of level; contexts outlive the module | zones match the scopes that are open; the table agrees with the state; calls return |
| Virtual table scan: `offsets/rtti.cpp` | two coroutines: seen and previous typeinfo, current list | find candidates, filter, group | constructor tables; references inside typeinfo | entry 0 of a class is its primary table; subtables are kept in order |
| Offset cache: `offsets/offsets.*` | list of offsets, maps of libraries, tables and ranges | `init_offsets` with four workers, `get_address` of four kinds | tasks share maps by base name; exceptions in tasks; waiting for all | every offset is cached from its own library before it is used |
| Exception frames: `offsets/eh_frame.*`, `util/data_view.hpp` | a cursor in memory | read CIE, read FDE, skip padding | lengths that lead out of the section or wrap, encodings | each FDE once, the cursor stays on records and never goes back |
| Client classes: `offsets/clientclasses.*` | map from class and property to an offset | flatten tables, look up, dump | recursion through coroutines; names that come twice | offsets of nested tables add up; no value is lost or misnamed |
| Generator: `util/generator.hpp` | coroutine, promise with a variant of results | begin, next, read, equal | an exception kept until the range is tested; ownership of the handle | every yielded value is read once, an exception is not lost |
| Range checker: `util/data_range_checker.hpp` | a bitmap of 150 Mi addresses above a base | add, test | bounds | true exactly for the added addresses |
| Mediguns: `modules/mediguns.cpp` | one charge value | enter, leave | nested and concurrent calls share it | the value printed belongs to the call |
| Navigation files: `modules/nav_workshop_fix.cpp` | two path buffers | clean a name, read with fallbacks | files come and go between the reads; a function that returns its input and leaves the buffer alone | no file passed over for a worse one; the fallback asks for the cleaned map |
| Small modules: `allow_login_nosteam`, `cleaverbug`, `notification`, `partychat`, `unhidecvars` | a hook or a command each | handlers without state | none beyond their hooks | those of the hook layer |
| Code patcher: `hook/gum/x86patcher.*` | saved bytes | patch, restore | nothing uses it | restores what it patched |
| `util/loaded_module.*`, `util/mmap.*`, `util/leb128.hpp`, `util/error.hpp`, `util/hexdump.hpp`, `util/timedscope.hpp` | | I/O, vendored code, formatting | | |

How they interact: the engine calls `Load` on its main thread. `Load` makes the
interceptor, connects the interfaces (which makes the static ConVars known),
caches every offset (exception frames, virtual tables and signatures of every
library, on worker threads), builds the client-class map, and builds the modules,
whose members are hooks and console commands; last comes the overlay, which keeps a
pointer to the vector of modules. From then on the game's threads enter the plugin
through the hooks. `Unload` takes it all down again in the order overlay, modules,
client classes, interfaces, interceptor.

The hazards, each with its line and the properties that watch it, are in
`PROJECT.json`.

## 2. Modules

| Module | Models |
|---|---|
| `Interceptor` | the hook layer: `hook/hook.hpp`, `hook/gum/interceptor.cpp`, `objectwrapper.hpp`, and the threads that run through hooked functions. It has actions and no `Next`; `Plugin` schedules it. |
| `Plugin` | EXTENDS `Interceptor`: `Load`, `Unload`, `ModuleManager`, the overlay's context, the console's names. |
| `HookContract` | the abstract specification: which functions are diverted, which threads are in the plugin, and which of those are late, seen from the game. `Plugin` implements it. |
| `MCPlugin` | the instance of `Plugin`: all the hooks and commands of the plugin. |
| `PluginProofs` | theorems about `Plugin`. |
| `Telemetry`, `MCTelemetry` | `modules/profiler.cpp` in its telemetry mode, with the game's threads; a main thread that ticks and a worker whose scopes nest. |
| `TelemetryProofs` | theorems about `Telemetry`. |
| `VtableScan`, `MCVtableScan` | `locate_vftables`, `get_vtables_from_module` and the insertion into the map of tables; the symmetry of its classes. |
| `VtableScanProofs` | theorems about `VtableScan`. |
| `OffsetsInit`, `MCOffsetsInit` | `init_offsets` with its snapshot, tasks, workers and wait group, and `cache_address` of every kind of offset; an instance with libraries that share a name. |
| `OffsetsInitProofs` | theorems about `OffsetsInit`. |
| `EhFrame`, `MCEhFrame` | `eh_frame.cpp` as coroutines inside coroutines, with `util/generator.hpp` and the pointers of `util/data_view.hpp`; all small sections. |
| `RangeStream` | the abstract specification of a stream of values that ends or fails. `EhFrame` implements it. |
| `EhFrameProofs` | theorems about `EhFrame`. |
| `NavWorkshop`, `MCNavWorkshop` | `nav_workshop_fix.cpp`: `GetCleanMapName` and the three reads; maps with names of every form. |
| `NavWorkshopProofs` | theorems about `NavWorkshop`. |
| `ClientClasses` | `offsets/clientclasses.cpp`: `parse_tbl` as any number of coroutines, each inside another, and the map they fill. |
| `FlatClasses` | EXTENDS `ClientClasses`: what the map should hold, defined without coroutines. |
| `MediGuns`, `MCMediGuns` | EXTENDS `FlatClasses`: `modules/mediguns.cpp`, from its look-up to its two handlers; all small tables. |
| `ClientClassesProofs`, `MediGunsProofs` | theorems about `ClientClasses` and `MediGuns`. |

### Plugin and Interceptor

A hook object is one value of `object`, which goes through the phases of a C++
object with bases: the listener base (GObject made), attached by the second
base, complete, callback destroyed, detached, freed. The steps between phases are
actions, because a game thread can call the hooked function between any two of them.
`refs` counts what the plugin holds of each GObject; `listeners` is the union of
the interceptor's two vectors, from which nothing is ever removed; `attached`,
`active` and `transaction` are gum's: `active` are the functions whose calls are
diverted at this moment, which is settled when the outermost transaction ends.
Gum is not part of the repository; `Activated` is modelled from how `attach` and
`~Interceptor` bracket their calls.

The main thread's `pc` follows the statements of `Load` and `Unload`; `todo` is the
set of parts still to be built, destroyed or detached, and the order is a matter
of guards: `ConstructedBefore` (position in `g_ModuleList`, then the order of a
constructor's statements) and `DestroyedBefore` (the overlay or the module that
threw first, then the vector from the front, then members in reverse order of
declaration). `firstOut` says which module goes first. Every place that throws is
an action: `InitOffsetsThrows`, `ConstructThrows` (attach, replace, or a missing
property of `MediGunsMod`), followed by the unwinding that C++ does and by
`pc = "threw"`, where the model stops following the main thread because what the
engine does with an exception is not known.

A thread is in the game, in a handler, in the hooked function, or in `on_leave`.
`fault` records an access to an object that is not there or not complete; the
behaviour ends at that point, because C++ promises nothing after it. A read of a
freed hook object by `~Interceptor` may find the old pointer (then the detach does
nothing new) or not (then `fault`).

Nothing waits for a thread that is inside a handler when its hook is destroyed: `DropCallback` puts it into
`overtaken`. What such a thread goes on to touch (the closure of a `std::function`, the wrapper it returns into, for a frame
the overlay and its vector of modules) is freed, so from then on it may get through (`HandlerReturns`, `OverlayDraw`) or
lose the process (`LeaveFreedHandler`), at any time later, with the plugin out or loaded again. `overtaken` is
what `HookContract` calls `late`: calls that are late are the only ones that can lose the process while
`Load` and `Unload` do not run.

### Telemetry

Every thread has a `pc` with one value for each point where it waits for the mutex,
holds it, or has released it. A scope is a number, its depth; a zone remembers the depth of
the scope it was begun for and the level state its thread had observed, which the code
does not store and which only the properties read. The engine's level and the ConVar
change between any two ticks. The table of contexts is written slot by slot and read by
the game without the mutex. `Destroy` leaves the table as it is, so calls go on while
the module is absent, and the assignment of the level state in the constructor,
which takes no lock, is two steps.

A leave may come without an enter: the module is told of scopes only from its making on, and those open then are left
later (`Left` counts down to 0 and no further). Such a leave inside a scope that the module was told of is not in the model; that the
game leaves a scope through the context by which it entered it is an assumption about the game.

Taken from the code's comment at `profiler.cpp:147` ("POTENTIALLY VERSION SPECIFIC
HACK") and not from the game: the end of a scope whose name begins with "Wait" is not
announced.

### VtableScan

Memory is a sequence of words in the order of addresses, each with the place it
lies in and the class whose typeinfo it points to. The initial states are all such
memories up to a bound, the specification is deterministic after that. `Candidate`
says which words are in front of a table (the two passes over the candidates);
`Examine` is one round of the filter loop together with what the consumer does with
the value. A class stands for its typeinfo and for its name: two typeinfo objects with
one name, which the map would merge, are left out.

### OffsetsInit

`modules` is the snapshot that `dl_iterate_phdr` fills, by path. `cleaned` and
`tables` are the results, by base name, as in the code: of libraries with one base name the
first keeps the range, and each class stays with the library that inserted it first.
An address is represented by the library it was got from, which is what `get_address` can get wrong: the library whose symbols, table or bytes
were asked. (What a table entry or a symbol points to may lie in another library, and the code does not look.)
A task is queued, pushes ranges, scans, has inserted its tables, and is done;
the steps are separate because the tasks of the pool and the main thread's loop interleave in them.
`count` is the wait group.

The game loads a library at any time and unloads one only outside `init_offsets` (a
library that goes while it is scanned is outside what the code can handle). A
symbol is found by `dlopen`, whose handle is never closed: `pinned`. An exception in a task leaves
marl's fiber, and the process is terminated; two tasks of one base name that push or insert
at the same time are a data race. Both end the behaviour (`fault`), and the properties
speak of the behaviours that go on. Every exception of
`get_address` and `cache_address` ends in `pc = "threw"`, which `Plugin` takes up as `InitOffsetsThrows`.

### EhFrame

A section is a sequence of records at their offsets, with the encodings that decide what is read: a pointer
has a format, which says how many bytes it takes or that it cannot be decoded, and an application, of which the code
knows one. `at` says
which of the three runs: the consumer's loop, `get_eh_frame_ranges`, or `handle_eh_frame` inside it.
A promise holds nothing, an exception, or the range of a record: `innerResult` and
`outerResult`. `data_ptr` and `next_record_address` are the code's, from the start of the
section. `CheckRecord` is the end of a round of the loop: the test for reading past the record, and
the alignment. `Forwarded`, `Passed` and `DestroyFrames` are what `Generator` does with values,
exceptions and frames; the body of the consumer's loop may throw (`add_range`).

`Stream` is the instance of `RangeStream` that the consumer sees: `Offered`, the readable FDEs up to the first
faulty record, and `Faulty`, whether there is such a record. The section decides both, so the stream is fixed before the first value is
asked for. A faulty record's own range is offered if it could be read, as the check comes after `co_yield`.

A section is what the reader meets: a record wherever the one before it ends, until four bytes or less are left (`SectionAssumption`). The
length of a record is any number of 32 bits. `Space` is the number of addresses and `Base` the one the section starts at, so
a length may lead out of the section, and past the last address back to the front; the code adds it unchecked and compares the cursor
with the end of the record afterwards, and so does the model. What a record holds may be anything, including what the reader refuses: CIEs out of
reach (`cie` 0), numbers in LEB128 of more than 64 bits (`fits`, `leb`), unknown versions, formats and letters.

Two things are left out. A record that ends in the last three bytes of all memory, from where the alignment leads to
address 0; a library is not mapped there. And memory that is not mapped: what a record with a long
length makes the reader touch is taken to be readable.

### NavWorkshop

A name is a sequence of tokens ("maps/", "workshop\\", ".ugc"), which is all that `GetCleanMapName` tells apart. The
three reads of one search are the actions `TryMod`, `TryClean` and `TryEmbed`; each finds its file and ends the
search or goes on to the next. Other programs and the engine's mounts add and remove files at any time; `steady` are those that were there
all through the search, about which the search can be held to something. `cleaned_map_name` is on the stack and not
initialized: a search begins with any of `Leftover` in it.

### ClientClasses and MediGuns

`frames` is the row of coroutines from the table of the class in progress down to the one that is innermost;
`control` is the one that runs, and 0 is the constructor's loop. A value is yielded by the innermost and passed on by every one around it,
with a name and an offset added at each step (`PassOn`); the call for the next value goes down the
same way and is one action with the insertion (`Insert`), because nothing else happens on the way. Destroying a finished coroutine and
moving its owner on are `EndTable`.

`FlatClasses` says the same thing by routes: a route is a way from a class's table to a value, and `Flat(l, n)` gives each name in the first `n`
classes of the layout `l` the sum along the last of its routes. `Flattened` compares the two each time a class is done with. It is meant for
tables that are not in themselves, however deep (`NestingAssumption`): `parse_tbl` has no test for one that is, and would go on into it until its
memory is used up, so the game's tables cannot be of that kind. `ClientClasses` itself assumes nothing of it.

`MediGuns` takes the map on: its constructor looks the charge up, or throws, and each call
of `FindAndHealTargets` puts a charge into the one member and prints it on leaving. Calls overlap freely; `before` and `alone`
are history that only the property reads.

## 3. Runs

| Run | Shows |
|---|---|
| `plugin` | With every hook and command of the plugin, and a second thread that calls the hooked functions at any time of `Load` and `Unload`: diverted functions lead to allocated hooks, of which one at most is incomplete, and none outside `Load` and `Unload`; frames find complete modules and a context of their own until the overlay's hook is destroyed; `Load` diverts all, `Unload` and a failed `Load` leave none; the console follows the commands; recorded listeners keep a reference; and all of it implements `HookContract`, with its liveness. |
| `telemetry` | Two levels, the setting, and nested scopes on a worker: the table agrees with the state between ticks; the state is stable under readers; zones belong to the innermost scopes and to one level state, also when scopes are left that the module never saw entered; every call into the module returns. |
| `vtables` | All memories of up to five words, with functions and a typeinfo object in them: lists of one class in order, the primary table first, subtables kept, and only the last class missing. |
| `offsets_init` | Loads of the plugin one after the other while libraries come and go: no lookup before all results are there; addresses got from libraries of the declared name, nothing left of an earlier load; symbols stay valid; `init_offsets` ends. |
| `eh_frame` | Every section of up to three records, through both coroutines, with lengths that are short, unaligned, too long or wrap: the cursor stays on records, ranges arrive once and in order, no exception is lost, and all of it implements `RangeStream`, which ends. |
| `nav_search` | Searches one after the other while files come and go: the result and the caller's flag tell what was read, and no file that stayed is passed over for a worse one. |
| `client_classes` | Every small set of tables: the values in the coroutines add up, the map is what the tables should be flattened to, the module finds the charge or throws, and a call that no other overlaps prints its own gun's charges. |

Five runs end in a violation, each of something that a comment says of the code:

| Run | Comment | What the code does |
|---|---|---|
| `load_throws` | `plugin.cpp:22-23` "Return false if there is an error during startup." | an error leaves `Load` as an exception |
| `cleanup_freed` | `plugin.cpp:141-143` detaching is "to cleanup loose hooks" | `~Interceptor` goes over listeners that are freed, not loose |
| `frame_context` | `gfxoverlay.cpp:116-117` "Do this AFTER we detach to avoid it being called with a deleted context" | detaching does not wait for a frame in progress, whose context is deleted while it draws |
| `vtables_constructor` | `rtti.cpp:162` "Avoid constructor vftables while keeping normal consecutive subtables" | the second of two adjacent constructor tables of a class is kept |
| `nav_unclean` | `nav_workshop_fix.cpp:74-75` "fallback to "maps/<clean map name>.nav" file in BSP" | for a map that is not of the workshop nothing writes the clean name, and the fallback asks for what is in the buffer |

Some things the code does are in the model and have no run of their own. A hook is attached before it is complete and detached after its callback
is gone, and a call that starts in between loses the process (`EnterHalfBuilt`); `OneHookExposed` bounds the window and does not say it is
closed. A call that is overtaken may do the same. After a `Load` that failed, the console keeps the names of
commands that the unwinding has destroyed, and `ConsoleFollowsCommands` says where it may. And `DeleteContext` deletes the
overlay's context also when no frame ever made one, because the destructor does.

### Bounds

- `plugin` and `frame_context` bound only the threads: two, the one that loads and one that calls while it does so. That is enough for a call to be in any place while any
  hook is in any phase. (The main thread is not in a handler when it calls `Load` or `Unload`.) The other constants are the plugin's own hooks.
  Modules appear in one order of `g_ModuleList` (the order depends on the link); the theorems of section 5 hold for every order and any threads.
- `telemetry`: `MaxDepth` (scopes open on a thread) is 2 for the worker, so that a scope has an enclosing one, and 0 for the main
  thread, which ticks, draws and destroys and neither enters nor leaves scopes; that it may do so itself is covered by the theorems, which hold for any `MaxDepth`.
  Two threads, of which one ticks, are enough for a reader and the writer; two levels for a slot that must be cleared.
- `MaxWords` is 5 in `vtables`: with three classes a class can come, go, come back twice and be ended by another
  (A B A A C), which is what it takes to enter a class twice. Only one class has a typeinfo object there; the
  others are symmetric to it. `vtables_constructor` needs no places and goes to 6.
- `offsets_init`: two libraries with the base name `client`, for the results that are shared; one alone, for
  those that are not; one that the snapshot leaves out. Two workers and three tasks, so that one waits. One offset of each
  kind. Nothing bounds the number of loads, unloads and calls of `init_offsets`.
- `eh_frame`: `MaxRecords` is 3, so that an FDE has a CIE before it, behind it, or
  refers to itself or another FDE, and a value is followed by another or by an error. Shapes cover every letter of an
  augmentation, pointers of every size and one that is malformed, encodings that are handled and not, records one byte too short and
  long enough, lengths that need padding, and sections with and without padding at the end. `Space` is 256 and `Base` 64,
  with room for three records and lengths far beyond them; the last record may lead out of the section or around memory. One CIE of a section may be odd (too short, unreadable, or with
  another encoding); with several, the first the reader comes to ends the loop, or the FDEs depend on one of them each.
- `nav_search`, `nav_unclean`: six maps, one for each way `GetCleanMapName` goes (both prefixes with both separators, with an id and without, and a map
  outside the workshop); six files, the ones that the three reads of some of them ask for, in both places; two contents of the
  buffer. Names are shorter than the buffers, which are longer than the engine's own limit. Nothing bounds the number of searches.
- `client_classes`: three tables of up to two properties (one in the innermost), nested up to three deep, 819 sets of them, with a name that
  comes up to three times, empty tables, and a table that is in another one twice; two classes that share a
  table. No table is in itself, and TLC evaluates `NestingAssumption` for all of them. Two guns, two calls in progress and two charges are enough for one call to
  leave its value to another.

Deadlock is not checked for the plugin and `init_offsets`, which really stop after an exception or a
fault, nor for the scan and the reader of frames, which end, nor for `client_classes`, where the module's constructor may
throw. It is checked for the profiler and the search for files.

### Fairness

- `Plugin`: `WF_vars(fault = "none" /\ LifeStep)`. `Load` and `Unload` are straight-line code on a thread that the
  system schedules; they wait for nobody. The engine need not call them, so
  `StartLoad` and `StartUnload` are not fair, and no game thread is. The contract's own fairness, which says that what it has begun goes on, is
  what needs it.
- `Telemetry`: a thread inside the module is scheduled (`WF` of `Inside`, `TickStep`, `FinishConstruct`).
  `SF` of `ReadLock`: the platform's `std::shared_mutex` is a
  `pthread_rwlock_t` of the default kind, which prefers readers, so a reader that waits gets the lock when
  the writer releases it although the same writer may come back. Nothing is assumed for the writer.
- `OffsetsInit`: `WF` of the main thread's steps and of the tasks' steps: the pool's threads are
  scheduled, and a task waits for nobody. The game need not do anything.
- `EhFrame`: `WF_vars(Next)`; straight-line code of one thread. `VtableScan`, `NavWorkshop` and `MediGuns` state no liveness
  and assume none.
- `RangeStream` says `StreamEnds` itself and no fairness: a stream is at its end at some time, whoever runs it.

## 4. Mutants

Each module holds, next to an action, the forms it would take after a plausible
mistake ("Mutant of ..."): `end_transaction` forgotten, a destructor that detaches
nothing, modules destroyed before the overlay, a shared lock in the tick, a zone
kept across a level change, `seen_typeinfo` updated before the test, a wait group
that is counted down twice, an exception that stays in a promise, the offset of an enclosing table forgotten. They are not
part of the specification. `PROJECT.json` pairs each of them with the property that
breaks when it takes the place of the action.

## 5. Proofs

All theorems are for every value of the constants that meets the module's `ASSUME`,
with no bound on threads, hooks, levels, nesting or memory.

- `PluginProofs`. All invariants of `plugin`, for any modules, orders and threads: `TypeOK`, `DispatchSafe`, `OneExposed`, `OverlaySafe`,
  `ContextSafe`, `LoadComplete`, `NothingLeft`, `ConsoleSafe`, `ListenersReferenced`; and `ImplementsContract`, the step simulation of
  `HookContract`, with threads in the handlers of hooks that are destroyed.
  The properties are not inductive: that no freed hook is diverted needs to know
  that `attached` is exactly the set of hooks in the three middle phases, that a part in `todo` while things are built
  has not been touched unless it is the next, that what is not in `todo` while things
  are destroyed is gone, that destruction follows the order, and that the transaction is closed except
  after a failed attach or inside `~Interceptor`. The invariant is the conjunction of
  these, one named part each, and is preserved action by action.

  Two theorems are the safety half of the contract's progress, that `Load` and `Unload` end, for any finite set of parts (a program has finitely many objects; the runs'
  sets are finite, the module itself does not ask for it). `NeverHalfWay`: whatever is left to construct, destroy or detach, it is some part's turn
  (the first of `todo` in its order exists because the set is finite, `FirstOf`) and that part is in a phase in which it can go on
  (`Going`). `LifeBounded`: `WorkLeft`, a natural number, falls with each step of `Load` or `Unload` after the first, and the
  game's threads leave it alone. It counts the stages ahead and, for each part in `todo`, the phases it has before it (`Ahead`).
- `TelemetryProofs`. `TypeOK`, `ZonesMatchScopes`, `ZonesOfOneLevel`, `TableAgrees`, `StableUnderReaders`. The
  invariant adds who holds the mutex (`Lock`: readers are exactly the threads at
  reading points, and a writer is alone) and how far the tick has written the table
  (`Ticking`).
- `VtableScanProofs`. All five invariants of the run. The invariant says what the filter
  remembers of the candidates before it (`Memory`), that the classes seen are those in
  the map and the one being collected, and that a list not yet in the map is
  `Ordered` and `Complete` as far as the scan has come (`Collected`). That a dropped table is
  never a consecutive subtable follows from the candidate that `prev_typeinfo` names.
- `OffsetsInitProofs`. All four invariants of the run. The wait group is the heart of it: `Waited` says
  that while tasks are scheduled `count` is the number of libraries of the snapshot that are not done, so that 0 means
  all are. `Entered` says what each stage of a task has left in the results, `CachedSoFar`
  that the offsets before `next` come from this load, `Pinned` that a cached symbol
  lies in a library that is held. `NeverStuck` says that nobody waits for ever in the pool or the wait group, with any number of workers;
  `WorkBounded` that each step of `init_offsets` and its tasks makes `WorkLeft` smaller and the game's steps do not change it.
- `EhFrameProofs`. All four invariants of the run, and `ImplementsStream`, the step simulation of `RangeStream`: only the
  consumer's steps are seen in it, and at each of them `Stage` says which range or which end is due. The invariant (`Stage`) is a disjunction, one disjunct for
  each place control can be in, with what is known there of the cursor, of the two results and of
  the ranges taken so far. `Layout`, from the assumption on sections, says that
  records do not overlap, and `NextAddress` where the cursor goes at the end of one: to the next record, behind the last one, or, if the length wraps, nowhere,
  because the reader has then read past the record and throws. `ReaderStops` bounds the reader by the
  size of the section: each step lowers twice the bytes not yet read plus whose turn it is (`StepsLeft`), for any records and any lengths that the assumption
  admits, those that lead out of the section or around memory among them.

- `NavWorkshopProofs`. All three invariants of the run. `Progress` says what is known in front of each read: the files tried so far are not
  steady, and the buffer holds the clean name if the map is of the workshop. `WithoutIdType` shows that the first ".ugc" exists whenever
  it is chosen.
- `ClientClassesProofs`. First what holds of tables that are in themselves too: `TypeOK`, `ResultsAddUp`, and `NothingInvented`: each entry of the
  map is backed by a row of properties, one inside the other, whose names and offsets it adds up. `Linked` is the part that makes it
  inductive: the coroutine inside another runs for the table that the outer one is at. When a value has come up, the row of frames is itself
  the row of properties that backs it.

  Then, under `NestingAssumption`, the other half: `FlattensRight`, the action property `Flattened`, that no value is lost and that of those
  with one name the last stays; and `RecursionBounded`. The row of coroutines is a place in the tables (`Pos(frames)`),
  and `MapRight` says that at any time the map is made of exactly the routes that are before that place (`Behind`), each name with the offset of the last
  of them (`MapOf`). Opening a table, yielding and passing on move no route across the place. When a value comes up, the row is a route itself
  (`RowIsRoute`, from `Linked` and `ResultsAddUp`), it is the only one to fall behind, and it is later than all that are behind already (`MapGrows`), so
  `Stored` may overwrite. When a table ends, all that was in it is behind already. With no row left, what is behind is
  all of the classes before the next (`MapBetween`), and `MapOf` fixes the map (`MapIsFlat`). The lemmas about routes say that
  the order is total on the routes of a table (`PrecedesTotal`: none is the beginning of another), that there are finitely many (`RoutesFinite`: a
  route falls in level at each step, `Descend`), and so that each name has exactly one last route (`LastExists`, `LastUnique`). What `RouteOffset` computes is shown
  to be the only sum (`SumUnique`) by a least counterexample (`Least`, from the library's well-foundedness of the numbers), as is every
  other induction there: the prover has no use for the induction theorems that take a predicate.
- `MediGunsProofs`. All of the run `client_classes`: `OwnCharge`, the action property `PrintsOwnCharge`, for any guns and calls; `FindsOffset`, that the look-up gives the
  offset the tables give the charge, from `MapBetween` at the time the module is made; `ModuleTypeCorrect`; and `BuildsClasses`, that
  the module with its classes and calls implements `ClassSpec`, which carries `FlattensRight` over to it.

Every invariant and every action property of the passing runs is proved. Only model-checked: the liveness properties (`CallsReturn`,
`InitEnds`, `StreamEnds`, the fairness of `HookContract`), since the prover does not reason about fairness and `ENABLED`; and the five
violations, which are of small instances by their nature. What needs no fairness is proved of `HookContract` (`NeverHalfWay`, `LifeBounded`), of `InitEnds`
(`NeverStuck`, `WorkBounded`) and of `StreamEnds` (`ReaderStops`): the work is bounded and, in the first two, somebody can always do some of
it. That a step that can be taken is taken in the end stays with TLC. Nothing of the kind is
proved of `CallsReturn`: a call takes three steps, and whether it gets the first of them, the mutex, is only a matter of fairness, since
other threads may take it any number of times before.

## 6. Not modelled, and why

Gum, the SDK, SDL, ImGui, Tracy, ELFIO and marl are outside the repository and
appear only as what the plugin's calls do. What the overlay draws, what is printed,
and the frame of each handler that only passes values to the engine are left out.
That the engine may unmap the plugin itself after `Unload`, with a thread still in it, is the engine's doing and not in the model.
`LoadedModule` and `mmap` are I/O. The LEB128 decoder comes from LLVM. The VProf
mode of the profiler is compiled out.

Of the offset cache, signatures are matched or not, without the bytes; the extent of a library and its
segments are left out; `ManualOffset` is not used by any module. Of the exception frames, the values of pointers
and of the lengths of functions are left out, and the parts of a CIE that are only read over. The range checker is a
set in effect (a bitmap over a span that throws outside it) and appears only as the
body that may throw. Of the virtual tables, the reading of relocations and the size of a typeinfo object are inputs.

`X86Patcher` is not used by any module: there is no order of calls to model it under. The remaining small modules
(`allow_login_nosteam`, `cleaverbug`, `notification`, `partychat`, `unhidecvars`) keep no state; their hooks and commands are in `Plugin`.
Most of what is left of the source is data (the font), declarations (the telemetry interface), and callbacks that return at once.

## 7. Plan

1. `OffsetsInit` with the scan of `VtableScan` and the stream of `RangeStream` in place of the constant `Defines`, on one library, so
   that an exception of the reader reaches the pool's task.
2. `X86Patcher`, once something in the plugin uses it.
3. `FramesKeepTheirContext` as a property of the run `plugin`, and an empty `late` in `HookContract`, if the code comes to wait for
   handlers in progress before it frees their hooks.
