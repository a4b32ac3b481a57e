------------------------------ MODULE OffsetsInit ------------------------------
(***************************************************************************)
(* init_offsets (offsets/offsets.cpp): every load of the plugin takes a    *)
(* snapshot of the loaded libraries, scans each in a task of its own on a  *)
(* pool of workers, waits for all of them, and then caches the address of  *)
(* every offset of g_offset_list.                                          *)
(*                                                                         *)
(* The snapshot is by path, the results are by base name: libraries with   *)
(* the same base name share them.  An address is represented by the        *)
(* library it was obtained from: the one that was searched, whose table    *)
(* was read, or that dlopen found.  A table entry or a symbol may well     *)
(* lead on into another library, which is not followed.  VtableScan models *)
(* what the scan of one library finds; here it is the constant Defines.    *)
(***************************************************************************)
EXTENDS Integers, Sequences, FiniteSets

CONSTANTS
  Library,    \* libraries, by path
  Skipped,    \* those dl_iterate_phdr's callback leaves out
  Name,       \* base names
  BaseName,   \* the base name of each library
  Class,      \* classes with virtual tables
  Defines,    \* the classes whose tables the scan of each library finds
  List,       \* g_offset_list
  Workers,    \* size of the pool
  None        \* no library

Kind == {"offset", "signature", "vtable", "symbol"}

ASSUME InitAssumption ==
  /\ IsFiniteSet(Library) /\ Skipped \subseteq Library /\ None \notin Library
  /\ BaseName \in [Library -> Name]
  /\ Defines \in [Library -> SUBSET Class]
  /\ List \in Seq([kind : Kind, name : Name, class : Class])
  /\ Workers \in Nat \ {0}

VARIABLES
  loaded,     \* libraries in the process
  pinned,     \* libraries that dlopen has taken a reference of
  pc,         \* where the main thread is
  modules,    \* snapshot of the libraries to scan
  cleaned,    \* cleaned_modules: the library whose range goes by a name
  tables,     \* module_vtables: for each name, the library of each class
  task,       \* the task of each library
  count,      \* what the wait group still waits for
  next,       \* the offset to cache next
  cached,     \* the library that cached_address of each offset was got from
  fault       \* how the process was lost, if it was

scanVars == <<modules, cleaned, tables, task, count>>
cacheVars == <<pinned, next, cached>>
vars == <<loaded, pc, scanVars, cacheVars, fault>>

Position == 1..Len(List)
Running == {l \in Library : task[l] \in {"pushing", "scanning", "inserted"}}

TypeOK ==
  /\ loaded \subseteq Library /\ pinned \subseteq Library
  /\ pc \in {"game", "scheduling", "caching", "ready", "threw"}
  /\ modules \subseteq Library
  /\ cleaned \in [Name -> Library \cup {None}]
  /\ tables \in [Name -> [Class -> Library \cup {None}]]
  /\ task \in [Library -> {"none", "queued", "pushing", "scanning", "inserted", "done"}]
  /\ count \in Nat
  /\ next \in 1..(Len(List) + 1)
  /\ cached \in [Position -> Library \cup {None}]
  /\ fault \in {"none", "race", "terminated"}

Init ==
  /\ loaded \in SUBSET Library
  /\ pinned = {}
  /\ pc = "game"
  /\ modules = {}
  /\ cleaned = [n \in Name |-> None]
  /\ tables = [n \in Name |-> [c \in Class |-> None]]
  /\ task = [l \in Library |-> "none"]
  /\ count = 0
  /\ next = 1
  /\ cached = [i \in Position |-> None]
  /\ fault = "none"

-----------------------------------------------------------------------------
(* The game.                                                               *)

\* Any thread may load a library at any time.
GameLoads(l) ==
  /\ l \notin loaded
  /\ loaded' = loaded \cup {l}
  /\ UNCHANGED <<pc, scanVars, cacheVars, fault>>

\* A library goes when nobody holds it, and not while it may be scanned.
GameUnloads(l) ==
  /\ pc \in {"game", "ready"}
  /\ l \in loaded \ pinned
  /\ loaded' = loaded \ {l}
  /\ UNCHANGED <<pc, scanVars, cacheVars, fault>>

-----------------------------------------------------------------------------
(* The main thread.                                                        *)

\* Mutant of GroupSize: the libraries that are left out are counted as well.
GroupSizeAll == Cardinality(loaded)

\* The wait group counts the libraries of the snapshot.
GroupSize == Cardinality(loaded \ Skipped)

\* dl_iterate_phdr fills the snapshot; results and wait group are local.
Start ==
  /\ pc \in {"game", "ready"}
  /\ pc' = "scheduling"
  /\ modules' = loaded \ Skipped
  /\ cleaned' = [n \in Name |-> None]
  /\ tables' = [n \in Name |-> [c \in Class |-> None]]
  /\ task' = [l \in Library |-> "none"]
  /\ count' = GroupSize
  /\ UNCHANGED <<loaded, cacheVars, fault>>

\* One round of the loop over the snapshot; of libraries with one base name
\* the first keeps the range.
Schedule(l) ==
  /\ pc = "scheduling"
  /\ l \in modules /\ task[l] = "none"
  /\ task' = [task EXCEPT ![l] = "queued"]
  /\ cleaned' = [cleaned EXCEPT ![BaseName[l]] = IF @ = None THEN l ELSE @]
  /\ UNCHANGED <<loaded, pc, modules, tables, count, cacheVars, fault>>

\* Mutant of AllDone: nobody waits.
NotWaited == TRUE

\* What wg.wait() waits for.
AllDone == count = 0

\* All tasks are scheduled, and wg.wait() returns.
WaitReturns ==
  /\ pc = "scheduling"
  /\ \A l \in modules : task[l] # "none"
  /\ AllDone
  /\ pc' = "caching"
  /\ next' = 1
  /\ UNCHANGED <<loaded, scanVars, pinned, cached, fault>>

\* The library that get_address gets the address of offset i from, by its
\* kind; dlopen finds any library of the name.
Found(i, l) ==
  LET o == List[i] IN
  CASE o.kind \in {"offset", "signature"} -> l = cleaned[o.name]
    [] o.kind = "vtable" -> l = tables[o.name][o.class]
    [] o.kind = "symbol" -> l \in loaded /\ BaseName[l] = o.name

\* Mutant of Resolves: an offset that has an address is not looked up again.
ResolvesOnce(i, l) == IF cached[i] # None THEN l = cached[i] ELSE Found(i, l)

\* cache_address looks every offset up anew.
Resolves(i, l) == Found(i, l)

\* Mutant of Pins: the handle is closed again.
PinsNothing(i, l) == pinned

\* dlopen takes a reference that nothing gives back.
Pins(i, l) == IF List[i].kind = "symbol" THEN pinned \cup {l} ELSE pinned

\* cache_address of the next offset.
CacheAddress ==
  /\ pc = "caching" /\ next \in Position
  /\ \E l \in Library :
       /\ Resolves(next, l)
       /\ cached' = [cached EXCEPT ![next] = l]
       /\ pinned' = Pins(next, l)
  /\ next' = next + 1
  /\ UNCHANGED <<loaded, pc, scanVars, fault>>

\* get_address throws: no library, no such class or entry, no match of the
\* signature, no such symbol in a library that dlopen has found.
GetAddressThrows ==
  /\ pc = "caching" /\ next \in Position
  /\ List[next].kind = "offset" => ~\E l \in Library : Resolves(next, l)
  /\ \/ pinned' = pinned
     \/ \E l \in Library : Resolves(next, l) /\ pinned' = Pins(next, l)
  /\ pc' = "threw"
  /\ UNCHANGED <<loaded, scanVars, next, cached, fault>>

\* cache_address throws after storing the null entry of a table.
CacheNull ==
  /\ pc = "caching" /\ next \in Position
  /\ List[next].kind = "vtable" /\ \E l \in Library : Resolves(next, l)
  /\ cached' = [cached EXCEPT ![next] = None]
  /\ pc' = "threw"
  /\ UNCHANGED <<loaded, scanVars, pinned, next, fault>>

FinishInit ==
  /\ pc = "caching" /\ next \notin Position
  /\ pc' = "ready"
  /\ UNCHANGED <<loaded, scanVars, cacheVars, fault>>

-----------------------------------------------------------------------------
(* The tasks.                                                              *)

\* A free worker takes a task and begins to push the ranges of functions.
Take(l) ==
  /\ task[l] = "queued" /\ Cardinality(Running) < Workers
  /\ task' = [task EXCEPT ![l] = "pushing"]
  /\ UNCHANGED <<loaded, pc, modules, cleaned, tables, count, cacheVars, fault>>

\* All ranges are pushed, and the scan for tables begins.
Scan(l) ==
  /\ task[l] = "pushing"
  /\ task' = [task EXCEPT ![l] = "scanning"]
  /\ UNCHANGED <<loaded, pc, modules, cleaned, tables, count, cacheVars, fault>>

\* The tables found are inserted; a class that is there stays as it is.
Insert(l) ==
  /\ task[l] = "scanning"
  /\ task' = [task EXCEPT ![l] = "inserted"]
  /\ tables' = [tables EXCEPT ![BaseName[l]] =
                  [c \in Class |-> IF @[c] = None /\ c \in Defines[l] THEN l ELSE @[c]]]
  /\ UNCHANGED <<loaded, pc, modules, cleaned, count, cacheVars, fault>>

\* Mutant of Done: wg.done() at the end of the task and deferred as well.
DoneTwice(l) ==
  /\ task[l] = "inserted"
  /\ task' = [task EXCEPT ![l] = "done"]
  /\ count' = count - 2
  /\ UNCHANGED <<loaded, pc, modules, cleaned, tables, cacheVars, fault>>

\* The deferred wg.done().
Done(l) ==
  /\ task[l] = "inserted"
  /\ task' = [task EXCEPT ![l] = "done"]
  /\ count' = count - 1
  /\ UNCHANGED <<loaded, pc, modules, cleaned, tables, cacheVars, fault>>

\* An error while a library is read is thrown out of the task, where nothing
\* catches it: the process is terminated.
TaskThrows(l) ==
  /\ task[l] \in {"pushing", "scanning"}
  /\ fault' = "terminated"
  /\ UNCHANGED <<loaded, pc, scanVars, cacheVars>>

\* Two tasks push into the list of one name, or insert into its map, without
\* a lock: what may happen other than one after the other is anything.
Race(l, k) ==
  /\ l # k /\ BaseName[l] = BaseName[k]
  /\ task[l] = task[k] /\ task[l] \in {"pushing", "scanning"}
  /\ fault' = "race"
  /\ UNCHANGED <<loaded, pc, scanVars, cacheVars>>

-----------------------------------------------------------------------------
GameStep == \E l \in Library : GameLoads(l) \/ GameUnloads(l)

InitStep ==
  \/ \E l \in Library : Schedule(l)
  \/ WaitReturns \/ CacheAddress \/ GetAddressThrows \/ CacheNull \/ FinishInit

TaskStep ==
  \/ \E l \in Library : Take(l) \/ Scan(l) \/ Insert(l) \/ Done(l) \/ TaskThrows(l)
  \/ \E l, k \in Library : Race(l, k)

\* A lost process takes no step, and after an exception Load is over.
Next ==
  /\ fault = "none"
  /\ pc # "threw"
  /\ GameStep \/ Start \/ InitStep \/ TaskStep

\* The main thread inside init_offsets and the workers are scheduled.
Fairness ==
  /\ WF_vars(fault = "none" /\ InitStep)
  /\ WF_vars(fault = "none" /\ TaskStep)

Spec == Init /\ [][Next]_vars /\ Fairness

-----------------------------------------------------------------------------
(* Properties.                                                             *)

\* No other scanned library has the base name of l.
Alone(l) == \A k \in modules : BaseName[k] = BaseName[l] => k = l

\* When addresses are looked up, no task is left that could still write, no
\* library and no class is missing from the results, and a library that has
\* its base name to itself finds there exactly what its own scan found.
ResultsComplete ==
  pc \in {"caching", "ready", "threw"} =>
    \A l \in modules :
      /\ task[l] = "done"
      /\ cleaned[BaseName[l]] # None
      /\ \A c \in Defines[l] : tables[BaseName[l]][c] # None
      /\ Alone(l) =>
           /\ cleaned[BaseName[l]] = l
           /\ tables[BaseName[l]] = [c \in Class |-> IF c \in Defines[l] THEN l ELSE None]

\* After init_offsets every offset has an address that was got from a library
\* of the name it was declared with, and nothing is left of an earlier load:
\* except for a symbol, which dlopen finds by itself, the library was scanned
\* just now.
CachedFromOwn ==
  pc = "ready" =>
    \A i \in Position :
      /\ cached[i] # None /\ BaseName[cached[i]] = List[i].name
      /\ List[i].kind # "symbol" => cached[i] \in modules

\* The address of a symbol stays valid, whatever the game unloads later and
\* even when a later load of the plugin fails.
SymbolsStay ==
  \A i \in Position :
    List[i].kind = "symbol" /\ cached[i] # None => cached[i] \in loaded

\* init_offsets ends: everything is cached, it throws, or the process is lost.
InitEnds == pc = "scheduling" ~> (pc \in {"ready", "threw"} \/ fault # "none")
=============================================================================
