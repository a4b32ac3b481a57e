--------------------------- MODULE OffsetsInitProofs ---------------------------
(***************************************************************************)
(* Proofs about OffsetsInit, for any libraries, offsets and workers.       *)
(***************************************************************************)
EXTENDS OffsetsInit, FiniteSetTheorems, SequenceTheorems, TLAPS

Unfinished == {l \in modules : task[l] # "done"}

\* What the wait group counts, and what it means that wait() has returned.
Waited ==
  /\ count = Cardinality(Unfinished)
  /\ \A l \in Library : task[l] # "none" => l \in modules
  /\ pc \in {"caching", "ready", "threw"} => Unfinished = {}

\* What the tasks and the loop that schedules them have entered so far.
Entered ==
  /\ \A n \in Name : cleaned[n] # None =>
       cleaned[n] \in modules /\ BaseName[cleaned[n]] = n
  /\ \A l \in Library : task[l] # "none" => cleaned[BaseName[l]] # None
  /\ \A n \in Name, c \in Class : tables[n][c] # None =>
       /\ tables[n][c] \in modules /\ BaseName[tables[n][c]] = n
       /\ c \in Defines[tables[n][c]]
  /\ \A l \in Library : task[l] \in {"inserted", "done"} =>
       \A c \in Defines[l] : tables[BaseName[l]][c] # None

\* CachedFromOwn for one offset, and where a symbol is.
OwnAddress(i) ==
  /\ cached[i] # None /\ BaseName[cached[i]] = List[i].name
  /\ cached[i] \in IF List[i].kind = "symbol" THEN pinned ELSE modules

\* How far the offsets are cached.
CachedSoFar ==
  /\ pc = "caching" => \A i \in Position : i < next => OwnAddress(i)
  /\ pc = "ready" => \A i \in Position : OwnAddress(i)

\* Symbols are in libraries that the plugin keeps.
Pinned ==
  /\ pinned \subseteq loaded
  /\ \A i \in Position :
       List[i].kind = "symbol" /\ cached[i] # None => cached[i] \in pinned

IInv == TypeOK /\ Waited /\ Entered /\ CachedSoFar /\ Pinned

LEMMA ListTypes ==
  ASSUME NEW i \in Position
  PROVE  /\ List[i].kind \in Kind
         /\ List[i].name \in Name
         /\ List[i].class \in Class
<1>1. List[i] \in [kind : Kind, name : Name, class : Class]
  BY InitAssumption, ElementOfSeq DEF Position
<1> QED  BY <1>1

LEMMA InitIInv == Init => IInv
<1> SUFFICES ASSUME Init  PROVE IInv
  OBVIOUS
<1> USE InitAssumption
<1>1. TypeOK
  <2>1. Len(List) \in Nat
    OBVIOUS
  <2> QED  BY <2>1 DEF Init, TypeOK
<1>2. Unfinished = {} /\ Cardinality({}) = 0
  BY FS_EmptySet DEF Init, Unfinished
<1>3. Waited
  BY <1>2 DEF Init, Waited
<1>4. Entered /\ CachedSoFar /\ Pinned
  BY DEF Init, Entered, CachedSoFar, Pinned
<1> QED  BY <1>1, <1>3, <1>4 DEF IInv

-----------------------------------------------------------------------------
(* Every step preserves the invariant.                                     *)

LEMMA GamePreserves ==
  ASSUME IInv, NEW l \in Library, GameLoads(l) \/ GameUnloads(l)
  PROVE  IInv'
<1> USE InitAssumption DEF scanVars, cacheVars
<1>1. UNCHANGED <<pc, scanVars, cacheVars, fault>>
  BY DEF GameLoads, GameUnloads
<1>2. loaded' \subseteq Library /\ pinned \subseteq loaded'
  BY DEF GameLoads, GameUnloads, IInv, TypeOK, Pinned
<1>3. TypeOK' /\ Waited' /\ Entered' /\ Pinned'
  BY <1>1, <1>2 DEF IInv, TypeOK, Waited, Unfinished, Entered, Pinned
<1>4. CachedSoFar'
  BY <1>1 DEF IInv, CachedSoFar, OwnAddress
<1> QED  BY <1>3, <1>4 DEF IInv

LEMMA StartPreserves ==
  ASSUME IInv, Start
  PROVE  IInv'
<1> USE InitAssumption DEF Start, cacheVars
<1>1. Unfinished' = modules' /\ IsFiniteSet(modules')
  <2>1. IsFiniteSet(modules')
    BY FS_Subset DEF IInv, TypeOK
  <2> QED  BY <2>1 DEF Unfinished, IInv, TypeOK
<1>2. Waited'
  BY <1>1 DEF Waited, GroupSize
<1>3. TypeOK'
  BY <1>1, FS_CardinalityType DEF IInv, TypeOK, GroupSize
<1>4. Entered' /\ CachedSoFar' /\ Pinned'
  BY DEF IInv, TypeOK, Entered, CachedSoFar, Pinned
<1> QED  BY <1>2, <1>3, <1>4 DEF IInv

LEMMA SchedulePreserves ==
  ASSUME IInv, NEW l \in Library, Schedule(l)
  PROVE  IInv'
<1> USE InitAssumption DEF Schedule, cacheVars
<1>1. TypeOK'
  BY DEF IInv, TypeOK
<1>2. Unfinished' = Unfinished
  BY DEF Unfinished, IInv, TypeOK
<1>3. Waited'
  BY <1>2 DEF IInv, TypeOK, Waited
<1>4. Entered'
  <2>1. \A n \in Name :
          cleaned'[n] = IF n = BaseName[l] /\ cleaned[n] = None THEN l ELSE cleaned[n]
    BY DEF IInv, TypeOK
  <2>2. \A k \in Library : task'[k] = IF k = l THEN "queued" ELSE task[k]
    BY DEF IInv, TypeOK
  <2>3. \A n \in Name : cleaned'[n] # None => cleaned'[n] \in modules /\ BaseName[cleaned'[n]] = n
    BY <2>1 DEF IInv, Entered
  <2>4. \A k \in Library : task'[k] # "none" => cleaned'[BaseName[k]] # None
    BY <2>1, <2>2 DEF IInv, Entered
  <2> QED  BY <2>2, <2>3, <2>4 DEF IInv, Entered
<1>5. CachedSoFar' /\ Pinned'
  BY DEF IInv, CachedSoFar, Pinned
<1> QED  BY <1>1, <1>3, <1>4, <1>5 DEF IInv

\* count = 0 only when no task is left.
LEMMA WaitPreserves ==
  ASSUME IInv, WaitReturns
  PROVE  IInv'
<1> USE InitAssumption DEF WaitReturns, AllDone, scanVars
<1>1. Unfinished = {}
  <2>1. IsFiniteSet(Unfinished)
    <3>1. Unfinished \in SUBSET Library
      BY DEF Unfinished, IInv, TypeOK
    <3> QED  BY <3>1, FS_Subset
  <2>2. Cardinality(Unfinished) = 0
    BY DEF IInv, Waited
  <2> QED  BY <2>1, <2>2, FS_EmptySet
<1>2. TypeOK'
  BY DEF IInv, TypeOK
<1>3. Waited'
  BY <1>1 DEF IInv, Waited, Unfinished
<1>4. Entered' /\ Pinned'
  BY DEF IInv, Entered, Pinned
<1>5. CachedSoFar'
  BY DEF CachedSoFar, Position
<1> QED  BY <1>2, <1>3, <1>4, <1>5 DEF IInv

\* What get_address finds belongs to the name of the offset.
LEMMA ResolvesOwn ==
  ASSUME IInv, NEW i \in Position, NEW l \in Library, Resolves(i, l)
  PROVE  /\ BaseName[l] = List[i].name
         /\ List[i].kind = "symbol" => l \in loaded
         /\ List[i].kind # "symbol" => l \in modules
<1> USE InitAssumption, ListTypes DEF IInv, TypeOK, Entered, Kind
<1>1. CASE List[i].kind \in {"offset", "signature"}
  <2>1. l = cleaned[List[i].name]
    BY <1>1 DEF Resolves, Found
  <2> QED  BY <1>1, <2>1
<1>2. CASE List[i].kind = "vtable"
  BY <1>2 DEF Resolves, Found
<1>3. CASE List[i].kind = "symbol"
  BY <1>3 DEF Resolves, Found
<1> QED  BY <1>1, <1>2, <1>3

\* Caching an offset, or failing to, disturbs no other offset.
LEMMA CachePreserves ==
  ASSUME IInv, CacheAddress \/ GetAddressThrows \/ CacheNull \/ FinishInit
  PROVE  IInv'
<1> USE InitAssumption DEF scanVars
<1>1. CASE CacheAddress
  <2>1. PICK l \in Library :
          /\ Resolves(next, l)
          /\ cached' = [cached EXCEPT ![next] = l]
          /\ pinned' = Pins(next, l)
    BY <1>1 DEF CacheAddress
  <2>2. /\ next \in Position /\ pc = "caching" /\ next' = next + 1
        /\ UNCHANGED <<loaded, pc, modules, cleaned, tables, task, count, fault>>
    BY <1>1 DEF CacheAddress
  <2>3. /\ BaseName[l] = List[next].name
        /\ List[next].kind = "symbol" => l \in loaded
        /\ List[next].kind # "symbol" => l \in modules
    BY <2>1, <2>2, ResolvesOwn
  <2>4. pinned \subseteq pinned' /\ pinned' \subseteq loaded
    BY <2>1, <2>3 DEF Pins, IInv, Pinned
  <2>5. List[next].kind = "symbol" => l \in pinned'
    BY <2>1 DEF Pins
  <2>6. cached'[next] = l /\ \A i \in Position \ {next} : cached'[i] = cached[i]
    BY <2>1, <2>2 DEF IInv, TypeOK
  <2>7. TypeOK'
    BY <2>1, <2>2, <2>4 DEF IInv, TypeOK, Position
  <2>8. Waited' /\ Entered'
    BY <2>2 DEF IInv, Waited, Unfinished, Entered
  <2>9. CachedSoFar'
    <3>1. \A i \in Position : i < next + 1 => OwnAddress(i)'
      <4> SUFFICES ASSUME NEW i \in Position, i < next + 1  PROVE OwnAddress(i)'
        OBVIOUS
      <4>1. CASE i = next
        BY <4>1, <2>2, <2>3, <2>5, <2>6 DEF OwnAddress
      <4>2. CASE i # next
        <5>1. i < next
          BY <4>2, <2>2 DEF Position
        <5>2. OwnAddress(i)
          BY <5>1, <2>2 DEF IInv, CachedSoFar
        <5> QED  BY <4>2, <5>2, <2>2, <2>4, <2>6 DEF OwnAddress
      <4> QED  BY <4>1, <4>2
    <3> QED  BY <3>1, <2>2 DEF CachedSoFar
  <2>10. Pinned'
    BY <2>2, <2>4, <2>5, <2>6 DEF IInv, Pinned
  <2> QED  BY <2>7, <2>8, <2>9, <2>10 DEF IInv
<1>2. CASE GetAddressThrows
  <2> USE <1>2
  <2>1. pinned \subseteq pinned' /\ pinned' \subseteq loaded
    <3>1. CASE pinned' = pinned
      BY <3>1 DEF IInv, Pinned
    <3>2. CASE \E l \in Library : Resolves(next, l) /\ pinned' = Pins(next, l)
      BY <3>2, ResolvesOwn DEF Pins, IInv, Pinned, GetAddressThrows
    <3> QED  BY <3>1, <3>2 DEF GetAddressThrows
  <2>2. TypeOK'
    BY <2>1 DEF GetAddressThrows, IInv, TypeOK
  <2>3. Waited' /\ Entered' /\ CachedSoFar'
    BY DEF GetAddressThrows, IInv, Waited, Unfinished, Entered, CachedSoFar
  <2>4. Pinned'
    BY <2>1 DEF GetAddressThrows, IInv, Pinned
  <2> QED  BY <2>2, <2>3, <2>4 DEF IInv
<1>3. CASE CacheNull
  <2> USE <1>3
  <2>1. TypeOK'
    BY DEF CacheNull, IInv, TypeOK
  <2>2. Waited' /\ Entered' /\ CachedSoFar'
    BY DEF CacheNull, IInv, Waited, Unfinished, Entered, CachedSoFar
  <2>3. Pinned'
    BY DEF CacheNull, IInv, TypeOK, Pinned
  <2> QED  BY <2>1, <2>2, <2>3 DEF IInv
<1>4. CASE FinishInit
  <2> USE <1>4 DEF FinishInit, cacheVars
  <2>1. TypeOK' /\ Waited' /\ Entered' /\ Pinned'
    BY DEF IInv, TypeOK, Waited, Unfinished, Entered, Pinned
  <2>2. \A i \in Position : OwnAddress(i)
    BY DEF IInv, TypeOK, CachedSoFar, Position
  <2>3. CachedSoFar'
    BY <2>2 DEF CachedSoFar, OwnAddress
  <2> QED  BY <2>1, <2>3 DEF IInv
<1> QED  BY <1>1, <1>2, <1>3, <1>4

\* The steps of a task before it is done leave the wait group alone.
LEMMA TaskPreserves ==
  ASSUME IInv, NEW l \in Library, Take(l) \/ Scan(l) \/ Insert(l)
  PROVE  IInv'
<1> USE InitAssumption DEF cacheVars
<1>1. /\ UNCHANGED <<loaded, pc, modules, cleaned, count, pinned, next, cached, fault>>
      /\ task[l] \in {"queued", "pushing", "scanning"}
      /\ \E s \in {"pushing", "scanning", "inserted"} : task' = [task EXCEPT ![l] = s]
  BY DEF Take, Scan, Insert
<1>2. Unfinished' = Unfinished
  BY <1>1 DEF Unfinished, IInv, TypeOK
<1>3. Waited'
  BY <1>1, <1>2 DEF Waited, IInv, TypeOK
<1>4. CachedSoFar' /\ Pinned'
  BY <1>1 DEF IInv, CachedSoFar, OwnAddress, Pinned
<1>5. TypeOK'
  <2>1. tables' \in [Name -> [Class -> Library \cup {None}]]
    <3>1. CASE Insert(l)
      <4> DEFINE row == [c \in Class |-> IF tables[BaseName[l]][c] = None /\ c \in Defines[l]
                                         THEN l ELSE tables[BaseName[l]][c]]
      <4>1. row \in [Class -> Library \cup {None}]
        BY DEF IInv, TypeOK
      <4>2. tables' = [tables EXCEPT ![BaseName[l]] = row]
        BY <3>1 DEF Insert
      <4> QED  BY <4>1, <4>2 DEF IInv, TypeOK
    <3>2. CASE Take(l) \/ Scan(l)
      BY <3>2 DEF Take, Scan, IInv, TypeOK
    <3> QED  BY <3>1, <3>2
  <2>2. task' \in [Library -> {"none", "queued", "pushing", "scanning", "inserted", "done"}]
    BY <1>1 DEF IInv, TypeOK
  <2> QED  BY <1>1, <2>1, <2>2 DEF IInv, TypeOK
<1>6. Entered'
  <2>1. CASE Take(l) \/ Scan(l)
    <3>1. /\ UNCHANGED tables /\ task[l] # "none"
          /\ \A k \in Library : k # l => task'[k] = task[k]
          /\ task'[l] \in {"pushing", "scanning"}
      BY <2>1 DEF Take, Scan, IInv, TypeOK
    <3> QED  BY <1>1, <3>1 DEF IInv, Entered
  <2>2. CASE Insert(l)
    <3>1. l \in modules
      BY <2>2 DEF Insert, IInv, Waited
    <3>2. \A n \in Name, c \in Class :
            tables'[n][c] = IF n = BaseName[l] /\ tables[n][c] = None /\ c \in Defines[l]
                            THEN l ELSE tables[n][c]
      BY <2>2 DEF Insert, IInv, TypeOK
    <3>3. \A k \in Library : task'[k] = IF k = l THEN "inserted" ELSE task[k]
      BY <2>2 DEF Insert, IInv, TypeOK
    <3>4. \A k \in Library : k # l /\ task[k] \in {"inserted", "done"} =>
            \A c \in Defines[k] : tables'[BaseName[k]][c] # None
      BY <3>2 DEF IInv, Entered
    <3>5. \A c \in Defines[l] : tables'[BaseName[l]][c] # None
      BY <3>2
    <3>6. \A n \in Name, c \in Class : tables'[n][c] # None =>
            /\ tables'[n][c] \in modules /\ BaseName[tables'[n][c]] = n
            /\ c \in Defines[tables'[n][c]]
      BY <3>1, <3>2 DEF IInv, Entered
    <3> QED  BY <2>2, <1>1, <3>3, <3>4, <3>5, <3>6 DEF IInv, Entered
  <2> QED  BY <2>1, <2>2
<1> QED  BY <1>3, <1>4, <1>5, <1>6 DEF IInv

\* wg.done() takes one task from those the group counts.
LEMMA DonePreserves ==
  ASSUME IInv, NEW l \in Library, Done(l)
  PROVE  IInv'
<1> USE InitAssumption DEF Done, cacheVars
<1>1. l \in Unfinished /\ IsFiniteSet(Unfinished) /\ Unfinished' = Unfinished \ {l}
  <2>1. l \in Unfinished /\ Unfinished' = Unfinished \ {l}
    BY DEF Unfinished, IInv, TypeOK, Waited
  <2>2. Unfinished \in SUBSET Library
    BY DEF Unfinished, IInv, TypeOK
  <2> QED  BY <2>1, <2>2, FS_Subset
<1>2. count' = Cardinality(Unfinished') /\ count' \in Nat
  <2>1. Cardinality(Unfinished') = Cardinality(Unfinished) - 1
    BY <1>1, FS_RemoveElement
  <2>2. IsFiniteSet(Unfinished')
    BY <1>1, FS_RemoveElement
  <2>3. Cardinality(Unfinished') \in Nat
    BY <2>2, FS_CardinalityType
  <2> QED  BY <2>1, <2>3 DEF IInv, Waited
<1>3. TypeOK'
  BY <1>2 DEF IInv, TypeOK
<1>4. Waited'
  BY <1>1, <1>2 DEF IInv, TypeOK, Waited
<1>5. Entered'
  BY DEF IInv, TypeOK, Entered
<1>6. CachedSoFar' /\ Pinned'
  BY DEF IInv, CachedSoFar, OwnAddress, Pinned
<1> QED  BY <1>3, <1>4, <1>5, <1>6 DEF IInv

\* A process that is lost keeps its state.
LEMMA LossPreserves ==
  ASSUME IInv, fault' \in {"race", "terminated"},
         UNCHANGED <<loaded, pc, scanVars, cacheVars>>
  PROVE  IInv'
<1> USE DEF scanVars, cacheVars
<1>1. TypeOK' /\ Waited' /\ Entered' /\ Pinned'
  BY DEF IInv, TypeOK, Waited, Unfinished, Entered, Pinned
<1>2. CachedSoFar'
  BY DEF IInv, CachedSoFar, OwnAddress
<1> QED  BY <1>1, <1>2 DEF IInv

LEMMA StepIInv == IInv /\ [Next]_vars => IInv'
<1> SUFFICES ASSUME IInv, [Next]_vars  PROVE IInv'
  OBVIOUS
<1>1. CASE GameStep
  BY <1>1, GamePreserves DEF GameStep
<1>2. CASE Start
  BY <1>2, StartPreserves
<1>3. CASE InitStep
  BY <1>3, SchedulePreserves, WaitPreserves, CachePreserves DEF InitStep
<1>4. CASE TaskStep
  <2>1. CASE \E l \in Library : Take(l) \/ Scan(l) \/ Insert(l)
    BY <2>1, TaskPreserves
  <2>2. CASE \E l \in Library : Done(l)
    BY <2>2, DonePreserves
  <2>3. CASE \/ \E l \in Library : TaskThrows(l)
             \/ \E l, k \in Library : Race(l, k)
    BY <2>3, LossPreserves DEF TaskThrows, Race
  <2> QED  BY <1>4, <2>1, <2>2, <2>3 DEF TaskStep
<1>5. CASE UNCHANGED vars
  <2> USE <1>5 DEF vars, scanVars, cacheVars
  <2>1. TypeOK' /\ Waited' /\ Entered' /\ Pinned'
    BY DEF IInv, TypeOK, Waited, Unfinished, Entered, Pinned
  <2>2. CachedSoFar'
    BY DEF IInv, CachedSoFar, OwnAddress
  <2> QED  BY <2>1, <2>2 DEF IInv
<1> QED  BY <1>1, <1>2, <1>3, <1>4, <1>5 DEF Next

LEMMA Inductive == Spec => []IInv
BY InitIInv, StepIInv, PTL DEF Spec

-----------------------------------------------------------------------------
(* Theorems.                                                               *)

\* init_offsets keeps its types; above all, the wait group never counts
\* below zero.
THEOREM TypeCorrect == Spec => []TypeOK
<1>1. IInv => TypeOK
  BY DEF IInv
<1> QED  BY <1>1, Inductive, PTL

\* When wait() has returned, all tasks are done and their results are there.
THEOREM NothingMissing == Spec => []ResultsComplete
<1>1. IInv => ResultsComplete
  <2> SUFFICES ASSUME IInv, pc \in {"caching", "ready", "threw"}, NEW l \in modules
               PROVE  /\ task[l] = "done"
                      /\ cleaned[BaseName[l]] # None
                      /\ \A c \in Defines[l] : tables[BaseName[l]][c] # None
                      /\ Alone(l) =>
                           /\ cleaned[BaseName[l]] = l
                           /\ tables[BaseName[l]] =
                                [c \in Class |-> IF c \in Defines[l] THEN l ELSE None]
    BY DEF ResultsComplete
  <2> USE InitAssumption
  <2>1. l \in Library /\ BaseName[l] \in Name /\ Defines[l] \subseteq Class
    BY DEF IInv, TypeOK
  <2>2. task[l] = "done"
    BY DEF IInv, Waited, Unfinished
  <2>3. cleaned[BaseName[l]] # None
    BY <2>1, <2>2 DEF IInv, Entered
  <2>4. \A c \in Defines[l] : tables[BaseName[l]][c] # None
    BY <2>1, <2>2 DEF IInv, Entered
  <2>5. ASSUME Alone(l)
        PROVE  /\ cleaned[BaseName[l]] = l
               /\ tables[BaseName[l]] = [c \in Class |-> IF c \in Defines[l] THEN l ELSE None]
    <3>1. cleaned[BaseName[l]] = l
      BY <2>1, <2>3, <2>5 DEF IInv, Entered, Alone
    <3>2. \A c \in Class : tables[BaseName[l]][c] = IF c \in Defines[l] THEN l ELSE None
      BY <2>1, <2>4, <2>5 DEF IInv, Entered, Alone
    <3>3. tables[BaseName[l]] = [c \in Class |-> tables[BaseName[l]][c]]
      BY <2>1 DEF IInv, TypeOK
    <3> QED  BY <3>1, <3>2, <3>3
  <2> QED  BY <2>2, <2>3, <2>4, <2>5
<1> QED  BY <1>1, Inductive, PTL

\* Every address that init_offsets leaves was got from a library of its own
\* name that this load has found.
THEOREM AddressesOwn == Spec => []CachedFromOwn
<1>1. IInv => CachedFromOwn
  BY DEF IInv, CachedSoFar, OwnAddress, CachedFromOwn
<1> QED  BY <1>1, Inductive, PTL

\* Cached symbols are in libraries that cannot be unloaded.
THEOREM SymbolsValid == Spec => []SymbolsStay
<1>1. IInv => SymbolsStay
  BY DEF IInv, Pinned, SymbolsStay
<1> QED  BY <1>1, Inductive, PTL

-----------------------------------------------------------------------------
(* init_offsets does not get stuck, and does not go on for ever.           *)

\* The loop has a library left, a task goes on, a worker is free for a task
\* that waits, or wait() returns.
SomebodyGoes ==
  \/ \E l \in modules : task[l] = "none"
  \/ Running # {}
  \/ \E l \in modules : task[l] = "queued" /\ Cardinality(Running) < Workers
  \/ AllDone

\* Nobody waits for ever in the pool or the wait group, with any number of
\* workers and libraries.
THEOREM NeverStuck == Spec => [](pc = "scheduling" => SomebodyGoes)
<1>1. IInv => SomebodyGoes
  <2> SUFFICES ASSUME IInv, \A l \in modules : task[l] # "none", Running = {},
                      \A l \in modules : ~(task[l] = "queued" /\ Cardinality(Running) < Workers)
               PROVE  AllDone
    BY DEF SomebodyGoes
  <2>1. Cardinality(Running) < Workers
    BY FS_EmptySet, InitAssumption
  <2>2. \A l \in modules : l \in Library /\ task[l] = "done"
    BY <2>1 DEF IInv, TypeOK, Running
  <2>3. Unfinished = {}
    BY <2>2 DEF Unfinished
  <2> QED  BY <2>3, FS_EmptySet DEF IInv, Waited, AllDone
<1> QED  BY <1>1, Inductive, PTL

\* How far a task is.
StepsDone(t) ==
  CASE t = "none"     -> 0
    [] t = "queued"   -> 1
    [] t = "pushing"  -> 2
    [] t = "scanning" -> 3
    [] t = "inserted" -> 4
    [] OTHER          -> 5

\* The steps that the tasks have before them.
Ahead == {p \in modules \X (1..5) : StepsDone(task[p[1]]) < p[2]}

\* The steps that init_offsets has before it, at most; none when the process
\* is lost.
WorkLeft ==
  IF fault # "none" THEN 0
  ELSE CASE pc = "scheduling" -> Cardinality(Ahead) + Len(List) + 2
         [] pc = "caching"    -> Len(List) + 2 - next
         [] OTHER             -> 0

InInit == pc \in {"scheduling", "caching"}

FiniteAhead == IsFiniteSet(Ahead) /\ Cardinality(Ahead) \in Nat

LEMMA AheadFinite == IInv => FiniteAhead
<1> SUFFICES ASSUME IInv  PROVE FiniteAhead
  OBVIOUS
<1>1. IsFiniteSet(modules)
  BY InitAssumption, FS_Subset DEF IInv, TypeOK
<1>2. IsFiniteSet(modules \X (1..5))
  <2>1. IsFiniteSet(1..5)
    <3>1. 1 \in Int /\ 5 \in Int
      OBVIOUS
    <3> QED  BY <3>1, FS_Interval, Zenon
  <2> QED  BY <1>1, <2>1, FS_Product
<1>3. Ahead \in SUBSET (modules \X (1..5))
  BY DEF Ahead
<1>4. IsFiniteSet(Ahead)
  BY <1>2, <1>3, FS_Subset
<1> QED  BY <1>4, FS_CardinalityType DEF FiniteAhead

LEMMA AheadFiniteNext == IInv' => FiniteAhead'
BY AheadFinite, PTL

LEMMA WorkType == IInv => WorkLeft \in Nat
<1> SUFFICES ASSUME IInv  PROVE WorkLeft \in Nat
  OBVIOUS
<1>1. Len(List) \in Nat /\ next \in 1..(Len(List) + 1)
  BY InitAssumption DEF IInv, TypeOK
<1>2. Len(List) + 2 - next \in Nat
  BY <1>1
<1>3. Cardinality(Ahead) + Len(List) + 2 \in Nat
  BY <1>1, AheadFinite DEF FiniteAhead
<1> QED  BY <1>2, <1>3 DEF WorkLeft

\* A task that takes a step has one less before it, and no other has more.
LEMMA TaskAdvances ==
  ASSUME IInv, UNCHANGED modules, NEW l \in modules, NEW s,
         task' = [task EXCEPT ![l] = s], StepsDone(s) = StepsDone(task[l]) + 1
  PROVE  Cardinality(Ahead') < Cardinality(Ahead)
<1>1. StepsDone(task[l]) \in 0..4
  <2>1. StepsDone(task[l]) \in 0..5 /\ StepsDone(s) \in 0..5
    BY DEF StepsDone
  <2> QED  BY <2>1
<1>2. \A k \in modules : k \in Library /\ task'[k] = IF k = l THEN s ELSE task[k]
  BY DEF IInv, TypeOK
<1>3. <<l, StepsDone(s)>> \in Ahead
  BY <1>1 DEF Ahead
<1>4. <<l, StepsDone(s)>> \notin Ahead'
  BY <1>1, <1>2 DEF Ahead
<1>5. Ahead' \in SUBSET Ahead
  <2> SUFFICES ASSUME NEW k \in modules, NEW n \in 1..5, StepsDone(task'[k]) < n
               PROVE  StepsDone(task[k]) < n
    BY DEF Ahead
  <2>1. CASE k = l
    BY <2>1, <1>1, <1>2
  <2>2. CASE k # l
    BY <2>2, <1>2
  <2> QED  BY <2>1, <2>2
<1>6. IsFiniteSet(Ahead) /\ Ahead' # Ahead
  BY <1>3, <1>4, AheadFinite DEF FiniteAhead
<1>7. IsFiniteSet(Ahead') /\ Cardinality(Ahead') <= Cardinality(Ahead)
      /\ Cardinality(Ahead') # Cardinality(Ahead)
  BY <1>5, <1>6, FS_Subset
<1>8. Cardinality(Ahead') \in Nat /\ Cardinality(Ahead) \in Nat
  BY <1>6, <1>7, FS_CardinalityType
<1> QED  BY <1>7, <1>8

LEMMA ScheduleShrinks ==
  ASSUME IInv, IInv', fault = "none", pc = "scheduling", pc' = pc, fault' = fault,
         Cardinality(Ahead') < Cardinality(Ahead)
  PROVE  WorkLeft' < WorkLeft
<1>1. /\ WorkLeft = Cardinality(Ahead) + Len(List) + 2
      /\ WorkLeft' = Cardinality(Ahead') + Len(List) + 2
  BY DEF WorkLeft
<1>2. Len(List) \in Nat /\ Cardinality(Ahead) \in Nat /\ Cardinality(Ahead') \in Nat
  BY InitAssumption, AheadFinite, AheadFiniteNext DEF FiniteAhead
<1> QED  BY <1>1, <1>2

LEMMA InitStepShrinks ==
  ASSUME IInv, IInv', fault = "none", InitStep
  PROVE  WorkLeft' < WorkLeft
<1>1. Len(List) \in Nat /\ next \in 1..(Len(List) + 1) /\ Cardinality(Ahead) \in Nat
  BY InitAssumption, AheadFinite DEF FiniteAhead, IInv, TypeOK
<1>2. ASSUME NEW l \in Library, Schedule(l)  PROVE WorkLeft' < WorkLeft
  <2>1. /\ l \in modules /\ UNCHANGED modules /\ task' = [task EXCEPT ![l] = "queued"]
        /\ StepsDone("queued") = StepsDone(task[l]) + 1
        /\ pc = "scheduling" /\ pc' = pc /\ fault' = fault
    BY <1>2 DEF Schedule, StepsDone
  <2> QED  BY <2>1, TaskAdvances, ScheduleShrinks
<1>3. CASE WaitReturns
  <2>1. WorkLeft = Cardinality(Ahead) + Len(List) + 2 /\ WorkLeft' = Len(List) + 1
    BY <1>1, <1>3 DEF WaitReturns, WorkLeft
  <2> QED  BY <1>1, <2>1
<1>4. CASE CacheAddress
  <2>1. WorkLeft = Len(List) + 2 - next /\ WorkLeft' = Len(List) + 2 - (next + 1)
    BY <1>4 DEF CacheAddress, WorkLeft
  <2> QED  BY <1>1, <2>1
<1>5. CASE GetAddressThrows \/ CacheNull \/ FinishInit
  <2>1. WorkLeft = Len(List) + 2 - next /\ WorkLeft' = 0
    BY <1>5 DEF GetAddressThrows, CacheNull, FinishInit, WorkLeft
  <2> QED  BY <1>1, <2>1
<1> QED  BY <1>2, <1>3, <1>4, <1>5 DEF InitStep

LEMMA TaskStepShrinks ==
  ASSUME IInv, IInv', fault = "none", InInit, TaskStep
  PROVE  WorkLeft' < WorkLeft
<1>1. Len(List) \in Nat /\ next \in 1..(Len(List) + 1) /\ Cardinality(Ahead) \in Nat
  BY InitAssumption, AheadFinite DEF FiniteAhead, IInv, TypeOK
<1>2. ASSUME NEW l \in Library, Take(l) \/ Scan(l) \/ Insert(l) \/ Done(l)
      PROVE  WorkLeft' < WorkLeft
  <2>1. PICK s \in {"pushing", "scanning", "inserted", "done"} :
          /\ task' = [task EXCEPT ![l] = s]
          /\ StepsDone(s) = StepsDone(task[l]) + 1
    <3>1. CASE Take(l)
      BY <3>1 DEF Take, StepsDone
    <3>2. CASE Scan(l)
      BY <3>2 DEF Scan, StepsDone
    <3>3. CASE Insert(l)
      BY <3>3 DEF Insert, StepsDone
    <3>4. CASE Done(l)
      BY <3>4 DEF Done, StepsDone
    <3> QED  BY <1>2, <3>1, <3>2, <3>3, <3>4
  <2>2. /\ UNCHANGED <<modules, pc, fault>>
        /\ task[l] \in {"queued", "pushing", "scanning", "inserted"}
    BY <1>2 DEF Take, Scan, Insert, Done
  <2>3. l \in modules /\ l \in Unfinished
    BY <2>2 DEF IInv, Waited, Unfinished
  <2>4. pc = "scheduling"
    BY <2>3 DEF IInv, Waited, InInit
  <2> QED  BY <2>1, <2>2, <2>3, <2>4, TaskAdvances, ScheduleShrinks
<1>3. CASE (\E l \in Library : TaskThrows(l)) \/ \E l, k \in Library : Race(l, k)
  <2>1. fault' # "none"
    BY <1>3 DEF TaskThrows, Race
  <2>2. WorkLeft' = 0
    BY <2>1 DEF WorkLeft
  <2>3. pc = "scheduling" \/ pc = "caching"
    BY DEF InInit
  <2>4. WorkLeft > 0
    <3>1. CASE pc = "scheduling"
      <4>1. WorkLeft = Cardinality(Ahead) + Len(List) + 2
        BY <3>1 DEF WorkLeft
      <4> QED  BY <1>1, <4>1
    <3>2. CASE pc = "caching"
      <4>1. WorkLeft = Len(List) + 2 - next
        BY <3>2 DEF WorkLeft
      <4> QED  BY <1>1, <4>1
    <3> QED  BY <2>3, <3>1, <3>2
  <2> QED  BY <2>2, <2>4
<1> QED  BY <1>2, <1>3 DEF TaskStep

\* The game's own steps, which nothing bounds, leave the work as it is.
LEMMA StepShrinks ==
  IInv /\ IInv' /\ [Next]_vars =>
    [InInit => WorkLeft' < WorkLeft \/ (GameStep /\ WorkLeft' = WorkLeft)]_vars
<1> SUFFICES ASSUME IInv, IInv', Next, InInit
             PROVE  WorkLeft' < WorkLeft \/ (GameStep /\ WorkLeft' = WorkLeft)
  OBVIOUS
<1>1. fault = "none" /\ (GameStep \/ Start \/ InitStep \/ TaskStep)
  BY DEF Next
<1>2. CASE GameStep
  <2>1. UNCHANGED <<pc, modules, task, next, fault>>
    BY <1>2 DEF GameStep, GameLoads, GameUnloads, scanVars, cacheVars
  <2>2. Ahead' = Ahead
    BY <2>1 DEF Ahead
  <2> QED  BY <1>2, <2>1, <2>2 DEF WorkLeft
<1>3. ~Start
  BY DEF Start, InInit
<1> QED  BY <1>1, <1>2, <1>3, InitStepShrinks, TaskStepShrinks

\* Whatever the game does meanwhile, init_offsets takes at most as many steps
\* as WorkLeft says: five for each library of the snapshot, one for each
\* offset, and two.
THEOREM WorkBounded ==
  Spec => /\ [](WorkLeft \in Nat)
          /\ [][InInit => WorkLeft' < WorkLeft \/ (GameStep /\ WorkLeft' = WorkLeft)]_vars
BY WorkType, StepShrinks, Inductive, PTL DEF Spec
=============================================================================
