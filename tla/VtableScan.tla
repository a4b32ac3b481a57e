------------------------------ MODULE VtableScan ------------------------------
(***************************************************************************)
(* How offsets/rtti.cpp finds the virtual tables of a loaded module: it    *)
(* looks for words that point to a typeinfo, drops those that are not in   *)
(* front of a table, filters out the tables the compiler makes for         *)
(* constructors, groups the rest into one list for each class, and enters  *)
(* the lists into a map by class name (offsets.cpp).                       *)
(*                                                                         *)
(* Memory is the sequence of words in the module's sections, in the order  *)
(* of their addresses; a word of two overlapping sections is there twice.  *)
(* A word lies in a function, in the typeinfo object of a class, or        *)
(* elsewhere, and may hold the address of a class's typeinfo.              *)
(* locate_vftables and get_vtables_from_module are coroutines that run in  *)
(* step, so one action stands for what both do with one candidate.         *)
(***************************************************************************)
EXTENDS Integers, Sequences

CONSTANTS
  Class,      \* classes whose typeinfo the module relocates
  None,       \* a word that points to no typeinfo
  Place,      \* where words may lie: members of Class, "function", "data"
  MaxWords    \* bound on the length of memory

ASSUME ScanAssumption ==
  /\ None \notin Class
  /\ Place \subseteq Class \cup {"function", "data"}
  /\ "function" \notin Class /\ "data" \notin Class
  /\ MaxWords \in Nat

VARIABLES
  in,         \* where each word lies
  ref,        \* the class whose typeinfo each word points to
  next,       \* the word to look at next
  prevType,   \* prev_typeinfo: class of the candidate before
  seen,       \* seen_typeinfo
  chunk,      \* current_chunk: words of the class being collected
  tables      \* the map: a list of words for each class entered

memory == <<in, ref>>
vars == <<in, ref, next, prevType, seen, chunk, tables>>

Word == 1..Len(in)

\* A typeinfo object is one block of memory.
Blocks(place) ==
  \A i, j, k \in 1..Len(place) :
    (i < j /\ j < k /\ place[i] = place[k] /\ place[i] \in Class) => place[j] = place[i]

\* "Find candidates": words outside functions that point to a typeinfo.
PointsToTypeinfo(i) == in[i] # "function" /\ ref[i] \in Class

\* typeinfo_ranges: the objects that some such word points to.
KnownTypeinfo == {ref[i] : i \in {j \in Word : PointsToTypeinfo(j)}}

\* Mutant of Candidate: references inside a typeinfo graph stay.
CandidateInTypeinfo(i) == PointsToTypeinfo(i)

\* vftable_candidates: a reference inside a typeinfo graph is not a table.
Candidate(i) == PointsToTypeinfo(i) /\ in[i] \notin KnownTypeinfo

TypeOK ==
  /\ in \in Seq(Place) /\ Blocks(in)
  /\ ref \in Seq(Class \cup {None}) /\ Len(ref) = Len(in)
  /\ next \in 1..(Len(in) + 1)
  /\ prevType \in Class \cup {None}
  /\ seen \subseteq Class
  /\ chunk \in Seq(Word)
  /\ DOMAIN tables \subseteq Class
  /\ \A c \in DOMAIN tables : tables[c] \in Seq(Word)

Init ==
  /\ \E n \in 1..MaxWords :
       /\ in \in {p \in [1..n -> Place] : Blocks(p)}
       /\ ref \in [1..n -> Class \cup {None}]
  /\ next = 1
  /\ prevType = None
  /\ seen = {}
  /\ chunk = <<>>
  /\ tables = [c \in {} |-> <<>>]

-----------------------------------------------------------------------------
Entered(c, list) ==
  [d \in DOMAIN tables \cup {c} |-> IF d \in DOMAIN tables THEN tables[d] ELSE list]

\* Mutant of Constructor: a table of a class that was seen is dropped even
\* when it follows another one of the class.
ConstructorIfSeen(i) == ref[i] \in seen

\* Mutant of Constructor: the class is put in seen_typeinfo before the test.
ConstructorSeenFirst(i) == ref[i] # prevType

\* A table of a class seen before, not directly after another of that class.
Constructor(i) == ref[i] # prevType /\ ref[i] \in seen

\* Mutants of Collect: the list of a class that is entered already is
\* replaced, and a list goes in under the name of the table that ended it.
CollectReplaces(i) ==
  IF chunk # <<>> /\ ref[i] # ref[chunk[Len(chunk)]]
  THEN /\ tables' = [d \in DOMAIN tables \cup {ref[chunk[1]]} |->
                       IF d = ref[chunk[1]] THEN chunk ELSE tables[d]]
       /\ chunk' = <<i>>
  ELSE /\ chunk' = Append(chunk, i)
       /\ UNCHANGED tables

CollectNamesNext(i) ==
  IF chunk # <<>> /\ ref[i] # ref[chunk[Len(chunk)]]
  THEN /\ tables' = Entered(ref[i], chunk)
       /\ chunk' = <<i>>
  ELSE /\ chunk' = Append(chunk, i)
       /\ UNCHANGED tables

\* get_vtables_from_module: a table of another class than the one yielded
\* before ends the list, which goes into the map unless its class is there.
Collect(i) ==
  IF chunk # <<>> /\ ref[i] # ref[chunk[Len(chunk)]]
  THEN /\ tables' = Entered(ref[chunk[1]], chunk)
       /\ chunk' = <<i>>
  ELSE /\ chunk' = Append(chunk, i)
       /\ UNCHANGED tables

\* Mutant of Pass: the scan steps by two words.
PassByTwo ==
  /\ next \in Word
  /\ ~Candidate(next)
  /\ next' = next + 2
  /\ UNCHANGED <<memory, prevType, seen, chunk, tables>>

\* A word that is no candidate is passed over.
Pass ==
  /\ next \in Word
  /\ ~Candidate(next)
  /\ next' = next + 1
  /\ UNCHANGED <<memory, prevType, seen, chunk, tables>>

\* locate_vftables examines a candidate and yields it or not.
Examine ==
  /\ next \in Word
  /\ Candidate(next)
  /\ IF Constructor(next) THEN UNCHANGED <<chunk, tables>> ELSE Collect(next)
  /\ prevType' = ref[next]
  /\ seen' = seen \cup {ref[next]}
  /\ next' = next + 1
  /\ UNCHANGED memory

Next == Pass \/ Examine

Spec == Init /\ [][Next]_vars

-----------------------------------------------------------------------------
(* Properties.                                                             *)

Done == next = Len(in) + 1

\* The candidates of class c up to word n.
TablesOf(c, n) == {i \in 1..n : Candidate(i) /\ ref[i] = c}

\* Entry 0 of a class, which VtableOffset looks up, is the first candidate of
\* the class in memory: no later one, as of a constructor, takes the place of
\* the primary table, which the compiler puts first.
PrimaryIsFirst ==
  \A c \in DOMAIN tables :
    /\ tables[c] # <<>>
    /\ tables[c][1] \in TablesOf(c, Len(in))
    /\ \A i \in TablesOf(c, Len(in)) : tables[c][1] <= i

\* A list holds tables of its own class, in the order of memory.
ListsOfOneClass ==
  \A c \in DOMAIN tables :
    /\ \A k \in 1..Len(tables[c]) : tables[c][k] \in TablesOf(c, Len(in))
    /\ \A j, k \in 1..Len(tables[c]) : j < k => tables[c][j] < tables[c][k]

\* The reference for "normal consecutive subtables": the candidates of c that
\* follow its first one with no candidate of another class between.
FirstRun(c) ==
  {i \in TablesOf(c, Len(in)) :
     \A j \in Word : (j < i /\ Candidate(j) /\ ref[j] # c) =>
       \A k \in TablesOf(c, Len(in)) : j < k}

\* The consecutive subtables of a class are all in its list.
SubtablesKept ==
  \A c \in DOMAIN tables : FirstRun(c) \subseteq {tables[c][k] : k \in 1..Len(tables[c])}

\* At the end every class that has a table is in the map, save the class of
\* the list that no later table ended.
OnlyLastMissing ==
  Done => \A c \in Class :
    TablesOf(c, Len(in)) # {} =>
      c \in DOMAIN tables \/ (chunk # <<>> /\ c = ref[chunk[1]])

-----------------------------------------------------------------------------
(* rtti.cpp: "Avoid constructor vftables while keeping normal consecutive   *)
(* subtables".  A list then holds the consecutive subtables and no others.  *)

NoConstructorTables ==
  \A c \in DOMAIN tables : {tables[c][k] : k \in 1..Len(tables[c])} \subseteq FirstRun(c)
=============================================================================
