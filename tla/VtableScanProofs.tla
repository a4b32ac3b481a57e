--------------------------- MODULE VtableScanProofs ---------------------------
(***************************************************************************)
(* Proofs about VtableScan, for memory of any length and any classes.      *)
(***************************************************************************)
EXTENDS VtableScan, SequenceTheorems, TLAPS

\* The candidates, which no step changes, and those of one class.
Cand == {i \in Word : Candidate(i)}
Of(c) == {i \in Cand : ref[i] = c}

\* FirstRun in terms of Of.
Run(c) == {i \in Of(c) : \A j \in Cand : j < i /\ ref[j] # c => \A k \in Of(c) : j < k}

\* A list of tables of a class whose tables are those in of, in order and
\* below word n.
Ordered(s, of, n) ==
  /\ s \in Seq(Nat) /\ s # <<>>
  /\ \A k \in 1..Len(s) : s[k] \in of /\ s[k] < n
  /\ \A j, k \in 1..Len(s) : j < k => s[j] < s[k]

\* The list begins at the first table of its class and has, of the
\* consecutive subtables in run, all that lie below word n.
Complete(s, of, run, n) ==
  /\ \A i \in of : s[1] <= i
  /\ \A i \in run : i < n => \E k \in 1..Len(s) : s[k] = i

ChunkClass == IF chunk = <<>> THEN {} ELSE {ref[chunk[1]]}

\* What locate_vftables remembers of the candidates it has examined.
Memory ==
  /\ seen = {ref[i] : i \in {j \in Cand : j < next}}
  /\ prevType # None =>
       \E p \in Cand : p < next /\ prevType = ref[p] /\ \A q \in Cand : q < next => q <= p
  /\ prevType = None => \A q \in Cand : ~ q < next

\* Every class seen is in the map or is the one being collected, and a list
\* that will be entered for the first time is complete.
Collected ==
  /\ seen = DOMAIN tables \cup ChunkClass
  /\ \A c \in DOMAIN tables :
       /\ Ordered(tables[c], Of(c), next)
       /\ Complete(tables[c], Of(c), Run(c), Len(in) + 1)
  /\ \A c \in ChunkClass :
       /\ Ordered(chunk, Of(c), next)
       /\ c \notin DOMAIN tables => Complete(chunk, Of(c), Run(c), next)

IInv == TypeOK /\ Memory /\ Collected

-----------------------------------------------------------------------------
\* The candidates as the properties name them.
LEMMA CandidatesOfClass ==
  /\ Cand \subseteq Word
  /\ \A c : TablesOf(c, Len(in)) = Of(c)
  /\ \A c : FirstRun(c) = Run(c)
<1>1. \A c : TablesOf(c, Len(in)) = Of(c)
  BY DEF TablesOf, Of, Cand, Word
<1>2. ASSUME NEW c  PROVE FirstRun(c) = Run(c)
  <2>1. FirstRun(c) = {i \in Of(c) : \A j \in Word : (j < i /\ Candidate(j) /\ ref[j] # c) =>
                                       \A k \in Of(c) : j < k}
    BY <1>1 DEF FirstRun
  <2>2. \A j : j \in Cand <=> j \in Word /\ Candidate(j)
    BY DEF Cand
  <2> QED  BY <2>1, <2>2 DEF Run
<1> QED  BY <1>1, <1>2 DEF Cand

LEMMA CandidatesInNat ==
  /\ Cand \subseteq Nat
  /\ \A c : Of(c) \in SUBSET Nat /\ Run(c) \in SUBSET Nat
BY DEF Cand, Word, Of, Run

LEMMA CandidatesHaveClass == ASSUME TypeOK  PROVE \A i \in Cand : ref[i] \in Class
BY DEF Cand, Candidate, PointsToTypeinfo

\* No step changes memory.
LEMMA MemoryStays ==
  ASSUME UNCHANGED memory
  PROVE  /\ in' = in /\ ref' = ref /\ Word' = Word /\ Cand' = Cand
         /\ \A c : Of(c)' = Of(c)
         /\ \A c : Run(c)' = Run(c)
<1>1. in' = in /\ ref' = ref
  BY DEF memory
<1>2. Word' = Word
  BY <1>1 DEF Word
<1>3. \A i : Candidate(i)' <=> Candidate(i)
  BY <1>1, <1>2 DEF Candidate, PointsToTypeinfo, KnownTypeinfo, Word
<1>4. Cand' = Cand
  BY <1>2, <1>3 DEF Cand
<1>5. \A c : Of(c)' = Of(c)
  BY <1>1, <1>4 DEF Of
<1>6. \A c : Run(c)' = Run(c)
  BY <1>1, <1>4, <1>5 DEF Run
<1> QED  BY <1>1, <1>2, <1>4, <1>5, <1>6

-----------------------------------------------------------------------------
LEMMA InitIInv == Init => IInv
<1> SUFFICES ASSUME Init  PROVE IInv
  OBVIOUS
<1>1. TypeOK
  <2>1. PICK n \in 1..MaxWords : in \in {p \in [1..n -> Place] : Blocks(p)}
                                 /\ ref \in [1..n -> Class \cup {None}]
    BY DEF Init
  <2>2. n \in Nat
    BY <2>1, ScanAssumption
  <2>3. in \in Seq(Place) /\ Len(in) = n /\ Blocks(in)
    BY <2>1, <2>2
  <2>4. ref \in Seq(Class \cup {None}) /\ Len(ref) = n
    BY <2>1, <2>2
  <2>5. next \in 1..(Len(in) + 1) /\ chunk \in Seq(Word)
    BY <2>2, <2>3 DEF Init
  <2> QED  BY <2>3, <2>4, <2>5 DEF Init, TypeOK
<1>2. Memory
  BY CandidatesOfClass DEF Init, Memory, Word
<1>3. Collected
  BY DEF Init, Collected, ChunkClass
<1> QED  BY <1>1, <1>2, <1>3 DEF IInv

-----------------------------------------------------------------------------
(* How a list grows, with s a list of numbers and of a set of them.         *)

LEMMA OrderedLonger ==
  ASSUME NEW s, NEW of \in SUBSET Nat, NEW n \in Nat, Ordered(s, of, n)
  PROVE  Ordered(s, of, n + 1)
BY DEF Ordered

LEMMA OrderedOne ==
  ASSUME NEW of \in SUBSET Nat, NEW n \in of
  PROVE  Ordered(<<n>>, of, n + 1)
BY DEF Ordered

LEMMA OrderedAppend ==
  ASSUME NEW s, NEW of \in SUBSET Nat, NEW n \in of, Ordered(s, of, n)
  PROVE  Ordered(Append(s, n), of, n + 1) /\ Append(s, n)[1] = s[1]
<1>1. s \in Seq(Nat) /\ s # <<>> /\ Len(s) \in Nat /\ Len(s) >= 1 /\ n \in Nat
  BY DEF Ordered
<1>2. Append(s, n) \in Seq(Nat) /\ Len(Append(s, n)) = Len(s) + 1
  BY <1>1
<1>3. \A k \in 1..(Len(s) + 1) : Append(s, n)[k] = IF k <= Len(s) THEN s[k] ELSE n
  BY <1>1
<1>4. \A k \in 1..Len(s) : s[k] \in of /\ s[k] < n
  BY DEF Ordered
<1>5. \A k \in 1..(Len(s) + 1) : Append(s, n)[k] \in of /\ Append(s, n)[k] < n + 1
  BY <1>1, <1>3, <1>4
<1>6. \A j, k \in 1..(Len(s) + 1) : j < k => Append(s, n)[j] < Append(s, n)[k]
  BY <1>1, <1>3, <1>4 DEF Ordered
<1> QED  BY <1>1, <1>2, <1>3, <1>5, <1>6 DEF Ordered

LEMMA CompleteSkip ==
  ASSUME NEW s, NEW of, NEW run \in SUBSET Nat, NEW n \in Nat,
         Complete(s, of, run, n), n \notin run
  PROVE  Complete(s, of, run, n + 1)
BY DEF Complete

LEMMA CompleteAppend ==
  ASSUME NEW s, NEW of \in SUBSET Nat, NEW run \in SUBSET Nat, NEW n \in of,
         Ordered(s, of, n), Complete(s, of, run, n)
  PROVE  Complete(Append(s, n), of, run, n + 1)
<1>1. s \in Seq(Nat) /\ s # <<>> /\ Len(s) \in Nat /\ Len(s) >= 1 /\ n \in Nat
  BY DEF Ordered
<1>2. \A k \in 1..(Len(s) + 1) : Append(s, n)[k] = IF k <= Len(s) THEN s[k] ELSE n
  BY <1>1
<1>3. \A i \in of : Append(s, n)[1] <= i
  BY <1>1, <1>2 DEF Complete
<1>4. ASSUME NEW i \in run, i < n + 1  PROVE \E k \in 1..(Len(s) + 1) : Append(s, n)[k] = i
  <2>1. CASE i < n
    BY <1>1, <1>2, <2>1 DEF Complete
  <2>2. CASE i = n
    <3>1. Append(s, n)[Len(s) + 1] = i
      BY <1>1, <1>2, <2>2
    <3> QED  BY <1>1, <3>1
  <2> QED  BY <1>1, <1>4, <2>1, <2>2
<1>5. Len(Append(s, n)) = Len(s) + 1
  BY <1>1
<1> QED  BY <1>3, <1>4, <1>5 DEF Complete

\* A word that is passed over is no candidate.
LEMMA PassStep == ASSUME IInv, Pass  PROVE IInv'
<1> USE DEF IInv, Pass
<1>1. /\ in' = in /\ ref' = ref /\ Word' = Word /\ Cand' = Cand
      /\ \A c : Of(c)' = Of(c)
      /\ \A c : Run(c)' = Run(c)
  BY MemoryStays
<1>2. next \in Nat /\ next' = next + 1 /\ next \notin Cand /\ Cand \subseteq Nat /\ Len(in) \in Nat
  BY CandidatesOfClass DEF Cand, Word, TypeOK
<1>3. \A i \in Cand : i < next' <=> i < next
  BY <1>2
<1>4. TypeOK'
  BY <1>1, <1>2 DEF TypeOK, Word
<1>5. Memory'
  BY <1>1, <1>3 DEF Memory
<1>6. ASSUME NEW c \in DOMAIN tables
      PROVE  Ordered(tables[c], Of(c), next + 1)
  BY <1>2, CandidatesInNat, OrderedLonger DEF Collected
<1>7. ASSUME NEW c \in ChunkClass
      PROVE  /\ Ordered(chunk, Of(c), next + 1)
             /\ c \notin DOMAIN tables => Complete(chunk, Of(c), Run(c), next + 1)
  <2>1. next \notin Run(c)
    BY <1>2 DEF Run, Of
  <2> QED  BY <1>2, <2>1, CandidatesInNat, OrderedLonger, CompleteSkip DEF Collected
<1>8. Collected'
  <2>1. ChunkClass' = ChunkClass /\ tables' = tables /\ chunk' = chunk /\ seen' = seen
    BY <1>1 DEF ChunkClass
  <2>2. seen' = DOMAIN tables' \cup ChunkClass'
    BY <2>1 DEF Collected
  <2>3. \A c \in DOMAIN tables : Complete(tables[c], Of(c), Run(c), Len(in) + 1)
    BY DEF Collected
  <2> QED  BY <1>1, <1>2, <1>6, <1>7, <2>1, <2>2, <2>3 DEF Collected
<1> QED  BY <1>4, <1>5, <1>8

\* A candidate is examined.
LEMMA ExamineMemory == ASSUME IInv, Examine  PROVE Memory'
<1> USE DEF IInv, Examine
<1>1. in' = in /\ ref' = ref /\ Cand' = Cand
  BY MemoryStays
<1>2. next \in Cand /\ next \in Nat /\ next' = next + 1 /\ Cand \subseteq Nat
  BY CandidatesInNat DEF Cand
<1>3. ref[next] # None
  BY <1>2, CandidatesHaveClass, ScanAssumption
<1>4. \A i \in Cand : i < next' <=> i < next \/ i = next
  BY <1>2
<1>5. seen' = {ref'[i] : i \in {j \in Cand' : j < next'}}
  BY <1>1, <1>2, <1>4 DEF Memory
<1>6. next < next' /\ \A q \in Cand : q < next' => q <= next
  BY <1>2, <1>4
<1> QED  BY <1>1, <1>2, <1>3, <1>5, <1>6 DEF Memory

\* A constructor's table is none of the consecutive subtables of its class.
LEMMA ConstructorNotInRun ==
  ASSUME IInv, next \in Cand, Constructor(next)
  PROVE  ref[next] \in seen /\ \A c : next \notin Run(c)
<1>1. ref[next] \in seen /\ ref[next] # prevType
  BY DEF Constructor
<1>2. PICK k \in Cand : k < next /\ ref[k] = ref[next]
  BY <1>1 DEF IInv, Memory
<1>3. PICK p \in Cand : p < next /\ prevType = ref[p] /\ k <= p
  BY <1>2 DEF IInv, Memory
<1>4. ~ p < k
  BY <1>2, <1>3, CandidatesInNat
<1>5. \A c : next \in Of(c) => c = ref[next] /\ k \in Of(c)
  BY <1>2 DEF Of
<1> QED  BY <1>1, <1>3, <1>4, <1>5 DEF Run

\* The list that a table of another class ends is complete, if its class is
\* not in the map.
LEMMA EndedListComplete ==
  ASSUME IInv, next \in Cand, NEW c \in ChunkClass, ref[next] # c, c \notin DOMAIN tables
  PROVE  Complete(chunk, Of(c), Run(c), Len(in) + 1)
<1>1. Ordered(chunk, Of(c), next) /\ Complete(chunk, Of(c), Run(c), next)
  BY DEF IInv, Collected
<1>2. chunk[1] \in Of(c) /\ chunk[1] < next
  BY <1>1 DEF Ordered
<1>3. ASSUME NEW i \in Run(c)  PROVE i < next
  <2>1. i \in Of(c) /\ i # next
    BY DEF Run, Of
  <2>2. next < i => next < chunk[1]
    BY <1>2 DEF Run
  <2> QED  BY <1>2, <2>1, <2>2, CandidatesInNat
<1> QED  BY <1>1, <1>3 DEF Complete

\* The first table of a class that is not in the map begins a complete list.
LEMMA NewListComplete ==
  ASSUME IInv, next \in Cand, ref[next] \notin seen
  PROVE  Complete(<<next>>, Of(ref[next]), Run(ref[next]), next + 1)
<1>1. \A i \in Of(ref[next]) : ~ i < next
  BY DEF IInv, Memory, Of
<1>2. \A i \in Run(ref[next]) : i < next + 1 => i = next
  BY <1>1, CandidatesInNat DEF Run
<1> QED  BY <1>1, <1>2, CandidatesInNat DEF Complete

\* What a candidate leaves behind when its list stays as it is.
LEMMA ListsLonger ==
  ASSUME IInv, next \in Cand
  PROVE  /\ \A c \in DOMAIN tables :
              /\ Ordered(tables[c], Of(c), next + 1)
              /\ Complete(tables[c], Of(c), Run(c), Len(in) + 1)
         /\ \A c \in ChunkClass : Ordered(chunk, Of(c), next + 1)
<1>1. next \in Nat
  BY CandidatesInNat
<1> QED  BY <1>1, CandidatesInNat, OrderedLonger DEF IInv, Collected

LEMMA ExamineCollected == ASSUME IInv, Examine  PROVE Collected'
<1> USE DEF IInv
<1> DEFINE c == ref[next]
<1>1. /\ in' = in /\ ref' = ref
      /\ \A d : Of(d)' = Of(d)
      /\ \A d : Run(d)' = Run(d)
  BY MemoryStays DEF Examine
<1>2. next \in Cand /\ next \in Nat /\ next' = next + 1 /\ next \in Of(c)
  BY CandidatesInNat DEF Cand, Of, Examine
<1>3. seen' = seen \cup {c}
  BY DEF Examine
<1>4. CASE Constructor(next)
  <2>1. UNCHANGED <<chunk, tables>> /\ ChunkClass' = ChunkClass /\ seen' = seen
    BY <1>1, <1>2, <1>3, <1>4, ConstructorNotInRun DEF Examine, ChunkClass
  <2>2. \A d \in ChunkClass : d \notin DOMAIN tables => Complete(chunk, Of(d), Run(d), next + 1)
    BY <1>2, <1>4, ConstructorNotInRun, CompleteSkip, CandidatesInNat DEF Collected
  <2> QED  BY <1>1, <1>2, <2>1, <2>2, ListsLonger DEF Collected
<1>5. CASE ~Constructor(next) /\ chunk # <<>> /\ c # ref[chunk[Len(chunk)]]
  <2> DEFINE e == ref[chunk[1]]
  <2>1. ChunkClass = {e} /\ Ordered(chunk, Of(e), next)
    BY <1>5 DEF ChunkClass, Collected
  <2>2. ref[chunk[Len(chunk)]] = e
    BY <2>1 DEF Ordered, Of
  <2>3. tables' = Entered(e, chunk) /\ chunk' = <<next>>
    BY <1>5 DEF Examine, Collect
  <2>4. ChunkClass' = {c}
    BY <1>1, <2>3 DEF ChunkClass
  <2>5. DOMAIN tables' = DOMAIN tables \cup {e}
    BY <2>3 DEF Entered
  <2>6. seen' = DOMAIN tables' \cup ChunkClass'
    BY <1>3, <2>1, <2>4, <2>5 DEF Collected
  <2>7. ASSUME NEW d \in DOMAIN tables'
        PROVE  /\ Ordered(tables'[d], Of(d), next + 1)
               /\ Complete(tables'[d], Of(d), Run(d), Len(in) + 1)
    <3>1. CASE d \in DOMAIN tables
      BY <1>2, <2>3, <3>1, ListsLonger DEF Entered
    <3>2. CASE d \notin DOMAIN tables
      <4>1. d = e /\ tables'[d] = chunk
        BY <2>3, <2>5, <3>2 DEF Entered
      <4> QED  BY <1>2, <1>5, <2>1, <2>2, <3>2, <4>1, ListsLonger, EndedListComplete
    <3> QED  BY <3>1, <3>2
  <2>8. Ordered(<<next>>, Of(c), next + 1)
    BY <1>2, OrderedOne, CandidatesInNat
  <2>9. c \notin DOMAIN tables' => Complete(<<next>>, Of(c), Run(c), next + 1)
    BY <1>2, <2>1, <2>5, NewListComplete DEF Collected
  <2> QED  BY <1>1, <1>2, <2>3, <2>4, <2>6, <2>7, <2>8, <2>9 DEF Collected
<1>6. CASE ~Constructor(next) /\ chunk = <<>>
  <2>1. tables' = tables /\ chunk' = <<next>> /\ ChunkClass = {} /\ ChunkClass' = {c}
    BY <1>1, <1>6 DEF Examine, Collect, ChunkClass
  <2>2. Ordered(<<next>>, Of(c), next + 1)
    BY <1>2, OrderedOne, CandidatesInNat
  <2>3. c \notin DOMAIN tables => Complete(<<next>>, Of(c), Run(c), next + 1)
    BY <1>2, <2>1, NewListComplete DEF Collected
  <2> QED  BY <1>1, <1>2, <1>3, <2>1, <2>2, <2>3, ListsLonger DEF Collected
<1>7. CASE ~Constructor(next) /\ chunk # <<>> /\ c = ref[chunk[Len(chunk)]]
  <2>1. ChunkClass = {c} /\ Ordered(chunk, Of(c), next)
    <3>1. ChunkClass = {ref[chunk[1]]} /\ Ordered(chunk, Of(ref[chunk[1]]), next)
      BY <1>7 DEF ChunkClass, Collected
    <3> QED  BY <1>7, <3>1 DEF Ordered, Of
  <2>2. tables' = tables /\ chunk' = Append(chunk, next)
    BY <1>7 DEF Examine, Collect
  <2>3. Ordered(chunk', Of(c), next + 1) /\ chunk'[1] = chunk[1] /\ chunk' # <<>>
    <3>1. Ordered(chunk', Of(c), next + 1) /\ chunk'[1] = chunk[1]
      BY <1>2, <2>1, <2>2, OrderedAppend, CandidatesInNat
    <3> QED  BY <3>1 DEF Ordered
  <2>4. ChunkClass' = {c}
    BY <1>1, <1>7, <2>1, <2>3 DEF ChunkClass
  <2>5. c \notin DOMAIN tables => Complete(chunk', Of(c), Run(c), next + 1)
    BY <1>2, <2>1, <2>2, CompleteAppend, CandidatesInNat DEF Collected
  <2> QED  BY <1>1, <1>2, <1>3, <2>1, <2>2, <2>3, <2>4, <2>5, ListsLonger DEF Collected
<1> QED  BY <1>4, <1>5, <1>6, <1>7

LEMMA ExamineType == ASSUME IInv, Examine  PROVE TypeOK'
<1> USE DEF IInv
<1>1. in' = in /\ ref' = ref /\ Word' = Word
  BY MemoryStays DEF Examine
<1>2. next \in Word /\ next' \in 1..(Len(in) + 1) /\ ref[next] \in Class
  BY DEF Examine, Candidate, PointsToTypeinfo, TypeOK, Word
<1>3. CASE Constructor(next)
  BY <1>1, <1>2, <1>3 DEF Examine, TypeOK
<1>4. CASE ~Constructor(next)
  <2>1. Collect(next)
    BY <1>4 DEF Examine
  <2>2. chunk' \in Seq(Word)
    <3>1. chunk' = <<next>> \/ chunk' = Append(chunk, next)
      BY <2>1 DEF Collect
    <3>2. chunk \in Seq(Word)
      BY DEF TypeOK
    <3>3. <<next>> \in Seq(Word) /\ Append(chunk, next) \in Seq(Word)
      BY <1>2, <3>2
    <3> QED  BY <3>1, <3>3
  <2>3. chunk # <<>> => ref[chunk[1]] \in Class
    <3> SUFFICES ASSUME chunk # <<>>  PROVE ref[chunk[1]] \in Class
      OBVIOUS
    <3>1. Ordered(chunk, Of(ref[chunk[1]]), next)
      BY DEF Collected, ChunkClass
    <3>2. chunk[1] \in Cand
      BY <3>1 DEF Ordered, Of
    <3> QED  BY <3>2, CandidatesHaveClass
  <2>4. /\ DOMAIN tables' \subseteq Class
        /\ \A d \in DOMAIN tables' : tables'[d] \in Seq(Word)
    BY <2>1, <2>3 DEF Collect, Entered, TypeOK
  <2>5. prevType' \in Class /\ seen' \subseteq Class
    BY <1>2 DEF Examine, TypeOK
  <2> QED  BY <1>1, <1>2, <2>2, <2>4, <2>5 DEF TypeOK, Blocks
<1> QED  BY <1>3, <1>4

\* The invariant is inductive.
LEMMA NextIInv == IInv /\ [Next]_vars => IInv'
<1> SUFFICES ASSUME IInv, [Next]_vars  PROVE IInv'
  OBVIOUS
<1>1. CASE Pass
  BY <1>1, PassStep
<1>2. CASE Examine
  BY <1>2, ExamineMemory, ExamineCollected, ExamineType DEF IInv
<1>3. CASE UNCHANGED vars
  <2>1. UNCHANGED memory /\ next' = next /\ prevType' = prevType /\ seen' = seen
        /\ chunk' = chunk /\ tables' = tables
    BY <1>3 DEF vars, memory
  <2>2. /\ in' = in /\ ref' = ref /\ Word' = Word /\ Cand' = Cand
        /\ \A c : Of(c)' = Of(c)
        /\ \A c : Run(c)' = Run(c)
    BY <2>1, MemoryStays
  <2>3. TypeOK'
    BY <2>1, <2>2 DEF IInv, TypeOK
  <2>4. Memory'
    BY <2>1, <2>2 DEF IInv, Memory
  <2>5. ChunkClass' = ChunkClass
    BY <2>1, <2>2 DEF ChunkClass
  <2>6. Collected'
    BY <2>1, <2>2, <2>5 DEF IInv, Collected
  <2> QED  BY <2>3, <2>4, <2>6 DEF IInv
<1> QED  BY <1>1, <1>2, <1>3 DEF Next

\* The invariant holds in every state of the scan.
LEMMA Invariance == Spec => []IInv
BY InitIInv, NextIInv, PTL DEF Spec

-----------------------------------------------------------------------------
LEMMA IInvOrdered == IInv => ListsOfOneClass
<1> SUFFICES ASSUME IInv, NEW c \in DOMAIN tables
             PROVE  /\ \A k \in 1..Len(tables[c]) : tables[c][k] \in TablesOf(c, Len(in))
                    /\ \A j, k \in 1..Len(tables[c]) : j < k => tables[c][j] < tables[c][k]
  BY DEF ListsOfOneClass
<1> QED  BY CandidatesOfClass DEF IInv, Collected, Ordered

LEMMA IInvPrimary == IInv => PrimaryIsFirst
<1> SUFFICES ASSUME IInv, NEW c \in DOMAIN tables
             PROVE  /\ tables[c] # <<>>
                    /\ tables[c][1] \in TablesOf(c, Len(in))
                    /\ \A i \in TablesOf(c, Len(in)) : tables[c][1] <= i
  BY DEF PrimaryIsFirst
<1>1. Ordered(tables[c], Of(c), next) /\ Complete(tables[c], Of(c), Run(c), Len(in) + 1)
  BY DEF IInv, Collected
<1>2. 1 \in 1..Len(tables[c])
  BY <1>1 DEF Ordered
<1> QED  BY <1>1, <1>2, CandidatesOfClass DEF Ordered, Complete

LEMMA IInvSubtables == IInv => SubtablesKept
<1> SUFFICES ASSUME IInv, NEW c \in DOMAIN tables, NEW i \in FirstRun(c)
             PROVE  i \in {tables[c][k] : k \in 1..Len(tables[c])}
  BY DEF SubtablesKept
<1>1. i \in Run(c) /\ i \in Word
  BY CandidatesOfClass DEF Run, Of
<1>2. i < Len(in) + 1
  BY <1>1 DEF IInv, TypeOK, Word
<1> QED  BY <1>1, <1>2 DEF IInv, Collected, Complete

LEMMA IInvLast == IInv => OnlyLastMissing
<1> SUFFICES ASSUME IInv, Done, NEW c \in Class, TablesOf(c, Len(in)) # {}
             PROVE  c \in DOMAIN tables \/ (chunk # <<>> /\ c = ref[chunk[1]])
  BY DEF OnlyLastMissing
<1>1. PICK i \in Cand : ref[i] = c
  BY CandidatesOfClass DEF Of
<1>2. i < next
  BY <1>1 DEF Done, IInv, TypeOK, Cand, Word
<1>3. c \in seen
  BY <1>1, <1>2 DEF IInv, Memory
<1> QED  BY <1>3 DEF IInv, Collected, ChunkClass

\* The variables keep their types: in particular the scan stays inside the
\* sections, and every class entered is one whose typeinfo is relocated.
THEOREM TypeCorrect == Spec => []TypeOK
<1>1. IInv => TypeOK
  BY DEF IInv
<1> QED  BY Invariance, <1>1, PTL

\* No list of get_vtables_from_module mixes classes, and its entries ascend.
THEOREM ListsOrdered == Spec => []ListsOfOneClass
BY Invariance, IInvOrdered, PTL

\* Entry 0 of a list, which VtableOffset reads, is the first table of its
\* class in memory.
THEOREM PrimaryFirst == Spec => []PrimaryIsFirst
BY Invariance, IInvPrimary, PTL

\* Filtering out constructors' tables loses no consecutive subtable.
THEOREM NoSubtableLost == Spec => []SubtablesKept
BY Invariance, IInvSubtables, PTL

\* Of the classes that have a table, the map misses at most the last one.
THEOREM AtMostLastMissing == Spec => []OnlyLastMissing
BY Invariance, IInvLast, PTL
=============================================================================
