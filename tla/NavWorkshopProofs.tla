-------------------------- MODULE NavWorkshopProofs --------------------------
(***************************************************************************)
(* Proofs about NavWorkshop, for any names, files and leftovers.           *)
(***************************************************************************)
EXTENDS NavWorkshop, SequenceTheorems, WellFoundedInduction, TLAPS

Searching == pc \in {"mod", "clean", "embed"}

\* What is known of a search in progress: nothing is read yet, what was
\* tried is not steady, and the buffer holds the clean name of a map of the
\* workshop.
Progress ==
  Searching =>
    /\ result = "none" /\ outBuffer = NoFile /\ fromBSP = FALSE
    /\ pc # "mod" => Wanted[1] \notin steady
    /\ pc # "mod" /\ OfWorkshop(mapname) => cleaned_map_name = CleanMapName(mapname)
    /\ pc = "embed" /\ OfWorkshop(mapname) => Wanted[2] \notin steady

IInv == TypeOK /\ Progress /\ ResultTells /\ NothingPassedOver

-----------------------------------------------------------------------------
\* A set of numbers that is not empty has a least one.
LEMMA Least ==
  ASSUME NEW S, S \subseteq Nat, S # {}
  PROVE  \E n \in S : \A m \in S : n <= m
<1>1. PICK n \in S : \A m \in S : <<m, n>> \notin OpToRel(<, Nat)
  BY NatLessThanWellFounded, WFMin, Zenon
<1>2. ASSUME NEW m \in S  PROVE n <= m
  <2>1. <<m, n>> \in Nat \X Nat
    OBVIOUS
  <2>2. ~(m < n)
    BY <1>1, <2>1 DEF OpToRel
  <2> QED  BY <2>2
<1> QED  BY <1>2

\* What is left of a name without its id is a name.
LEMMA WithoutIdType ==
  ASSUME NEW s \in Seq(Token)
  PROVE  WithoutId(s) \in Seq(Token)
<1> DEFINE S == {n \in 1..(Len(s) + 1) : n <= Len(s) => s[n] = ".ugc"}
<1> DEFINE P(n) == /\ n <= Len(s) => s[n] = ".ugc"
                   /\ \A m \in 1..(n - 1) : s[m] # ".ugc"
<1>1. Len(s) + 1 \in S /\ S \subseteq Nat
  OBVIOUS
<1>2. PICK n \in S : \A m \in S : n <= m
  BY <1>1, Least
<1>3. P(n) /\ n \in 1..(Len(s) + 1)
  BY <1>2
<1>4. \E k \in 1..(Len(s) + 1) : P(k)
  BY <1>3
<1> DEFINE k == CHOOSE k \in 1..(Len(s) + 1) : P(k)
<1>5. k \in 1..(Len(s) + 1)
  <2> HIDE DEF P
  <2> QED  BY <1>4, Zenon
<1>6. SubSeq(s, 1, k - 1) \in Seq(Token)
  <2> HIDE DEF k
  <2>1. \A i \in 1..(k - 1) : s[i] \in Token
    BY <1>5
  <2> QED  BY <1>5, <2>1, SubSeqProperties
<1> QED  BY <1>6 DEF WithoutId

LEMMA NameTypes ==
  ASSUME NEW s \in Seq(Token)
  PROVE  /\ CleanMapName(s) \in Seq(Token)
         /\ NavPath(s) \in Seq(Token)
         /\ cleaned_map_name \in Seq(Token) => Filled(s) \in Seq(Token)
         /\ OfWorkshop(s) => Filled(s) = CleanMapName(s)
<1>1. After(s, 2) \in Seq(Token)
  BY SubSeqProperties DEF After
<1>2. ASSUME Len(s) >= 1  PROVE After(s, 1) \in Seq(Token)
  BY SubSeqProperties DEF After
<1>3. After(s, 1) \in Seq(Token)
  BY SubSeqProperties DEF After
<1>4. Stripped(s) \in Seq(Token)
  BY <1>1, <1>3, NavAssumption, ConcatProperties DEF Stripped
<1>5. WithoutId(Stripped(s)) \in Seq(Token)
  BY <1>4, WithoutIdType
<1>6. NavPath(s) \in Seq(Token)
  BY NavAssumption, ConcatProperties DEF NavPath
<1> QED  BY <1>5, <1>6 DEF CleanMapName, Filled

\* Every name that is asked for has a type.
LEMMA WantedTypes ==
  ASSUME TypeOK
  PROVE  \A i \in 1..3 : Wanted[i] \in [path : Seq(Token), source : Source] /\ Wanted[i] # NoFile
<1>1. NavPath(mapname) \in Seq(Token) /\ NavPath(CleanMapName(mapname)) \in Seq(Token)
  BY NameTypes DEF TypeOK
<1>2. EmbedPath \in Seq(Token)
  <2>1. <<"embed">> \in Seq(Token)
    BY NavAssumption
  <2> QED  BY <2>1, NameTypes DEF EmbedPath
<1>3. \A i \in 1..3 : Wanted[i] \in [path : Seq(Token), source : Source]
  BY <1>1, <1>2 DEF Wanted, FileAt, Source
<1> QED  BY <1>3, NavAssumption

-----------------------------------------------------------------------------
LEMMA InitIInv == Init => IInv
<1> SUFFICES ASSUME Init  PROVE IInv
  OBVIOUS
<1>1. TypeOK
  <2>1. mapname \in Seq(Token) /\ cleaned_map_name \in Seq(Token)
    BY EmptySeq DEF Init
  <2>2. /\ files \subseteq File /\ steady \subseteq files
        /\ outBuffer \in [path : Seq(Token), source : Source] \cup {NoFile}
    BY DEF Init
  <2> QED  BY <2>1, <2>2 DEF Init, TypeOK
<1>2. Progress /\ ResultTells /\ NothingPassedOver
  BY DEF Init, Progress, Searching, ResultTells, NothingPassedOver
<1> QED  BY <1>1, <1>2 DEF IInv

LEMMA SearchPreserves ==
  ASSUME IInv, NEW m \in Map, NEW flag \in BOOLEAN, Search(m, flag)
  PROVE  IInv'
<1>1. TypeOK'
  BY NavAssumption DEF IInv, TypeOK, Search
<1>2. Progress' /\ ResultTells' /\ NothingPassedOver'
  BY DEF Search, Progress, Searching, ResultTells, NothingPassedOver
<1> QED  BY <1>1, <1>2 DEF IInv

LEMMA ModPreserves ==
  ASSUME IInv, TryMod
  PROVE  IInv'
<1> DEFINE f == FileAt(NavPath(mapname), "MOD")
<1>1. f = Wanted[1] /\ f \in [path : Seq(Token), source : Source] /\ f # NoFile
  BY WantedTypes DEF IInv, Wanted
<1>2. UNCHANGED Wanted /\ (OfWorkshop(mapname))' = OfWorkshop(mapname) /\ UNCHANGED CleanMapName(mapname)
  BY DEF TryMod, Found, callVars, Wanted
<1>3. CASE Found(f, KeepFlag) /\ UNCHANGED cleaned_map_name
  <2>1. TypeOK'
    BY <1>1, <1>3 DEF IInv, TypeOK, Found, KeepFlag, fileVars, callVars
  <2>2. ResultTells'
    BY <1>1, <1>3 DEF IInv, TypeOK, Progress, Searching, TryMod, Found, KeepFlag, ResultTells, FileAt, fileVars, callVars
  <2>3. Progress' /\ NothingPassedOver'
    <3>1. pc' = "game" /\ result' = "OK" /\ outBuffer' = Wanted[1] /\ UNCHANGED steady
      BY <1>1, <1>3 DEF Found, fileVars
    <3> QED  BY <1>2, <3>1 DEF Progress, Searching, NothingPassedOver
  <2> QED  BY <2>1, <2>2, <2>3 DEF IInv
<1>4. CASE /\ f \notin files /\ cleaned_map_name' = Filled(mapname) /\ pc' = "clean"
           /\ UNCHANGED <<fileVars, callVars, outBuffer, fromBSP, result>>
  <2>1. TypeOK'
    BY <1>4, NameTypes DEF IInv, TypeOK, fileVars, callVars
  <2>2. Progress'
    <3>1. pc = "mod"
      BY DEF TryMod
    <3>2. result' = "none" /\ outBuffer' = NoFile /\ fromBSP' = FALSE
      BY <1>4, <3>1 DEF IInv, Progress, Searching
    <3>3. Wanted'[1] \notin steady'
      BY <1>1, <1>2, <1>4 DEF IInv, TypeOK, fileVars
    <3>4. OfWorkshop(mapname) => Filled(mapname) = CleanMapName(mapname)
      BY NameTypes DEF IInv, TypeOK
    <3> QED  BY <1>2, <1>4, <3>2, <3>3, <3>4 DEF Progress, Searching
  <2>3. ResultTells' /\ NothingPassedOver'
    BY <1>4 DEF ResultTells, NothingPassedOver
  <2> QED  BY <2>1, <2>2, <2>3 DEF IInv
<1> QED  BY <1>3, <1>4 DEF TryMod

LEMMA CleanPreserves ==
  ASSUME IInv, TryClean
  PROVE  IInv'
<1> DEFINE f == FileAt(NavPath(cleaned_map_name), "BSP")
<1>1. /\ f \in [path : Seq(Token), source : Source] /\ f # NoFile /\ f.source = "BSP"
      /\ OfWorkshop(mapname) => f = Wanted[2]
  <2>1. NavPath(cleaned_map_name) \in Seq(Token)
    BY NameTypes DEF IInv, TypeOK
  <2>2. OfWorkshop(mapname) => f = Wanted[2]
    BY DEF IInv, Progress, Searching, TryClean, Wanted
  <2> QED  BY <2>1, <2>2, NavAssumption DEF FileAt, Source
<1>2. UNCHANGED Wanted /\ (OfWorkshop(mapname))' = OfWorkshop(mapname) /\ UNCHANGED CleanMapName(mapname)
  BY DEF TryClean, Found, callVars, Wanted
<1>3. /\ pc = "clean" /\ result = "none" /\ outBuffer = NoFile /\ fromBSP = FALSE
      /\ Wanted[1] \notin steady
      /\ OfWorkshop(mapname) => cleaned_map_name = CleanMapName(mapname)
  BY DEF IInv, Progress, Searching, TryClean
<1>4. CASE Found(f, SetFlag)
  <2>1. TypeOK'
    BY <1>1, <1>4 DEF IInv, TypeOK, Found, SetFlag, TryClean, fileVars, callVars
  <2>2. ResultTells'
    BY <1>1, <1>3, <1>4 DEF IInv, TypeOK, Found, SetFlag, ResultTells, fileVars, callVars
  <2>3. Progress' /\ NothingPassedOver'
    <3>1. pc' = "game" /\ result' = "OK" /\ outBuffer' = f /\ UNCHANGED steady
      BY <1>4 DEF Found, fileVars
    <3> HIDE DEF f
    <3> QED  BY <1>1, <1>2, <1>3, <3>1 DEF Progress, Searching, NothingPassedOver
  <2> QED  BY <2>1, <2>2, <2>3 DEF IInv
<1>5. CASE /\ f \notin files /\ pc' = "embed"
           /\ UNCHANGED <<fileVars, callVars, outBuffer, fromBSP, result>>
  <2>1. TypeOK'
    BY <1>5 DEF IInv, TypeOK, TryClean, fileVars, callVars
  <2>2. Progress'
    <3>1. OfWorkshop(mapname) => Wanted[2] \notin steady
      BY <1>1, <1>5 DEF IInv, TypeOK
    <3>2. UNCHANGED <<steady, cleaned_map_name, result, outBuffer, fromBSP>>
      BY <1>5 DEF TryClean, fileVars
    <3> QED  BY <1>2, <1>3, <1>5, <3>1, <3>2 DEF Progress, Searching
  <2>3. ResultTells' /\ NothingPassedOver'
    BY <1>5 DEF ResultTells, NothingPassedOver
  <2> QED  BY <2>1, <2>2, <2>3 DEF IInv
<1> QED  BY <1>4, <1>5 DEF TryClean

LEMMA EmbedPreserves ==
  ASSUME IInv, TryEmbed
  PROVE  IInv'
<1> DEFINE f == FileAt(EmbedPath, "BSP")
<1>1. f = Wanted[3] /\ f \in [path : Seq(Token), source : Source] /\ f # NoFile /\ f.source = "BSP"
  BY WantedTypes DEF IInv, Wanted, FileAt
<1>2. UNCHANGED Wanted /\ (OfWorkshop(mapname))' = OfWorkshop(mapname)
  BY DEF TryEmbed, Found, callVars, Wanted
<1>3. /\ pc = "embed" /\ result = "none" /\ outBuffer = NoFile /\ fromBSP = FALSE
      /\ Wanted[1] \notin steady
      /\ OfWorkshop(mapname) => Wanted[2] \notin steady
  BY DEF IInv, Progress, Searching, TryEmbed
<1>4. CASE Found(f, SetFlag)
  <2>1. TypeOK'
    BY <1>1, <1>4 DEF IInv, TypeOK, Found, SetFlag, TryEmbed, fileVars, callVars
  <2>2. ResultTells'
    BY <1>1, <1>3, <1>4 DEF IInv, TypeOK, Found, SetFlag, ResultTells, fileVars, callVars
  <2>3. Progress' /\ NothingPassedOver'
    <3>1. pc' = "game" /\ result' = "OK" /\ outBuffer' = f /\ UNCHANGED steady
      BY <1>4 DEF Found, fileVars
    <3> HIDE DEF f
    <3> QED  BY <1>1, <1>2, <1>3, <3>1 DEF Progress, Searching, NothingPassedOver
  <2> QED  BY <2>1, <2>2, <2>3 DEF IInv
<1>5. CASE /\ f \notin files /\ pc' = "game" /\ result' = "CANT_ACCESS_FILE"
           /\ UNCHANGED <<fileVars, callVars, outBuffer, fromBSP>>
  <2>1. TypeOK'
    BY <1>5 DEF IInv, TypeOK, TryEmbed, fileVars, callVars
  <2>2. ResultTells'
    BY <1>3, <1>5 DEF ResultTells, callVars
  <2>3. Progress' /\ NothingPassedOver'
    <3>1. f \notin steady /\ UNCHANGED steady
      BY <1>5 DEF IInv, TypeOK, fileVars
    <3> QED  BY <1>1, <1>2, <1>3, <1>5, <3>1 DEF Progress, Searching, NothingPassedOver
  <2> QED  BY <2>1, <2>2, <2>3 DEF IInv
<1> QED  BY <1>4, <1>5 DEF TryEmbed

\* Files that come do not become steady; those that go stop being so.
LEMMA FilesPreserve ==
  ASSUME IInv, NEW f \in File, FileAppears(f) \/ FileDisappears(f)
  PROVE  IInv'
<1>1. TypeOK'
  BY DEF IInv, TypeOK, FileAppears, FileDisappears, callVars
<1>2. /\ steady' \subseteq steady /\ UNCHANGED Wanted
      /\ UNCHANGED <<callVars, cleaned_map_name, pc, outBuffer, fromBSP, result>>
      /\ (OfWorkshop(mapname))' = OfWorkshop(mapname) /\ UNCHANGED CleanMapName(mapname)
  BY DEF FileAppears, FileDisappears, callVars, Wanted
<1>3. Progress'
  BY <1>2 DEF IInv, Progress, Searching
<1>4. ResultTells' /\ NothingPassedOver'
  BY <1>2 DEF IInv, ResultTells, NothingPassedOver, callVars
<1> QED  BY <1>1, <1>3, <1>4 DEF IInv

LEMMA StepIInv == IInv /\ [Next]_vars => IInv'
<1> SUFFICES ASSUME IInv, [Next]_vars  PROVE IInv'
  OBVIOUS
<1>1. ASSUME NEW m \in Map, NEW flag \in BOOLEAN, Search(m, flag)  PROVE IInv'
  BY <1>1, SearchPreserves
<1>2. CASE TryMod
  BY <1>2, ModPreserves
<1>3. CASE TryClean
  BY <1>3, CleanPreserves
<1>4. CASE TryEmbed
  BY <1>4, EmbedPreserves
<1>5. ASSUME NEW f \in File, FileAppears(f) \/ FileDisappears(f)  PROVE IInv'
  BY <1>5, FilesPreserve
<1>6. CASE UNCHANGED vars
  BY <1>6 DEF vars, fileVars, callVars, IInv, TypeOK, Progress, Searching, ResultTells,
     NothingPassedOver, Wanted
<1> QED  BY <1>1, <1>2, <1>3, <1>4, <1>5, <1>6 DEF Next

LEMMA Inductive == Spec => []IInv
  BY InitIInv, StepIInv, PTL DEF Spec

-----------------------------------------------------------------------------
\* Every variable keeps its type: whatever a name looks like, what is left of
\* it after cleaning is a name.
THEOREM TypeCorrect == Spec => []TypeOK
<1>1. IInv => TypeOK
  BY DEF IInv
<1> QED  BY <1>1, Inductive, PTL

\* The result and the caller's flag tell what was read, for any files.
THEOREM ResultRight == Spec => []ResultTells
<1>1. IInv => ResultTells
  BY DEF IInv
<1> QED  BY <1>1, Inductive, PTL

\* No file that stays is passed over for a worse one, for any maps and files.
THEOREM BestFile == Spec => []NothingPassedOver
<1>1. IInv => NothingPassedOver
  BY DEF IInv
<1> QED  BY <1>1, Inductive, PTL
=============================================================================
