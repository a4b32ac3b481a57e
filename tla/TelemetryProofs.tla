--------------------------- MODULE TelemetryProofs ---------------------------
(***************************************************************************)
(* Proofs about Telemetry, for any number of threads, levels and scopes.   *)
(***************************************************************************)
EXTENDS Telemetry, SequenceTheorems, TLAPS

Writing == {"tick_clear", "tick_set", "tick_state"}

\* Who holds the mutex follows from where the threads are, and a writer is
\* alone.
Lock ==
  /\ readers = {t \in Thread : pc[t] \in Reading}
  /\ writing <=> pc[Main] \in Writing
  /\ writing => readers = {}

\* Only the main thread ticks, while the module exists; what the tick has
\* written so far.
Ticking ==
  /\ \A t \in Thread : pc[t] \in Writing \cup {"tick", "constructing"} => t = Main
  /\ pc[Main] \in Writing \cup {"tick"} => installed
  /\ pc[Main] = "constructing" => ~installed
  /\ pc[Main] = "tick_clear" => ~profileAll
  /\ pc[Main] = "tick_set" /\ ~profileAll => tmContext = {}
  /\ pc[Main] = "tick_state" => tmContext = IF profileAll THEN Level ELSE {level}

\* ZonesMatchScopes for one thread, with stack s and d open scopes.
MatchOf(s, d) == Len(s) <= d /\ \A i \in 1..Len(s) : s[i].depth = d - Len(s) + i

IInv ==
  TypeOK /\ Lock /\ Ticking /\ ZonesMatchScopes /\ ZonesOfOneLevel /\ TableAgrees

LEMMA InitIInv == Init => IInv
<1> SUFFICES ASSUME Init  PROVE IInv
  OBVIOUS
<1>1. TypeOK
  <2>1. <<>> \in Seq(Zone)
    OBVIOUS
  <2> QED
    BY <2>1, TelemetryAssumption DEF Init, TypeOK, State, Place
<1>2. Lock /\ Ticking /\ TableAgrees
  BY TelemetryAssumption DEF Init, Lock, Ticking, TableAgrees, Waiting, Reading, Writing
<1>3. ZonesMatchScopes /\ ZonesOfOneLevel
  BY DEF Init, ZonesMatchScopes, ZonesOfOneLevel
<1> QED  BY <1>1, <1>2, <1>3 DEF IInv

-----------------------------------------------------------------------------
(* Every step preserves the invariant.                                     *)

\* The engine, and the life of the module.
LEMMA ModuleStep ==
  ASSUME IInv,
         \/ \E l \in Level : SetLevel(l)
         \/ SetProfileAll \/ BeginConstruct \/ FinishConstruct \/ Destroy
  PROVE  IInv'
<1> USE TelemetryAssumption DEF engineVars, lockVars, Goto
<1>1. CASE \E l \in Level : SetLevel(l)
  BY <1>1 DEF SetLevel, IInv, TypeOK, Lock, Ticking,
     ZonesMatchScopes, ZonesOfOneLevel, TableAgrees, State, Place, Waiting, Reading, Writing
<1>2. CASE SetProfileAll
  BY <1>2 DEF SetProfileAll, IInv, TypeOK, Lock, Ticking,
     ZonesMatchScopes, ZonesOfOneLevel, TableAgrees, State, Place, Waiting, Reading, Writing
<1>3. CASE BeginConstruct
  <2>1. levelState' \in State
    BY <1>3 DEF BeginConstruct, IInv, TypeOK, State
  <2>2. TypeOK'
    BY <1>3, <2>1 DEF BeginConstruct, IInv, TypeOK, Place
  <2>3. Lock' /\ Ticking' /\ TableAgrees'
    BY <1>3 DEF BeginConstruct, IInv, TypeOK, Lock, Ticking, TableAgrees, Waiting,
       Reading, Writing
  <2>4. ZonesMatchScopes' /\ ZonesOfOneLevel'
    BY <1>3 DEF BeginConstruct, IInv, ZonesMatchScopes, ZonesOfOneLevel
  <2> QED  BY <2>2, <2>3, <2>4 DEF IInv
<1>4. CASE FinishConstruct
  BY <1>4 DEF FinishConstruct, IInv, TypeOK, Lock, Ticking,
     ZonesMatchScopes, ZonesOfOneLevel, TableAgrees, State, Place, Waiting, Reading, Writing
<1>5. CASE Destroy
  BY ZenonT(60), <1>5 DEF Destroy, IInv, TypeOK, Lock, Ticking,
     ZonesMatchScopes, ZonesOfOneLevel, TableAgrees, State, Place, Waiting, Reading, Writing
<1> QED  BY <1>1, <1>2, <1>3, <1>4, <1>5

\* The tick, which the main thread alone takes.
LEMMA MainTickStep ==
  ASSUME IInv, Tick \/ TickStep
  PROVE  IInv'
<1> USE TelemetryAssumption DEF engineVars, lockVars, Goto
<1>1. CASE Tick
  <2>1. TypeOK'
    BY <1>1 DEF Tick, IInv, TypeOK, Place
  <2>2. Lock' /\ Ticking' /\ TableAgrees'
    BY <1>1 DEF Tick, IInv, TypeOK, Lock, Ticking, TableAgrees, Waiting, Reading, Writing
  <2>3. ZonesMatchScopes' /\ ZonesOfOneLevel'
    BY <1>1 DEF Tick, IInv, ZonesMatchScopes, ZonesOfOneLevel
  <2> QED  BY <2>1, <2>2, <2>3 DEF IInv
<1>2. CASE TickLock
  BY <1>2 DEF TickLock, IInv, TypeOK, Lock, Ticking,
     ZonesMatchScopes, ZonesOfOneLevel, TableAgrees, State, Place, Waiting, Reading, Writing
<1>3. CASE TickClear
  BY <1>3 DEF TickClear, IInv, TypeOK, Lock, Ticking,
     ZonesMatchScopes, ZonesOfOneLevel, TableAgrees, State, Place, Waiting, Reading, Writing
<1>4. CASE \E l \in Level : TickSet(l)
  BY <1>4 DEF TickSet, IInv, TypeOK, Lock, Ticking,
     ZonesMatchScopes, ZonesOfOneLevel, TableAgrees, State, Place, Waiting, Reading, Writing
<1>5. CASE TickSetAgain
  BY <1>5 DEF TickSetAgain, IInv, TypeOK, Lock, Ticking,
     ZonesMatchScopes, ZonesOfOneLevel, TableAgrees, State, Place, Waiting, Reading, Writing
<1>6. CASE TickState
  BY ZenonT(60), <1>6 DEF TickState, IInv, TypeOK, Lock, Ticking,
     ZonesMatchScopes, ZonesOfOneLevel, TableAgrees, State, Place, Waiting, Reading, Writing
<1> QED  BY <1>1, <1>2, <1>3, <1>4, <1>5, <1>6 DEF TickStep

\* Calls into the module, and taking the mutex shared.
LEMMA CallStep ==
  ASSUME IInv, NEW t \in Thread, Call(t) \/ ReadLock(t)
  PROVE  IInv'
<1> USE TelemetryAssumption DEF engineVars, lockVars, Goto
<1>1. CASE \E l \in Level, place \in {"enter", "enter_wait"} : CallEnter(t, l, place)
  BY <1>1 DEF CallEnter, IInv, TypeOK, Lock, Ticking,
     ZonesMatchScopes, ZonesOfOneLevel, TableAgrees, State, Place, Waiting, Reading, Writing
<1>2. CASE CallLeave(t)
  BY <1>2 DEF CallLeave, IInv, TypeOK, Lock, Ticking,
     ZonesMatchScopes, ZonesOfOneLevel, TableAgrees, State, Place, Waiting, Reading, Writing
<1>3. CASE CallDraw(t)
  BY <1>3 DEF CallDraw, IInv, TypeOK, Lock, Ticking,
     ZonesMatchScopes, ZonesOfOneLevel, TableAgrees, State, Place, Waiting, Reading, Writing
<1>4. CASE ReadLock(t)
  BY <1>4 DEF ReadLock, IInv, TypeOK, Lock, Ticking,
     ZonesMatchScopes, ZonesOfOneLevel, TableAgrees, State, Place, Waiting, Reading, Writing
<1> QED  BY <1>1, <1>2, <1>3, <1>4 DEF Call

\* What check_level does to the state of its thread: the zones it leaves
\* are those of the state it has observed now.
LEMMA CheckLevel ==
  ASSUME IInv, NEW t \in Thread, SameLevel(t) \/ OtherLevel(t)
  PROVE  /\ observed' \in [Thread -> State]
         /\ zones' \in [Thread -> Seq(Zone)]
         /\ readers' = readers \ {t}
         /\ ZonesOfOneLevel'
         /\ \A u \in Thread : zones'[u] = zones[u] \/ (u = t /\ zones'[u] = <<>>)
<1> USE DEF IInv, TypeOK
<1>1. CASE SameLevel(t)
  BY <1>1 DEF SameLevel, ZonesOfOneLevel
<1>2. CASE OtherLevel(t)
  <2>1. <<>> \in Seq(Zone) /\ Len(<<>>) = 0
    OBVIOUS
  <2>2. observed' \in [Thread -> State] /\ zones' \in [Thread -> Seq(Zone)]
    BY <1>2, <2>1 DEF OtherLevel
  <2>3. zones'[t] = <<>> /\ \A u \in Thread \ {t} : zones'[u] = zones[u] /\ observed'[u] = observed[u]
    BY <1>2 DEF OtherLevel
  <2>4. ZonesOfOneLevel'
    BY <2>1, <2>3 DEF ZonesOfOneLevel
  <2> QED  BY <1>2, <2>2, <2>3, <2>4 DEF OtherLevel
<1> QED  BY <1>1, <1>2

\* The steps that check the level, and the end of draw_overlay.
LEMMA CheckStep ==
  ASSUME IInv, NEW t \in Thread,
         DrawDone(t) \/ CheckEnter(t) \/ CheckEnterWait(t) \/ CheckLeave(t)
  PROVE  IInv'
<1> USE TelemetryAssumption DEF engineVars, lockVars, Goto
<1>1. CASE DrawDone(t)
  BY <1>1 DEF DrawDone, IInv, TypeOK, Lock, Ticking,
     ZonesMatchScopes, ZonesOfOneLevel, TableAgrees, State, Place, Waiting, Reading, Writing
<1>2. CASE CheckEnter(t) \/ CheckEnterWait(t) \/ CheckLeave(t)
  <2>1. SameLevel(t) \/ OtherLevel(t)
    BY <1>2 DEF CheckEnter, CheckEnterWait, CheckLeave
  <2>2. /\ depth' \in [Thread -> Nat]
        /\ \A u \in Thread \ {t} : depth'[u] = depth[u]
        /\ zones'[t] = <<>> \/ (zones'[t] = zones[t] /\ depth'[t] = depth[t])
    <3> USE DEF IInv, TypeOK
    <3>1. CASE CheckEnter(t)
      <4>1. depth[t] + 1 \in Nat
        OBVIOUS
      <4>2. CASE SameLevel(t) /\ UNCHANGED depth
        BY <4>2 DEF SameLevel
      <4>3. CASE OtherLevel(t) /\ depth' = [depth EXCEPT ![t] = @ + 1]
        <5>1. depth' \in [Thread -> Nat] /\ \A u \in Thread \ {t} : depth'[u] = depth[u]
          BY <4>1, <4>3
        <5> QED  BY <4>3, <5>1 DEF OtherLevel
      <4> QED  BY <3>1, <4>2, <4>3 DEF CheckEnter
    <3>3. CASE CheckEnterWait(t)
      BY <3>3 DEF CheckEnterWait, SameLevel, OtherLevel
    <3>2. CASE CheckLeave(t)
      <4>1. depth[t] \in Nat
        OBVIOUS
      <4>2. depth' = depth \/ depth' = [depth EXCEPT ![t] = Left(@)]
        BY <3>2 DEF CheckLeave
      <4>3. Left(depth[t]) \in Nat
        BY <4>1 DEF Left
      <4>4. depth' \in [Thread -> Nat] /\ \A u \in Thread \ {t} : depth'[u] = depth[u]
        BY <4>2, <4>3
      <4> QED
        BY <3>2, <4>4 DEF CheckLeave, SameLevel, OtherLevel
    <3> QED  BY <1>2, <3>1, <3>2, <3>3
  <2>3. TypeOK'
    BY ZenonT(60), <1>2, <2>1, <2>2, CheckLevel DEF CheckEnter, CheckEnterWait, CheckLeave, IInv, TypeOK, Place
  <2>4. Lock' /\ Ticking' /\ TableAgrees'
    <3>1. pc[t] \in Reading /\ pc[t] \notin Writing \cup {"tick", "constructing"}
      BY <1>2 DEF CheckEnter, CheckEnterWait, CheckLeave, Reading, Writing
    <3>2. pc' \in [Thread -> Place] /\ pc'[t] \in {"game", "enter_push", "leave_pop"}
          /\ \A u \in Thread \ {t} : pc'[u] = pc[u]
      BY <1>2, <2>3 DEF CheckEnter, CheckEnterWait, CheckLeave, IInv, TypeOK
    <3>4. UNCHANGED <<level, profileAll, tmContext, levelState, writing, installed>>
      BY <1>2 DEF CheckEnter, CheckEnterWait, CheckLeave
    <3>5. readers' = readers \ {t}
      BY <2>1, CheckLevel
    <3>6. Lock'
      BY <3>1, <3>2, <3>4, <3>5 DEF IInv, Lock, Reading, Writing
    <3>7. Ticking' /\ TableAgrees'
      BY <3>1, <3>2, <3>4 DEF IInv, Ticking, TableAgrees, Writing, Reading
    <3> QED  BY <3>6, <3>7
  <2>5. ZonesMatchScopes'
    <3> SUFFICES ASSUME NEW u \in Thread  PROVE MatchOf(zones'[u], depth'[u])
      BY DEF ZonesMatchScopes, MatchOf
    <3>1. MatchOf(zones[u], depth[u])
      BY DEF IInv, ZonesMatchScopes, MatchOf
    <3>2. CASE zones'[u] = <<>>
      BY <2>2, <3>2 DEF MatchOf
    <3>3. CASE zones'[u] = zones[u] /\ depth'[u] = depth[u]
      BY <3>1, <3>3
    <3> QED  BY <2>1, <2>2, <3>2, <3>3, CheckLevel
  <2> QED  BY <2>1, <2>3, <2>4, <2>5, CheckLevel DEF IInv
<1> QED  BY <1>1, <1>2

\* A zone is begun on the stack of its thread.
LEMMA PushStep ==
  ASSUME IInv, NEW t \in Thread, Push(t)
  PROVE  IInv'
<1> USE TelemetryAssumption DEF engineVars, lockVars, Goto
<1> DEFINE z == [depth |-> depth[t] + 1, state |-> observed[t]]
<1>1. z \in Zone
  BY DEF IInv, TypeOK, Zone
<1>2. /\ zones'[t] = Append(zones[t], z) /\ depth'[t] = depth[t] + 1
      /\ \A u \in Thread \ {t} : zones'[u] = zones[u] /\ depth'[u] = depth[u]
  BY DEF Push, IInv, TypeOK
<1>3. /\ zones[t] \in Seq(Zone) /\ zones'[t] \in Seq(Zone) /\ Len(zones'[t]) = Len(zones[t]) + 1
      /\ \A i \in 1..Len(zones[t]) : zones'[t][i] = zones[t][i]
      /\ zones'[t][Len(zones[t]) + 1] = z
  BY <1>1, <1>2, AppendProperties DEF IInv, TypeOK
<1>4. TypeOK'
  BY <1>2, <1>3 DEF Push, IInv, TypeOK, Place
<1>5. Lock' /\ Ticking' /\ TableAgrees'
  BY <1>2 DEF Push, IInv, TypeOK, Lock, Ticking, TableAgrees, Waiting, Reading, Writing
<1>6. ZonesMatchScopes'
  <2> SUFFICES ASSUME NEW u \in Thread  PROVE MatchOf(zones'[u], depth'[u])
    BY DEF ZonesMatchScopes, MatchOf
  <2>1. MatchOf(zones[u], depth[u]) /\ Len(zones[t]) \in Nat /\ depth[t] \in Nat
    BY <1>3 DEF IInv, TypeOK, ZonesMatchScopes, MatchOf
  <2>2. CASE u = t
    <3>1. Len(zones'[t]) <= depth'[t]
      BY <1>2, <1>3, <2>1, <2>2 DEF MatchOf
    <3>2. ASSUME NEW i \in 1..Len(zones'[t])
          PROVE  zones'[t][i].depth = depth'[t] - Len(zones'[t]) + i
      <4>1. CASE i = Len(zones[t]) + 1
        <5>1. zones'[t][i].depth = depth[t] + 1
          BY <1>3, <4>1
        <5> QED  BY <1>2, <1>3, <2>1, <4>1, <5>1
      <4>2. CASE i # Len(zones[t]) + 1
        <5>1. i \in 1..Len(zones[t]) /\ Len(zones[t]) \in Nat
          BY <1>3, <2>1, <4>2
        <5>2. zones'[t][i].depth = depth[t] - Len(zones[t]) + i
          BY <1>3, <2>1, <2>2, <5>1 DEF MatchOf
        <5> QED  BY <1>2, <1>3, <2>1, <5>1, <5>2
      <4> QED  BY <4>1, <4>2
    <3> QED  BY <2>2, <3>1, <3>2 DEF MatchOf
  <2>3. CASE u # t
    BY <1>2, <2>1, <2>3
  <2> QED  BY <2>2, <2>3
<1>7. ZonesOfOneLevel'
  BY <1>2, <1>3 DEF Push, IInv, TypeOK, ZonesOfOneLevel
<1> QED  BY <1>4, <1>5, <1>6, <1>7 DEF IInv

\* The zone on top is ended, if there is one.
LEMMA PopStep ==
  ASSUME IInv, NEW t \in Thread, Pop(t)
  PROVE  IInv'
<1> USE TelemetryAssumption DEF engineVars, lockVars, Goto
<1>1. /\ zones'[t] = IF zones[t] = <<>> THEN <<>> ELSE SubSeq(zones[t], 1, Len(zones[t]) - 1)
      /\ depth'[t] = Left(depth[t]) /\ depth' \in [Thread -> Nat]
      /\ \A u \in Thread \ {t} : zones'[u] = zones[u] /\ depth'[u] = depth[u]
  <2>1. Left(depth[t]) \in Nat
    BY DEF Left, IInv, TypeOK
  <2> QED  BY <2>1 DEF Pop, IInv, TypeOK
<1>2. /\ zones[t] \in Seq(Zone) /\ zones'[t] \in Seq(Zone)
      /\ zones[t] # <<>> => Len(zones'[t]) = Len(zones[t]) - 1
      /\ zones[t] = <<>> => Len(zones'[t]) = 0
      /\ Len(zones[t]) \in Nat
      /\ \A i \in 1..Len(zones'[t]) : zones'[t][i] = zones[t][i]
  <2>1. CASE zones[t] = <<>>
    BY <1>1, <2>1
  <2>2. CASE zones[t] # <<>>
    <3>1. zones[t] \in Seq(Zone) /\ Len(zones[t]) \in Nat \ {0}
      BY <2>2, EmptySeq DEF IInv, TypeOK
    <3>2. \A i \in 1..(Len(zones[t]) - 1) : zones[t][i] \in Zone
      BY <3>1, ElementOfSeq
    <3> QED
      BY <1>1, <2>2, <3>1, <3>2, SubSeqProperties
  <2> QED  BY <2>1, <2>2
<1>3. TypeOK'
  BY <1>1, <1>2 DEF Pop, IInv, TypeOK, Place
<1>4. Lock' /\ Ticking' /\ TableAgrees'
  BY <1>1 DEF Pop, IInv, TypeOK, Lock, Ticking, TableAgrees, Waiting, Reading, Writing
<1>5. ZonesMatchScopes'
  <2> SUFFICES ASSUME NEW u \in Thread  PROVE MatchOf(zones'[u], depth'[u])
    BY DEF ZonesMatchScopes, MatchOf
  <2>1. MatchOf(zones[u], depth[u]) /\ depth[t] \in Nat
    BY DEF IInv, TypeOK, ZonesMatchScopes, MatchOf
  <2>2. CASE u = t
    <3>1. CASE zones[t] = <<>>
      BY <1>1, <1>2, <2>1, <2>2, <3>1 DEF MatchOf, Left
    <3>2. CASE zones[t] # <<>>
      <4>1. Len(zones'[t]) = Len(zones[t]) - 1 /\ depth'[t] = depth[t] - 1
        <5>1. depth[t] # 0
          BY <1>2, <2>1, <2>2, <3>2, EmptySeq DEF MatchOf
        <5> QED  BY <1>1, <1>2, <3>2, <5>1 DEF Left
      <4>2. ASSUME NEW i \in 1..Len(zones'[t])
            PROVE  zones'[t][i].depth = depth'[t] - Len(zones'[t]) + i
        <5>1. i \in 1..Len(zones[t]) /\ zones'[t][i] = zones[t][i]
          BY <1>2, <4>1
        <5>2. zones[t][i].depth = depth[t] - Len(zones[t]) + i
          BY <2>1, <2>2, <5>1 DEF MatchOf
        <5> QED  BY <1>2, <2>1, <4>1, <5>1, <5>2
      <4> QED  BY <1>2, <2>1, <2>2, <4>1, <4>2 DEF MatchOf
    <3> QED  BY <3>1, <3>2
  <2>3. CASE u # t
    BY <1>1, <2>1, <2>3
  <2> QED  BY <2>2, <2>3
<1>6. ZonesOfOneLevel'
  BY <1>1, <1>2 DEF Pop, IInv, TypeOK, ZonesOfOneLevel
<1> QED  BY <1>3, <1>4, <1>5, <1>6 DEF IInv

LEMMA StepIInv == IInv /\ [Next]_vars => IInv'
<1> SUFFICES ASSUME IInv, [Next]_vars  PROVE IInv'
  OBVIOUS
<1>1. CASE Next
  BY <1>1, ModuleStep, MainTickStep, CallStep, CheckStep, PushStep, PopStep DEF Next, Inside
<1>2. CASE UNCHANGED vars
  BY <1>2 DEF vars, IInv, TypeOK, Lock, Ticking, ZonesMatchScopes, ZonesOfOneLevel,
     TableAgrees
<1> QED  BY <1>1, <1>2

LEMMA AlwaysIInv == Spec => []IInv
BY InitIInv, StepIInv, PTL DEF Spec

-----------------------------------------------------------------------------
(* The theorems.                                                           *)

\* Type correctness: the depth of open scopes never goes below zero.
THEOREM TypeCorrect == Spec => []TypeOK
<1>1. IInv => TypeOK
  BY DEF IInv
<1> QED  BY <1>1, AlwaysIInv, PTL

\* However levels change and threads interleave, the end of a scope never
\* ends the zone of another scope.
THEOREM ScopesAndZones == Spec => []ZonesMatchScopes
<1>1. IInv => ZonesMatchScopes
  BY DEF IInv
<1> QED  BY <1>1, AlwaysIInv, PTL

\* A thread never has zones of two level states open.
THEOREM OneLevel == Spec => []ZonesOfOneLevel
<1>1. IInv => ZonesOfOneLevel
  BY DEF IInv
<1> QED  BY <1>1, AlwaysIInv, PTL

\* Outside the tick the table of contexts is the one of the level state.
THEOREM Table == Spec => []TableAgrees
<1>1. IInv => TableAgrees
  BY DEF IInv
<1> QED  BY <1>1, AlwaysIInv, PTL

\* The mutex keeps the level state still under every reader, for as long as
\* the module exists.
THEOREM ReadersSeeOneState == Spec => StableUnderReaders
<1>1. IInv /\ [Next]_vars => [installed /\ readers # {} => levelState' = levelState]_vars
  <2> SUFFICES ASSUME IInv, Next, installed, readers # {}
               PROVE  levelState' = levelState
    OBVIOUS
  <2>1. pc[Main] \notin Writing \cup {"constructing"}
    BY DEF IInv, Lock, Ticking
  <2> QED
    BY <2>1 DEF Next, SetLevel, SetProfileAll, BeginConstruct, FinishConstruct, Destroy, Tick,
       TickStep, TickLock, TickClear, TickSet, TickSetAgain, TickState, Call, CallEnter,
       CallLeave, CallDraw, ReadLock, Inside, DrawDone, CheckEnter, CheckEnterWait, CheckLeave,
       Push, Pop, Writing
<1> QED  BY <1>1, AlwaysIInv, PTL DEF Spec, StableUnderReaders
=============================================================================
