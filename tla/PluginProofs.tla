----------------------------- MODULE PluginProofs -----------------------------
(***************************************************************************)
(* Proofs about Plugin, for any set of hooks, modules and threads.         *)
(*                                                                         *)
(* None of the properties is inductive alone.  IInv ties the phase of each *)
(* part to what gum has attached (Attachments), to the stage of Load or    *)
(* Unload and what that stage has still to do (Stages), and says that the  *)
(* overlay is the last part to come and the first to go (OverlayLast).     *)
(* InCallbacks says which threads are in a callback that is still there.   *)
(***************************************************************************)
EXTENDS Plugin, FiniteSetTheorems, TLAPS

Idle(p) == object[p] \in {"none", "gone"}

Away == {"unloaded", "interfaces", "offsets", "classes", "reset_classes",
         "unregister", "destroy_interceptor", "cleanup", "threw"}

\* What gum has attached, and what is diverted, is what the objects say.
Attachments ==
  /\ active = attached
  /\ \A h \in Listener : h \in attached <=> object[h] \in {"hooked", "ready", "closing"}
  /\ \A h \in Replacement : h \in attached <=> object[h] = "ready"
  /\ \A p \in Replacement \cup Command : object[p] \in {"none", "ready", "gone"}

\* What the main thread has done and has still to do in each stage.
Stages ==
  /\ pc \in Away => \A p \in ModulePart : Idle(p)
  /\ pc = "modules" =>
       /\ todo \subseteq ModulePart
       /\ \A p \in ModulePart \ todo : object[p] = "ready"
       /\ \A p \in todo : Idle(p) \/ (NextToConstruct(p) /\ object[p] \in {"listener", "hooked"})
  /\ pc = "loaded" => \A p \in ModulePart : object[p] = "ready"
  /\ pc \in {"teardown", "unwind"} =>
       /\ todo \subseteq ModulePart
       /\ \A p \in ModulePart \ todo : Idle(p)
       /\ \A p \in todo : object[p] = "ready" \/ NextToDestroy(p)
  /\ pc = "cleanup" => transaction = 1
  /\ pc \notin {"cleanup", "unwind", "threw"} => transaction = 0

OverlayLast ==
  /\ pc = "modules" /\ todo # {} => Overlay \in todo
  /\ pc = "unwind" => Overlay \notin todo
  /\ pc = "teardown" /\ Overlay \in todo => todo = ModulePart /\ firstOut = ModuleOf[Overlay]

\* Console names and the objects behind them.
Console ==
  /\ ConsoleFollowsCommands
  /\ pc \in Away \ {"reset_classes", "threw"} => Idle(ClassCommand)

\* A listener that is built holds two references on its GObject.
References ==
  /\ \A h \in Listener : ~Idle(h) => refs[h] = 2
  /\ RecordedListenersReferenced

\* A thread in a callback finds it there as long as it is not overtaken.
InCallbacks ==
  \A t \in InPlugin \ overtaken :
    target[t] \in Listener => object[target[t]] = "ready"

IInv == TypeOK /\ Attachments /\ Stages /\ OverlayLast /\ Console /\ References
          /\ InCallbacks

-----------------------------------------------------------------------------
(* Facts about the constants and the two orders.                           *)

LEMMA Parts ==
  /\ Overlay \in ModulePart /\ Overlay \in Probe /\ Overlay \in Listener
  /\ Hook \subseteq ModulePart
  /\ ClassCommand \notin ModulePart /\ ClassCommand \in Part /\ ClassCommand \notin Hook
  /\ Main \in Thread
BY PartAssumption, ModuleAssumption DEF ModulePart, Part, Hook, Listener

LEMMA ConstructionOrder ==
  ASSUME NEW p \in ModulePart, NEW q \in ModulePart, p # q, ConstructedBefore(p, q)
  PROVE  ~ConstructedBefore(q, p)
BY ModuleAssumption DEF ConstructedBefore

LEMMA DestructionOrder ==
  ASSUME NEW p \in ModulePart, NEW q \in ModulePart, p # q, DestroyedBefore(p, q),
         firstOut \in Nat
  PROVE  ~DestroyedBefore(q, p)
BY ModuleAssumption DEF DestroyedBefore

LEMMA OneToConstruct ==
  ASSUME todo \subseteq ModulePart, NEW p, NEW q, NextToConstruct(p), NextToConstruct(q)
  PROVE  p = q
BY ConstructionOrder DEF NextToConstruct

LEMMA OneToDestroy ==
  ASSUME todo \subseteq ModulePart, firstOut \in Nat, NEW p, NEW q,
         NextToDestroy(p), NextToDestroy(q)
  PROVE  p = q
BY DestructionOrder DEF NextToDestroy

\* The overlay is constructed when nothing else is left to construct.
LEMMA OverlayConstructedLast ==
  ASSUME todo \subseteq ModulePart, NextToConstruct(Overlay)
  PROVE  todo = {Overlay}
BY Parts, ModuleAssumption DEF NextToConstruct, ConstructedBefore

\* Nothing is destroyed before the overlay when the overlay goes first.
LEMMA OverlayDestroyedFirst ==
  ASSUME todo = ModulePart, firstOut = ModuleOf[Overlay], NEW p, NextToDestroy(p)
  PROVE  p = Overlay
BY Parts, ModuleAssumption DEF NextToDestroy, DestroyedBefore

LEMMA InitIInv == Init => IInv
BY Parts, PartAssumption, ModuleAssumption DEF Init, IInv, TypeOK, Attachments, Stages, OverlayLast,
   Console, References, RecordedListenersReferenced, ConsoleFollowsCommands, InCallbacks, InPlugin, Idle, Away,
   Phase, Place, Fault, Control, Hook, Listener, Part, ModulePart

\* The last step of a listener's life gives one of its two references back.
LEMMA ReferenceGivenBack ==
  ASSUME TypeOK, References, NEW p \in Listener, ~Idle(p),
         refs' = [refs EXCEPT ![p] = @ - 1],
         object' = [object EXCEPT ![p] = "gone"],
         UNCHANGED listeners
  PROVE  refs' \in [Listener -> Nat] /\ References'
<1>1. refs[p] = 2
  BY DEF References
<1>2. refs'[p] = 1 /\ \A h \in Listener \ {p} : refs'[h] = refs[h]
  BY <1>1 DEF TypeOK
<1>3. \A h \in Listener \ {p} : object'[h] = object[h]
  BY DEF TypeOK, Part, Hook
<1>4. object'[p] = "gone"
  BY DEF TypeOK, Part, Hook
<1>5. refs' \in [Listener -> Nat]
  BY <1>1 DEF TypeOK
<1> QED
  BY <1>2, <1>3, <1>4, <1>5 DEF References, RecordedListenersReferenced, Idle, TypeOK

-----------------------------------------------------------------------------
(* Every step of the main thread preserves the invariant.                  *)

\* The steps of Load up to the first module, and its end.
LEMMA LoadStep ==
  ASSUME IInv,
         \/ StartLoad \/ LoadInterfaces \/ InitOffsets \/ InitOffsetsThrows
         \/ LoadClientClasses \/ FinishLoad
  PROVE  IInv'
<1> USE DEF gumVars, threadVars, objectVars
<1>1. CASE StartLoad
  BY <1>1 DEF StartLoad, IInv, TypeOK, Attachments, Stages,
     OverlayLast, Console, References, RecordedListenersReferenced, ConsoleFollowsCommands, InCallbacks, InPlugin, Idle, Away, Control
<1>2. CASE LoadInterfaces
  BY <1>2, Parts, ModuleAssumption DEF LoadInterfaces, Part, IInv, TypeOK, Attachments, Stages,
     OverlayLast, Console, References, RecordedListenersReferenced, ConsoleFollowsCommands, InCallbacks, InPlugin, Idle, Away, Control
<1>3. CASE InitOffsets \/ InitOffsetsThrows
  BY <1>3 DEF InitOffsets, InitOffsetsThrows, IInv, TypeOK, Attachments, Stages,
     OverlayLast, Console, References, RecordedListenersReferenced, ConsoleFollowsCommands, InCallbacks, InPlugin, Idle, Away, Control
<1>4. CASE LoadClientClasses
  <2>1. TypeOK'
    BY <1>4, Parts DEF LoadClientClasses, IInv, TypeOK, InPlugin, Phase, Control, ModulePart, Part
  <2>2. Attachments'
    BY <1>4, Parts, PartAssumption DEF LoadClientClasses, IInv, TypeOK, Attachments, Hook, Listener, Part
  <2>3. Stages'
    BY <1>4, Parts DEF LoadClientClasses, IInv, TypeOK, Stages, Idle, Away
  <2>4. OverlayLast' /\ InCallbacks'
    BY <1>4, Parts DEF LoadClientClasses, IInv, OverlayLast, InCallbacks, InPlugin
  <2>5. Console' /\ References'
    BY <1>4, Parts DEF LoadClientClasses, IInv, TypeOK, Console, ConsoleFollowsCommands, References,
       RecordedListenersReferenced, Idle, Away, Hook, Part
  <2> QED  BY <2>1, <2>2, <2>3, <2>4, <2>5 DEF IInv
<1>5. CASE FinishLoad
  BY <1>5 DEF FinishLoad, IInv, TypeOK, Attachments, Stages,
     OverlayLast, Console, References, RecordedListenersReferenced, ConsoleFollowsCommands, InCallbacks, InPlugin, Idle, Away, Control
<1> QED  BY <1>1, <1>2, <1>3, <1>4, <1>5

\* A part is constructed, or its construction fails.
LEMMA ConstructStep ==
  ASSUME IInv, NEW p \in ModulePart, ConstructPart(p)
  PROVE  IInv'
<1> USE DEF gumVars, threadVars, lifeVars
<1>1. CASE ConstructCommand(p)
  BY <1>1, Parts, PartAssumption, OneToConstruct DEF ConstructCommand, NextToConstruct,
     ConstructedBefore, Hook, Listener, Part, Phase, IInv, TypeOK, Attachments, Stages,
     OverlayLast, Console, References, RecordedListenersReferenced, ConsoleFollowsCommands, InCallbacks, InPlugin, Idle, Away, Control
<1>2. CASE ConstructListener(p)
  BY <1>2, Parts, PartAssumption, OneToConstruct DEF ConstructListener, NewListener,
     NextToConstruct, ConstructedBefore, Hook, Listener, Part, Phase, IInv, TypeOK, Attachments, Stages,
     OverlayLast, Console, References, RecordedListenersReferenced, ConsoleFollowsCommands, InCallbacks, InPlugin, Idle, Away, Control
<1>3. CASE ConstructAttach(p)
  BY <1>3, Parts, PartAssumption, OneToConstruct DEF ConstructAttach, Attach, Activated,
     NextToConstruct, ConstructedBefore, Hook, Listener, Part, Phase, IInv, TypeOK, Attachments, Stages,
     OverlayLast, Console, References, RecordedListenersReferenced, ConsoleFollowsCommands, InCallbacks, InPlugin, Idle, Away, Control
<1>4. CASE ConstructComplete(p)
  <2>1. TypeOK'
    BY <1>4 DEF ConstructComplete, CompleteHook, IInv, TypeOK, InPlugin, Phase
  <2>2. Attachments'
    BY <1>4, Parts, PartAssumption DEF ConstructComplete, CompleteHook, IInv, TypeOK,
       Attachments, Hook, Listener, Part
  <2>3. Stages'
    BY <1>4, OneToConstruct DEF ConstructComplete, CompleteHook, IInv, TypeOK, Stages, Idle,
       Away, ModulePart
  <2>4. OverlayLast' /\ InCallbacks'
    BY <1>4, OverlayConstructedLast, Parts DEF ConstructComplete, CompleteHook, IInv, TypeOK,
       Stages, OverlayLast, InCallbacks, InPlugin, Hook, Part
  <2>5. Console' /\ References'
    BY <1>4, Parts, PartAssumption DEF ConstructComplete, CompleteHook, IInv, TypeOK, Attachments,
       Console, ConsoleFollowsCommands, References, RecordedListenersReferenced, Idle, Away, Hook, Part
  <2> QED  BY <2>1, <2>2, <2>3, <2>4, <2>5 DEF IInv
<1>5. CASE ConstructReplacement(p)
  BY <1>5, Parts, PartAssumption, OneToConstruct DEF ConstructReplacement, Replace, Activated,
     NextToConstruct, ConstructedBefore, Hook, Listener, Part, Phase, IInv, TypeOK, Attachments, Stages,
     OverlayLast, Console, References, RecordedListenersReferenced, ConsoleFollowsCommands, InCallbacks, InPlugin, Idle, Away, Control
<1>6. CASE ConstructThrows(p)
  <2> USE DEF objectVars
  <2>0. refs' \in [Listener -> Nat] /\ References'
    <3>1. CASE AttachFails(p)
      <4>1. p \in Listener
        BY <3>1, PartAssumption DEF AttachFails, IInv, Attachments, ModulePart, Part, Hook
      <4> QED
        BY <3>1, <4>1, ReferenceGivenBack DEF AttachFails, IInv, Idle
    <3>2. CASE UNCHANGED <<object, refs, listeners>>
      BY <3>2 DEF IInv, TypeOK, References, RecordedListenersReferenced, Idle
    <3> QED  BY <1>6, <3>1, <3>2 DEF ConstructThrows, ReplaceFails
  <2>1. TypeOK'
    <3>1. object' \in [Part -> Phase] /\ transaction' \in Nat
      BY <1>6 DEF ConstructThrows, AttachFails, ReplaceFails, IInv, TypeOK, Phase
    <3>2. todo' \subseteq Part /\ firstOut' \in Nat /\ pc' \in Control
      BY <1>6, ModuleAssumption DEF ConstructThrows, Unwind, Control, ModulePart
    <3> QED
      BY <1>6, <2>0, <3>1, <3>2 DEF ConstructThrows, AttachFails, ReplaceFails, IInv, TypeOK, InPlugin
  <2>2. Attachments'
    BY <1>6, Parts, PartAssumption DEF ConstructThrows, AttachFails, ReplaceFails, IInv, TypeOK,
       Attachments, Hook, Listener, Part
  <2>3. Stages'
    <3>1. \A q \in todo \ {p} : Idle(q)
      BY <1>6, OneToConstruct DEF ConstructThrows, IInv, Stages
    <3>2. Idle(p)' /\ \A q \in ModulePart \ {p} : object'[q] = object[q]
      BY <1>6 DEF ConstructThrows, AttachFails, ReplaceFails, IInv, TypeOK, Idle, ModulePart
    <3> QED
      BY <1>6, <3>1, <3>2 DEF ConstructThrows, NextToConstruct, Unwind, IInv, Stages, Idle, Away
  <2>4. OverlayLast'
    BY <1>6 DEF ConstructThrows, NextToConstruct, Unwind, IInv, OverlayLast
  <2>5. \A q \in Part : object'[q] = "ready" <=> object[q] = "ready"
    BY <1>6 DEF ConstructThrows, AttachFails, ReplaceFails, IInv, TypeOK
  <2>6. Console'
    BY <1>6, <2>5 DEF ConstructThrows, Unwind, IInv, Console, ConsoleFollowsCommands, Away, Part
  <2>7. InCallbacks'
    BY <1>6, <2>5 DEF ConstructThrows, IInv, InCallbacks, InPlugin, Hook, Part
  <2> QED  BY <2>0, <2>1, <2>2, <2>3, <2>4, <2>6, <2>7 DEF IInv
<1> QED  BY <1>1, <1>2, <1>3, <1>4, <1>5, <1>6 DEF ConstructPart

\* A part is destroyed, in Unload or after an exception.
LEMMA DestroyStep ==
  ASSUME IInv, NEW p \in ModulePart, DestroyPart(p)
  PROVE  IInv'
<1> USE DEF gumVars, threadVars, lifeVars
<1>1. CASE DestroyCommand(p)
  <2>1. TypeOK' /\ Attachments'
    BY <1>1, Parts, PartAssumption DEF DestroyCommand, IInv, TypeOK, InPlugin, Attachments, Phase,
       Hook, Listener, Part
  <2>2. Stages'
    BY <1>1, OneToDestroy DEF DestroyCommand, Destroying, IInv, TypeOK, Stages, Idle, Away,
       ModulePart
  <2>3. OverlayLast' /\ InCallbacks'
    BY <1>1, Parts, PartAssumption, OverlayDestroyedFirst DEF DestroyCommand, Destroying, IInv,
       OverlayLast, InCallbacks, InPlugin, Hook
  <2>4. Console' /\ References'
    BY <1>1, Parts, PartAssumption DEF DestroyCommand, Destroying, IInv, TypeOK, Console,
       ConsoleFollowsCommands, References, RecordedListenersReferenced, Idle, Away, Hook, Part
  <2> QED  BY <2>1, <2>2, <2>3, <2>4 DEF IInv
<1>2. CASE DestroyCallback(p)
  BY <1>2, Parts, PartAssumption, OneToDestroy DEF DestroyCallback, Destroying, DropCallback,
     NextToDestroy, DestroyedBefore, Hook, Listener, Part, Phase, IInv, TypeOK, Attachments, Stages,
     OverlayLast, Console, References, RecordedListenersReferenced, ConsoleFollowsCommands, InCallbacks, InPlugin, Idle, Away, Control
<1>3. CASE DestroyDetach(p)
  BY <1>3, Parts, PartAssumption, OneToDestroy DEF DestroyDetach, Destroying, Detach,
     NextToDestroy, DestroyedBefore, Hook, Listener, Part, Phase, IInv, TypeOK, Attachments, Stages,
     OverlayLast, Console, References, RecordedListenersReferenced, ConsoleFollowsCommands, InCallbacks, InPlugin, Idle, Away, Control
<1>4. CASE DestroyListener(p)
  <2>0. p \in Listener /\ refs' \in [Listener -> Nat] /\ References'
    <3>1. p \in Listener
      BY <1>4, PartAssumption DEF DestroyListener, ReleaseListener, IInv, Attachments,
         ModulePart, Part, Hook
    <3> QED
      BY <1>4, <3>1, ReferenceGivenBack DEF DestroyListener, ReleaseListener, IInv, Idle
  <2>1. TypeOK' /\ Attachments'
    BY <1>4, <2>0, PartAssumption DEF DestroyListener, ReleaseListener, IInv, TypeOK, InPlugin, Attachments,
       Phase, Hook, Listener, Part
  <2>2. Stages'
    BY <1>4, OneToDestroy DEF DestroyListener, Destroying, ReleaseListener, IInv, TypeOK, Stages,
       Idle, Away, ModulePart, NextToDestroy, DestroyedBefore
  <2>3. OverlayLast' /\ InCallbacks'
    BY <1>4, <2>0, Parts, OverlayDestroyedFirst DEF DestroyListener, ReleaseListener, Destroying,
       IInv, TypeOK, OverlayLast, InCallbacks, InPlugin, Hook, Part
  <2>4. Console'
    BY <1>4, <2>0, Parts, PartAssumption DEF DestroyListener, ReleaseListener, Destroying, IInv,
       TypeOK, Console, ConsoleFollowsCommands, Idle, Away, Hook, Part
  <2> QED  BY <2>0, <2>1, <2>2, <2>3, <2>4 DEF IInv
<1>5. CASE DestroyReplacement(p)
  <2>1. TypeOK' /\ Attachments'
    BY <1>5, Parts, PartAssumption DEF DestroyReplacement, Revert, IInv, TypeOK, InPlugin, Attachments,
       Phase, Hook, Listener, Part
  <2>2. Stages'
    BY <1>5, OneToDestroy DEF DestroyReplacement, Destroying, Revert, IInv, TypeOK, Stages,
       Idle, Away, ModulePart
  <2>3. OverlayLast' /\ InCallbacks'
    BY <1>5, Parts, PartAssumption, OverlayDestroyedFirst DEF DestroyReplacement, Destroying,
       Revert, IInv, OverlayLast, InCallbacks, InPlugin
  <2>4. Console' /\ References'
    BY <1>5, Parts, PartAssumption DEF DestroyReplacement, Revert, Destroying, IInv, TypeOK,
       Console, ConsoleFollowsCommands, References, RecordedListenersReferenced, Idle, Away, Hook, Part
  <2> QED  BY <2>1, <2>2, <2>3, <2>4 DEF IInv
<1> QED  BY <1>1, <1>2, <1>3, <1>4, <1>5 DEF DestroyPart

\* The start of Unload, and its steps after the last module.
LEMMA UnloadStep ==
  ASSUME IInv,
         \/ StartUnload \/ DeleteContext \/ FinishUnwind \/ FinishTeardown
         \/ ResetClientClasses \/ UnloadInterfaces \/ StartCleanup
         \/ (\E h \in Listener : Cleanup(h)) \/ FinishUnload
  PROVE  IInv'
<1> USE DEF gumVars, threadVars, objectVars
<1>1. CASE StartUnload
  <2>1. TypeOK'
    BY <1>1, Parts, ModuleAssumption DEF StartUnload, IInv, TypeOK, InPlugin, Control, ModulePart
  <2>2. Attachments' /\ Console' /\ References' /\ InCallbacks'
    BY <1>1 DEF StartUnload, IInv, Attachments, Console, References,
       RecordedListenersReferenced, ConsoleFollowsCommands, InCallbacks, InPlugin, Idle, Away
  <2>3. Stages' /\ OverlayLast'
    BY <1>1 DEF StartUnload, IInv, Stages, OverlayLast, Away
  <2> QED  BY <2>1, <2>2, <2>3 DEF IInv
<1>2. CASE DeleteContext
  BY <1>2, Parts, OneToDestroy DEF DeleteContext, Destroying, NextToDestroy, DestroyedBefore, IInv, TypeOK, Attachments, Stages,
     OverlayLast, Console, References, RecordedListenersReferenced, ConsoleFollowsCommands, InCallbacks, InPlugin, Idle, Away, Control
<1>3. CASE FinishUnwind \/ FinishTeardown
  BY <1>3 DEF FinishUnwind, FinishTeardown, IInv, TypeOK, Attachments, Stages,
     OverlayLast, Console, References, RecordedListenersReferenced, ConsoleFollowsCommands, InCallbacks, InPlugin, Idle, Away, Control
<1>4. CASE ResetClientClasses
  BY <1>4, Parts, PartAssumption DEF ResetClientClasses, Hook, Listener, Part, Phase, IInv, TypeOK, Attachments, Stages,
     OverlayLast, Console, References, RecordedListenersReferenced, ConsoleFollowsCommands, InCallbacks, InPlugin, Idle, Away, Control
<1>5. CASE UnloadInterfaces
  BY <1>5, Parts, PartAssumption DEF UnloadInterfaces, Part, ModulePart, IInv, TypeOK, Attachments, Stages,
     OverlayLast, Console, References, RecordedListenersReferenced, ConsoleFollowsCommands, InCallbacks, InPlugin, Idle, Away, Control
<1>6. CASE StartCleanup
  BY <1>6 DEF StartCleanup, BeginCleanup, Part, Hook, IInv, TypeOK, Attachments, Stages,
     OverlayLast, Console, References, RecordedListenersReferenced, ConsoleFollowsCommands, InCallbacks, InPlugin, Idle, Away, Control
<1>7. CASE \E h \in Listener : Cleanup(h)
  <2> PICK h \in Listener : Cleanup(h)
    BY <1>7
  <2>1. h \notin attached /\ attached' = attached /\ active' = active
    BY Parts DEF Cleanup, CleanupDetach, IInv, Attachments, Stages, Idle, Away, Hook
  <2>2. fault' \in Fault
    BY DEF Cleanup, CleanupDetach, IInv, TypeOK, Fault
  <2> QED
    BY <2>1, <2>2 DEF Cleanup, CleanupDetach, IInv, TypeOK, Attachments, Stages,
     OverlayLast, Console, References, RecordedListenersReferenced, ConsoleFollowsCommands, InCallbacks, InPlugin, Idle, Away, Control
<1>8. CASE FinishUnload
  BY <1>8 DEF FinishUnload, EndCleanup, IInv, TypeOK, Attachments, Stages,
     OverlayLast, Console, References, RecordedListenersReferenced, ConsoleFollowsCommands, InCallbacks, InPlugin, Idle, Away, Control
<1> QED  BY <1>1, <1>2, <1>3, <1>4, <1>5, <1>6, <1>7, <1>8

-----------------------------------------------------------------------------
(* The game's threads change none of this, and start no callback of a hook *)
(* that is not complete.                                                   *)

LEMMA ThreadStepStep ==
  ASSUME IInv, NEW t \in Thread, ThreadStep(t)
  PROVE  IInv'
<1> USE DEF gumVars, threadVars, objectVars, lifeVars
<1>1. UNCHANGED <<objectVars, gumVars, lifeVars, registered>>
  BY DEF ThreadStep, EnterHandler, EnterHalfBuilt, OverlayDraw, LeaveHandler, LeaveFreedHandler,
     LeaveFunction
<1>2. Attachments' /\ Stages' /\ OverlayLast' /\ Console' /\ References'
  BY <1>1 DEF IInv, Attachments, Stages, OverlayLast, Console, ConsoleFollowsCommands, References,
     RecordedListenersReferenced, Idle, NextToConstruct, NextToDestroy, ConstructedBefore,
     DestroyedBefore
<1>3. /\ \A u \in Thread \ {t} : place'[u] = place[u] /\ target'[u] = target[u]
      /\ overtaken' \subseteq overtaken /\ overtaken \ {t} \subseteq overtaken'
      /\ place' \in [Thread -> Place] /\ target' \in [Thread -> Hook] /\ fault' \in Fault
  BY <1>1 DEF IInv, TypeOK, ThreadStep, EnterHandler, Hit, EnterHalfBuilt, HitHalfBuilt,
     OverlayDraw, LeaveHandler, HandlerReturns, LeaveFreedHandler, HandlerFaults,
     LeaveFunction, BodyReturns, Place, Fault
<1>4. /\ t \in overtaken' => t \in InPlugin'
      /\ t \in InPlugin' \ overtaken' /\ target'[t] \in Listener => object[target'[t]] = "ready"
  BY <1>1 DEF IInv, TypeOK, InCallbacks, InPlugin, ThreadStep, EnterHandler, Hit, EnterHalfBuilt,
     HitHalfBuilt, OverlayDraw, LeaveHandler, HandlerReturns, LeaveFreedHandler, HandlerFaults,
     LeaveFunction, BodyReturns, Place
<1>5. TypeOK'
  <2>1. overtaken' \subseteq InPlugin'
    BY <1>3, <1>4 DEF IInv, TypeOK, InPlugin
  <2>2. context' \in {"unset", "created", "deleted"}
    BY DEF IInv, TypeOK, ThreadStep, EnterHandler, EnterHalfBuilt, OverlayDraw, LeaveHandler,
       LeaveFreedHandler, LeaveFunction
  <2> QED  BY <1>1, <1>3, <2>1, <2>2 DEF IInv, TypeOK
<1>6. InCallbacks'
  BY <1>1, <1>3, <1>4 DEF IInv, InCallbacks, InPlugin
<1> QED  BY <1>2, <1>5, <1>6 DEF IInv

LEMMA StepIInv == IInv /\ [Next]_vars => IInv'
<1> SUFFICES ASSUME IInv, [Next]_vars  PROVE IInv'
  OBVIOUS
<1>1. CASE Next
  BY <1>1, LoadStep, ConstructStep, DestroyStep, UnloadStep, ThreadStepStep
     DEF Next, LifeStep
<1>2. CASE UNCHANGED vars
  BY <1>2 DEF vars, IInv, TypeOK, Attachments, Stages, OverlayLast, Console, References,
     RecordedListenersReferenced, ConsoleFollowsCommands, InCallbacks, InPlugin, Idle, NextToConstruct, NextToDestroy,
     ConstructedBefore, DestroyedBefore
<1> QED  BY <1>1, <1>2

LEMMA AlwaysIInv == Spec => []IInv
BY InitIInv, StepIInv, PTL DEF Spec

-----------------------------------------------------------------------------
(* The theorems.                                                           *)

\* Type correctness: in particular no reference count and no transaction
\* depth ever goes below zero.
THEOREM TypeCorrect == Spec => []TypeOK
<1>1. IInv => TypeOK
  BY DEF IInv
<1> QED  BY <1>1, AlwaysIInv, PTL

\* A diverted function never leads to a hook object that is freed, in any
\* order of modules and members and with any number of threads.
THEOREM DispatchSafe == Spec => []DispatchedHooksExist
<1>1. IInv => DispatchedHooksExist
  BY DEF IInv, TypeOK, Attachments, DispatchedHooksExist, Hook
<1> QED  BY <1>1, AlwaysIInv, PTL

\* Of all the hooks at most one is exposed half built, and none outside
\* Load, Unload and the unwinding of a constructor: with any number of
\* threads, orders of modules, and constructors that throw.
THEOREM OneExposed == Spec => []OneHookExposed
<1>1. IInv => OneHookExposed
  <2> SUFFICES ASSUME IInv  PROVE OneHookExposed
    OBVIOUS
  <2>1. \A h \in Exposed : h \in ModulePart /\ object[h] # "ready" /\ ~Idle(h)
    BY Parts DEF IInv, TypeOK, Attachments, Exposed, Hook, Idle
  <2>2. CASE pc \in Away \cup {"loaded"}
    BY <2>1, <2>2 DEF IInv, Stages, OneHookExposed
  <2>3. CASE pc = "modules"
    BY <2>1, <2>3, OneToConstruct DEF IInv, Stages, OneHookExposed, InEngine
  <2>4. CASE pc \in {"teardown", "unwind"}
    BY <2>1, <2>4, OneToDestroy DEF IInv, TypeOK, Stages, OneHookExposed, InEngine
  <2> QED  BY <2>2, <2>3, <2>4 DEF IInv, TypeOK, Control, Away
<1> QED  BY <1>1, AlwaysIInv, PTL

\* A frame that begins, or is in progress and not overtaken, never finds a
\* module it walks incomplete.
THEOREM OverlaySafe == Spec => []OverlaySeesLiveModules
<1>1. IInv => OverlaySeesLiveModules
  <2> SUFFICES ASSUME IInv, FrameRuns, NEW p \in ModulePart \ {Overlay}
               PROVE  object[p] = "ready"
    BY DEF OverlaySeesLiveModules
  <2>1. object[Overlay] \in {"hooked", "ready", "closing"}
    BY Parts DEF IInv, Attachments, InCallbacks, FrameRuns
  <2>2. pc \notin Away
    BY <2>1, Parts DEF IInv, Stages, Idle
  <2>3. CASE pc = "modules"
    BY <2>1, <2>3, Parts, OverlayConstructedLast, OneToConstruct
       DEF IInv, Stages, OverlayLast, Idle, NextToConstruct
  <2>4. CASE pc = "loaded"
    BY <2>4 DEF IInv, Stages
  <2>5. CASE pc \in {"teardown", "unwind"}
    BY <2>1, <2>5, Parts, OverlayDestroyedFirst DEF IInv, Stages, OverlayLast, Idle
  <2> QED  BY <2>2, <2>3, <2>4, <2>5 DEF IInv, TypeOK, Control, Away
<1> QED  BY <1>1, AlwaysIInv, PTL

\* When Load has returned, every hook of every module is in place.
THEOREM LoadComplete == Spec => []LoadedIsComplete
<1>1. IInv => LoadedIsComplete
  BY Parts DEF IInv, TypeOK, Attachments, Stages, LoadedIsComplete, Hook
<1> QED  BY <1>1, AlwaysIInv, PTL

\* Nothing of the plugin is left in the game after Unload, or after an
\* exception in a module's constructor.
THEOREM NothingLeft == Spec => []QuietOutside
<1>1. IInv => QuietOutside
  BY Parts DEF IInv, TypeOK, Attachments, Stages, QuietOutside, Hook, Away, Idle
<1> QED  BY <1>1, AlwaysIInv, PTL

\* The console knows all commands that exist, and others only between the
\* destruction of the modules and ConVar_Unregister, or after a Load that
\* threw, when it keeps them.
THEOREM ConsoleSafe == Spec => []ConsoleFollowsCommands
<1>1. IInv => ConsoleFollowsCommands
  BY DEF IInv, Console
<1> QED  BY <1>1, AlwaysIInv, PTL

\* ~Interceptor never finds a GObject that is already finalized.
THEOREM ListenersReferenced == Spec => []RecordedListenersReferenced
<1>1. IInv => RecordedListenersReferenced
  BY DEF IInv, References
<1> QED  BY <1>1, AlwaysIInv, PTL

-----------------------------------------------------------------------------
(* The overlay's context, whichever threads present frames.                *)

\* A context is deleted only when the overlay's hook is gone, and made anew
\* before the next hook is; a frame that is not overtaken has made its own.
OverlayContext ==
  /\ ~Idle(Overlay) => context # "deleted"
  /\ \A t \in Thread \ overtaken :
       place[t] = "draw" => target[t] = Overlay /\ context = "created"

LEMMA ContextInitially == Init => OverlayContext
BY Parts DEF Init, OverlayContext, Idle, Hook, Part

\* Load and Unload leave the threads where they are and overtake some.
LEMMA LifeLeavesThreads ==
  ASSUME StartLoad \/ StartUnload \/ LifeStep
  PROVE  UNCHANGED <<target, place>> /\ overtaken \subseteq overtaken'
BY DEF threadVars, StartLoad, StartUnload, LifeStep, LoadInterfaces, InitOffsets,
   InitOffsetsThrows, LoadClientClasses, ConstructPart, ConstructCommand, ConstructListener,
   ConstructAttach, ConstructComplete, ConstructReplacement, ConstructThrows, DestroyPart,
   DestroyCommand, DestroyCallback, DropCallback, DestroyDetach, DestroyListener,
   DestroyReplacement, DeleteContext, FinishLoad, FinishUnwind, FinishTeardown,
   ResetClientClasses, UnloadInterfaces, StartCleanup, Cleanup, FinishUnload

\* Only the construction of the overlay's hook and the deletion of the
\* context touch it, and then no frame is left but overtaken ones.
LEMMA ContextInLife ==
  ASSUME IInv, OverlayContext, StartLoad \/ StartUnload \/ LifeStep
  PROVE  OverlayContext'
<1> USE DEF gumVars, threadVars, objectVars, lifeVars
<1>1. UNCHANGED <<target, place>> /\ overtaken \subseteq overtaken'
  BY LifeLeavesThreads
<1>2. ASSUME object[Overlay] # "ready"
      PROVE  \A t \in Thread \ overtaken : place[t] # "draw"
  BY <1>2, Parts DEF IInv, InCallbacks, InPlugin, OverlayContext
<1>3. CASE ConstructListener(Overlay)
  <2>1. context' = "unset" /\ object[Overlay] # "ready"
    BY <1>3 DEF ConstructListener, NewListener
  <2> QED  BY <1>1, <1>2, <2>1 DEF OverlayContext
<1>4. CASE DeleteContext
  <2>1. object[Overlay] = "gone" /\ object' = object
    BY <1>4 DEF DeleteContext
  <2> QED  BY <1>1, <1>2, <2>1 DEF OverlayContext, Idle
<1>5. CASE ~ConstructListener(Overlay) /\ ~DeleteContext
  <2>1. context' = context
    BY <1>5 DEF StartLoad, StartUnload, LifeStep, LoadInterfaces, InitOffsets,
       InitOffsetsThrows, LoadClientClasses, ConstructPart, ConstructCommand, ConstructListener,
       ConstructAttach, ConstructComplete, ConstructReplacement, ConstructThrows, DestroyPart,
       DestroyCommand, DestroyCallback, DestroyDetach, DestroyListener, DestroyReplacement,
       FinishLoad, FinishUnwind, FinishTeardown, ResetClientClasses, UnloadInterfaces,
       StartCleanup, Cleanup, FinishUnload
  <2>2. ~Idle(Overlay)' => ~Idle(Overlay)
    <3>1. ASSUME NEW p \in ModulePart, ConstructPart(p), p # Overlay
          PROVE  object'[Overlay] = object[Overlay]
      BY <3>1, Parts DEF ConstructPart, ConstructCommand, ConstructListener, NewListener,
         ConstructAttach, Attach, ConstructComplete, CompleteHook, ConstructReplacement,
         Replace, ConstructThrows, AttachFails, ReplaceFails, IInv, TypeOK, Hook, Part
    <3>2. ConstructPart(Overlay) => ~Idle(Overlay) \/ Idle(Overlay)'
      BY <1>5, Parts, PartAssumption DEF ConstructPart, ConstructCommand, ConstructAttach, Attach,
         ConstructComplete, CompleteHook, ConstructReplacement, Replace, ConstructThrows,
         AttachFails, ReplaceFails, Idle, Hook, Listener
    <3>3. ASSUME NEW p \in ModulePart, DestroyPart(p)
          PROVE  object'[Overlay] = object[Overlay] \/ ~Idle(Overlay) \/ Idle(Overlay)'
      BY <3>3, Parts DEF DestroyPart, DestroyCommand, DestroyCallback, DropCallback,
         DestroyDetach, Detach, DestroyListener, ReleaseListener, DestroyReplacement, Revert,
         IInv, TypeOK, Idle, Hook, Part
    <3>4. ASSUME \A p \in ModulePart : ~ConstructPart(p) /\ ~DestroyPart(p)
          PROVE  object'[Overlay] = object[Overlay]
      BY <1>5, <3>4, Parts DEF StartLoad, StartUnload, LifeStep, LoadInterfaces, InitOffsets,
         InitOffsetsThrows, LoadClientClasses, FinishLoad, FinishUnwind, FinishTeardown,
         ResetClientClasses, UnloadInterfaces, StartCleanup, BeginCleanup, Cleanup,
         CleanupDetach, FinishUnload, EndCleanup, IInv, TypeOK, Hook, Part
    <3> QED  BY <3>1, <3>2, <3>3, <3>4 DEF Idle
  <2> QED  BY <1>1, <2>1, <2>2 DEF OverlayContext
<1> QED  BY <1>3, <1>4, <1>5

\* A frame makes the context if there is none; unless it is overtaken it
\* finds none that is deleted.
LEMMA ContextInFrame ==
  ASSUME IInv, OverlayContext, NEW t \in Thread, ThreadStep(t)
  PROVE  OverlayContext'
<1> USE DEF gumVars, threadVars, objectVars, lifeVars
<1>1. UNCHANGED object
  BY DEF ThreadStep, EnterHandler, EnterHalfBuilt, OverlayDraw, LeaveHandler,
     LeaveFreedHandler, LeaveFunction
<1>2. CASE OverlayDraw(t)
  <2>1. /\ \A u \in Thread \ {t} : place'[u] = place[u]
        /\ UNCHANGED <<target, overtaken>>
        /\ target[t] = Overlay /\ t \in InPlugin
        /\ context # "unset" => context' = context
        /\ context = "unset" => context' = "created" \/ (t \in overtaken /\ context' = "unset")
    BY <1>2 DEF OverlayDraw, IInv, TypeOK, InPlugin
  <2>2. t \notin overtaken => context' = "created"
    BY <1>2, <2>1, Parts DEF OverlayDraw, OverlayContext, IInv, TypeOK, InCallbacks, Idle
  <2> QED  BY <1>1, <2>1, <2>2 DEF OverlayContext, Idle
<1>3. CASE ~OverlayDraw(t)
  <2>1. /\ UNCHANGED context
        /\ \A u \in Thread \ {t} : place'[u] = place[u] /\ target'[u] = target[u]
        /\ overtaken \ {t} \subseteq overtaken'
    BY <1>3 DEF ThreadStep, EnterHandler, Hit, EnterHalfBuilt, HitHalfBuilt, LeaveHandler,
       HandlerReturns, LeaveFreedHandler, HandlerFaults, LeaveFunction, BodyReturns, IInv, TypeOK
  <2>2. place'[t] = "draw" => UNCHANGED <<target, place, overtaken>>
    BY <1>3 DEF ThreadStep, EnterHandler, Hit, EnterHalfBuilt, HitHalfBuilt, LeaveHandler,
       HandlerReturns, LeaveFreedHandler, HandlerFaults, LeaveFunction, BodyReturns, IInv, TypeOK
  <2> QED  BY <1>1, <2>1, <2>2 DEF OverlayContext, Idle
<1> QED  BY <1>2, <1>3

\* A frame that is not overtaken draws with a context that the overlay has
\* made and not deleted, in every life of the plugin, for any modules and
\* hooks, on any threads, with frames of an earlier life still in progress.
THEOREM ContextSafe == Spec => []OverlayDrawsWithItsContext
<1>1. IInv /\ OverlayContext /\ [Next]_vars => OverlayContext'
  <2> SUFFICES ASSUME IInv, OverlayContext, [Next]_vars  PROVE OverlayContext'
    OBVIOUS
  <2>1. CASE Next
    BY <2>1, ContextInLife, ContextInFrame DEF Next
  <2>2. CASE UNCHANGED vars
    BY <2>2 DEF vars, OverlayContext, Idle
  <2> QED  BY <2>1, <2>2
<1>2. OverlayContext => OverlayDrawsWithItsContext
  BY DEF OverlayContext, OverlayDrawsWithItsContext
<1> QED  BY <1>1, <1>2, AlwaysIInv, ContextInitially, PTL DEF Spec

-----------------------------------------------------------------------------
(* Plugin implements HookContract, its fairness apart.                     *)

\* A step that changes neither what is diverted, nor who is in the plugin,
\* nor the phase.
Quiet == UNCHANGED <<active, InPlugin, overtaken>> /\ ContractPhase' = ContractPhase

LEMMA ContractInitially == Init => Contract!ContractInit
BY DEF Init, Contract!ContractInit, ContractPhase, InPlugin

LEMMA NothingDiverted ==
  ASSUME IInv, pc \in Away \/ (pc \in {"unwind", "teardown"} /\ todo = {})
  PROVE  active = {}
BY Parts DEF IInv, TypeOK, Attachments, Stages, Idle, Hook

LEMMA LoadRefines ==
  ASSUME IInv, fault = "none",
         \/ StartLoad \/ LoadInterfaces \/ InitOffsets \/ InitOffsetsThrows
         \/ LoadClientClasses \/ FinishLoad
  PROVE  Contract!ContractNext \/ Quiet
<1> USE DEF gumVars, threadVars, InPlugin, ContractPhase, Quiet, Contract!ContractNext,
        Contract!Progress, Contract!callVars
<1>1. CASE StartLoad
  BY <1>1 DEF StartLoad, Contract!BeginLoad
<1>2. CASE LoadInterfaces \/ InitOffsets \/ LoadClientClasses
  BY <1>2 DEF LoadInterfaces, InitOffsets, LoadClientClasses
<1>3. CASE InitOffsetsThrows
  BY <1>3, NothingDiverted DEF InitOffsetsThrows, Away, Contract!Fail
<1>4. CASE FinishLoad
  BY <1>4, Parts DEF FinishLoad, IInv, TypeOK, Attachments, Stages, Hook, Contract!FinishLoad
<1> QED  BY <1>1, <1>2, <1>3, <1>4

LEMMA ConstructRefines ==
  ASSUME IInv, fault = "none", NEW p \in ModulePart, ConstructPart(p)
  PROVE  Contract!ContractNext \/ Quiet
<1> USE DEF gumVars, threadVars, InPlugin, lifeVars, ContractPhase, Quiet, Contract!ContractNext,
        Contract!Progress, Contract!callVars
<1>1. CASE ConstructCommand(p) \/ ConstructListener(p) \/ ConstructComplete(p)
  BY <1>1 DEF ConstructCommand, ConstructListener, NewListener, ConstructComplete, CompleteHook
<1>2. CASE ConstructAttach(p) \/ ConstructReplacement(p)
  <2>1. p \in Hook
    BY <1>2, PartAssumption DEF ConstructAttach, ConstructReplacement, Attach, Replace, IInv,
       Attachments, Hook, ModulePart, Part
  <2> QED
    BY <1>2, <2>1 DEF ConstructAttach, ConstructReplacement, Attach, Replace, Activated,
       IInv, Stages, Contract!Divert
<1>3. CASE ConstructThrows(p)
  BY <1>3 DEF ConstructThrows, AttachFails, ReplaceFails, Unwind, Contract!Fail
<1> QED  BY <1>1, <1>2, <1>3 DEF ConstructPart

LEMMA DestroyRefines ==
  ASSUME IInv, fault = "none", NEW p \in ModulePart, DestroyPart(p)
  PROVE  Contract!ContractNext \/ Quiet
<1> USE DEF gumVars, threadVars, InPlugin, lifeVars, ContractPhase, Quiet, Contract!ContractNext,
        Contract!Progress, Contract!callVars
<1>1. CASE DestroyCommand(p) \/ DestroyListener(p)
  BY <1>1 DEF DestroyCommand, DestroyListener, ReleaseListener
<1>2. CASE DestroyDetach(p) \/ DestroyReplacement(p)
  <2>1. p \in Hook
    BY <1>2, PartAssumption DEF DestroyDetach, DestroyReplacement, Detach, Revert, IInv,
       Attachments, Hook, ModulePart, Part
  <2> QED
    BY <1>2, <2>1 DEF DestroyDetach, DestroyReplacement, Detach, Revert, Destroying,
       Contract!Restore
<1>3. CASE DestroyCallback(p)
  <2> DEFINE T == {t \in InPlugin : target[t] = p}
  <2>1. /\ T \in SUBSET Thread /\ T \subseteq InPlugin
        /\ overtaken' = overtaken \cup T
        /\ UNCHANGED <<active, place, pc, fault>> /\ pc \in {"teardown", "unwind"}
    BY <1>3 DEF DestroyCallback, DropCallback, Destroying
  <2> HIDE DEF T
  <2>2. Contract!Overtake(T)
    BY <2>1 DEF Contract!Overtake
  <2> QED  BY <2>1, <2>2 DEF Contract!CallStep
<1> QED  BY <1>1, <1>2, <1>3 DEF DestroyPart

LEMMA UnloadRefines ==
  ASSUME IInv, fault = "none",
         \/ StartUnload \/ DeleteContext \/ FinishUnwind \/ FinishTeardown
         \/ ResetClientClasses \/ UnloadInterfaces \/ StartCleanup
         \/ (\E h \in Listener : Cleanup(h)) \/ FinishUnload
  PROVE  Contract!ContractNext \/ Quiet
<1> USE DEF gumVars, threadVars, InPlugin, ContractPhase, Quiet, Contract!ContractNext,
        Contract!Progress, Contract!callVars
<1>1. CASE StartUnload
  BY <1>1 DEF StartUnload, Contract!BeginUnload
<1>2. CASE DeleteContext \/ FinishTeardown \/ ResetClientClasses \/ UnloadInterfaces \/ StartCleanup
  BY <1>2 DEF DeleteContext, FinishTeardown, ResetClientClasses, UnloadInterfaces,
     StartCleanup, BeginCleanup
<1>3. CASE FinishUnwind
  BY <1>3, NothingDiverted DEF FinishUnwind, Contract!Finish
<1>4. CASE \E h \in Listener : Cleanup(h)
  BY <1>4, NothingDiverted DEF Cleanup, CleanupDetach, Away, Contract!Crash
<1>5. CASE FinishUnload
  <2>1. active = {} /\ attached = {}
    BY <1>5, NothingDiverted DEF FinishUnload, Away, IInv, Attachments
  <2> QED
    BY <1>5, <2>1 DEF FinishUnload, EndCleanup, Contract!Finish
<1> QED  BY <1>1, <1>2, <1>3, <1>4, <1>5

LEMMA ThreadRefines ==
  ASSUME IInv, fault = "none", NEW t \in Thread, ThreadStep(t)
  PROVE  Contract!ContractNext \/ Quiet
<1> USE DEF gumVars, objectVars, threadVars, lifeVars, ContractPhase, Quiet,
        Contract!ContractNext, Contract!Progress, Contract!CallStep, Contract!callVars
<1>1. CASE \E h \in Hook : EnterHalfBuilt(t, h)
  <2>1. PICK h \in Listener : h \in active /\ object[h] # "ready" /\ EnterHalfBuilt(t, h)
    BY <1>1 DEF EnterHalfBuilt, HitHalfBuilt
  <2>2. ~InEngine
    BY <2>1, Parts DEF IInv, Attachments, Stages, Idle, Away, InEngine, Hook
  <2> QED
    BY <2>1, <2>2 DEF EnterHalfBuilt, HitHalfBuilt, InEngine, InPlugin, Contract!Crash
<1>2. CASE LeaveFreedHandler(t)
  BY <1>2 DEF LeaveFreedHandler, HandlerFaults, InPlugin, Contract!LateCrash
<1>3. ASSUME UNCHANGED <<active, pc, fault, overtaken>>, active # {},
             InPlugin' = InPlugin \cup {t}
      PROVE  Contract!Enter(t)
  BY <1>3 DEF Contract!Enter
<1>4. CASE \E h \in Hook : EnterHandler(t, h)
  <2>1. /\ UNCHANGED <<active, pc, fault, overtaken>> /\ active # {}
        /\ InPlugin' = InPlugin \cup {t}
    BY <1>4 DEF EnterHandler, Hit, InPlugin, IInv, TypeOK
  <2> QED  BY <1>3, <2>1
<1>5. CASE OverlayDraw(t)
  BY <1>5 DEF OverlayDraw, InPlugin, IInv, TypeOK
<1>6. CASE LeaveHandler(t)
  <2>1. InPlugin' = InPlugin \ {t} /\ overtaken' = overtaken \ {t} /\ UNCHANGED <<active, pc, fault>>
    BY <1>6 DEF LeaveHandler, HandlerReturns, InPlugin, IInv, TypeOK
  <2>2. Contract!Return(t)
    BY <2>1 DEF Contract!Return
  <2> QED  BY <2>2
<1>7. CASE LeaveFunction(t)
  <2>1. UNCHANGED <<active, pc, fault, overtaken>>
    BY <1>7 DEF LeaveFunction, BodyReturns
  <2>2. CASE target[t] \in active
    <3>1. active # {} /\ InPlugin' = InPlugin \cup {t}
      BY <1>7, <2>2 DEF LeaveFunction, BodyReturns, InPlugin, IInv, TypeOK
    <3> QED  BY <1>3, <2>1, <3>1
  <2>3. CASE target[t] \notin active
    <3>1. InPlugin' = InPlugin
      BY <1>7, <2>3 DEF LeaveFunction, BodyReturns, InPlugin, IInv, TypeOK
    <3> QED  BY <2>1, <3>1
  <2> QED  BY <2>2, <2>3
<1> QED
  BY <1>1, <1>2, <1>4, <1>5, <1>6, <1>7 DEF ThreadStep

LEMMA StepRefines ==
  IInv /\ [Next]_vars => [Contract!ContractNext]_(Contract!contractVars)
<1> SUFFICES ASSUME IInv, [Next]_vars  PROVE Contract!ContractNext \/ Quiet
  BY DEF Quiet, Contract!contractVars, Contract!callVars
<1>1. CASE Next
  BY <1>1, LoadRefines, ConstructRefines, DestroyRefines, UnloadRefines, ThreadRefines
     DEF Next, LifeStep
<1>2. CASE UNCHANGED vars
  BY <1>2 DEF vars, Quiet, ContractPhase, InPlugin
<1> QED  BY <1>1, <1>2

\* The plugin diverts functions only as HookContract allows: one at a time
\* while it loads, all of them while it is in, none once it is out.  The
\* process is lost while it loads or unloads, or by a call that has outlived
\* its hook, and in no other way.  The fairness of the contract is checked by
\* TLC and not proved.
THEOREM ImplementsContract ==
  Spec => Contract!ContractInit /\ [][Contract!ContractNext]_(Contract!contractVars)
BY AlwaysIInv, ContractInitially, StepRefines, PTL DEF Spec

-----------------------------------------------------------------------------
(* Load and Unload come to an end by themselves: some part is always next, *)
(* and no step is taken twice.                                             *)

LEMMA Least ==
  ASSUME NEW S, S \subseteq Nat, S # {}
  PROVE  \E n \in S : \A m \in S : n <= m
<1>1. PICK n \in S : \A m \in S : <<m, n>> \notin OpToRel(<, Nat)
  BY NatLessThanWellFounded, WFMin, Zenon
<1>2. ASSUME NEW m \in S  PROVE n <= m
  <2>1. <<m, n>> \in Nat \X Nat
    OBVIOUS
  <2>2. ~(m < n)
    BY <1>1, <2>1 DEF OpToRel
  <2> QED  BY <2>2
<1> QED  BY <1>2

\* A relation that orders a finite set has a first element in it: the one
\* with the fewest before it.
LEMMA FirstOf ==
  ASSUME NEW S, IsFiniteSet(S), S # {}, NEW R,
         \A p \in S : <<p, p>> \notin R,
         \A p, q, r \in S : <<p, q>> \in R /\ <<q, r>> \in R => <<p, r>> \in R,
         \A p, q \in S : p # q => <<p, q>> \in R \/ <<q, p>> \in R
  PROVE  \E p \in S : \A q \in S \ {p} : <<p, q>> \in R
<1> DEFINE Earlier(p) == {q \in S : <<q, p>> \in R}
<1> DEFINE N == {Cardinality(Earlier(p)) : p \in S}
<1>1. \A p \in S : IsFiniteSet(Earlier(p)) /\ Cardinality(Earlier(p)) \in Nat
  <2> SUFFICES ASSUME NEW p \in S  PROVE IsFiniteSet(Earlier(p)) /\ Cardinality(Earlier(p)) \in Nat
    OBVIOUS
  <2>1. Earlier(p) \in SUBSET S
    OBVIOUS
  <2>2. IsFiniteSet(Earlier(p))
    BY <2>1, FS_Subset
  <2> QED  BY <2>2, FS_CardinalityType
<1>2. N \subseteq Nat /\ N # {}
  <2> HIDE DEF Earlier
  <2> QED  BY <1>1
<1>3. PICK n \in N : \A m \in N : n <= m
  <2> HIDE DEF N
  <2> QED  BY <1>2, Least
<1>4. PICK p \in S : \A q \in S : Cardinality(Earlier(p)) <= Cardinality(Earlier(q))
  <2> HIDE DEF Earlier
  <2> QED  BY <1>3
<1>5. ASSUME NEW q \in S, <<q, p>> \in R  PROVE FALSE
  <2>1. Earlier(q) \in SUBSET Earlier(p) /\ q \in Earlier(p) /\ q \notin Earlier(q)
    BY <1>5
  <2>2. /\ Cardinality(Earlier(q)) <= Cardinality(Earlier(p))
        /\ Cardinality(Earlier(q)) # Cardinality(Earlier(p))
    <3>1. IsFiniteSet(Earlier(p))
      BY <1>1
    <3> HIDE DEF Earlier
    <3> QED  BY <2>1, <3>1, FS_Subset
  <2>3. Cardinality(Earlier(p)) \in Nat /\ Cardinality(Earlier(q)) \in Nat
    BY <1>1
  <2>4. Cardinality(Earlier(p)) <= Cardinality(Earlier(q))
    BY <1>4
  <2> HIDE DEF Earlier
  <2> QED  BY <2>2, <2>3, <2>4
<1> QED  BY <1>5

LEMMA TodoFinite ==
  ASSUME IsFiniteSet(Part), IInv
  PROVE  IsFiniteSet(todo) /\ firstOut \in Nat
<1>1. todo \in SUBSET Part /\ firstOut \in Nat
  BY DEF IInv, TypeOK
<1> QED  BY <1>1, FS_Subset

LEMMA FirstToConstruct ==
  ASSUME IsFiniteSet(Part), IInv, pc = "modules", todo # {}
  PROVE  \E p \in todo : NextToConstruct(p)
<1> DEFINE R == {d \in todo \X todo : ConstructedBefore(d[1], d[2])}
<1>1. todo \subseteq ModulePart /\ IsFiniteSet(todo)
  BY TodoFinite DEF IInv, Stages
<1>2. \A p, q \in todo : <<p, q>> \in R <=> ConstructedBefore(p, q)
  OBVIOUS
<1>3. \A p \in todo : ~ConstructedBefore(p, p)
  BY <1>1, ModuleAssumption DEF ConstructedBefore
<1>4. \A p, q, r \in todo : ConstructedBefore(p, q) /\ ConstructedBefore(q, r) => ConstructedBefore(p, r)
  BY <1>1, ModuleAssumption DEF ConstructedBefore
<1>5. \A p, q \in todo : p # q => ConstructedBefore(p, q) \/ ConstructedBefore(q, p)
  BY <1>1, ModuleAssumption DEF ConstructedBefore
<1> HIDE DEF R
<1>6. \E p \in todo : \A q \in todo \ {p} : <<p, q>> \in R
  BY <1>1, <1>2, <1>3, <1>4, <1>5, FirstOf
<1> QED  BY <1>2, <1>6 DEF NextToConstruct

LEMMA FirstToDestroy ==
  ASSUME IsFiniteSet(Part), IInv, pc \in {"teardown", "unwind"}, todo # {}
  PROVE  \E p \in todo : NextToDestroy(p)
<1> DEFINE R == {d \in todo \X todo : DestroyedBefore(d[1], d[2])}
<1>1. todo \subseteq ModulePart /\ IsFiniteSet(todo) /\ firstOut \in Nat
  BY TodoFinite DEF IInv, Stages
<1>2. \A p, q \in todo : <<p, q>> \in R <=> DestroyedBefore(p, q)
  OBVIOUS
<1>3. \A p \in todo : ~DestroyedBefore(p, p)
  BY <1>1, ModuleAssumption DEF DestroyedBefore
<1>4. \A p, q, r \in todo : DestroyedBefore(p, q) /\ DestroyedBefore(q, r) => DestroyedBefore(p, r)
  BY <1>1, ModuleAssumption DEF DestroyedBefore
<1>5. \A p, q \in todo : p # q => DestroyedBefore(p, q) \/ DestroyedBefore(q, p)
  BY <1>1, ModuleAssumption DEF DestroyedBefore
<1> HIDE DEF R
<1>6. \E p \in todo : \A q \in todo \ {p} : <<p, q>> \in R
  BY <1>1, <1>2, <1>3, <1>4, <1>5, FirstOf
<1> QED  BY <1>2, <1>6 DEF NextToDestroy

\* A part that is still to be destroyed is complete, or on its way; a listener
\* that ~Interceptor has still to detach is recorded.
Going ==
  /\ pc \in {"teardown", "unwind"} =>
       \A p \in todo : \/ object[p] = "ready"
                       \/ p \in Listener /\ object[p] \in {"closing", "unhooked"}
                       \/ p = Overlay /\ object[p] = "gone"
  /\ pc = "cleanup" => todo \subseteq listeners

LEMMA StepGoing ==
  ASSUME IInv, Going, Next
  PROVE  Going'
<1> USE DEF objectVars, gumVars, threadVars, lifeVars
<1>0. /\ object \in [Part -> Phase] /\ todo \subseteq Part
      /\ pc \in {"teardown", "unwind", "modules", "loaded"} => ModulePart \subseteq Part
  BY DEF IInv, TypeOK, ModulePart
<1>1. CASE StartLoad
  BY <1>1 DEF StartLoad, Going
<1>2. CASE StartUnload
  BY <1>2 DEF StartUnload, Going, IInv, Stages
<1>3. CASE LoadInterfaces \/ InitOffsets \/ InitOffsetsThrows \/ LoadClientClasses \/ FinishLoad
  BY <1>3 DEF LoadInterfaces, InitOffsets, InitOffsetsThrows, LoadClientClasses, FinishLoad, Going
<1>4. ASSUME NEW p \in ModulePart, ConstructPart(p)  PROVE Going'
  <2>1. CASE ConstructThrows(p)
    <3>1. p \in todo /\ pc = "modules" /\ pc' = "unwind" /\ todo' = ModulePart \ todo
      BY <2>1 DEF ConstructThrows, NextToConstruct, Unwind
    <3>2. \A q \in todo' : object'[q] = object[q]
      BY <1>0, <2>1, <3>1 DEF ConstructThrows, AttachFails, ReplaceFails
    <3> QED  BY <3>1, <3>2 DEF IInv, Stages, Going
  <2>2. CASE ~ConstructThrows(p)
    <3>1. pc = "modules" /\ pc' = "modules"
      BY <1>4, <2>2 DEF ConstructPart, ConstructCommand, ConstructListener, ConstructAttach,
         ConstructComplete, ConstructReplacement
    <3> QED  BY <3>1 DEF Going
  <2> QED  BY <2>1, <2>2
<1>5. ASSUME NEW p \in ModulePart, DestroyPart(p)  PROVE Going'
  <2>1. /\ pc \in {"teardown", "unwind"} /\ pc' = pc /\ p \in todo /\ todo' \subseteq todo
    BY <1>5 DEF DestroyPart, DestroyCommand, DestroyCallback, DestroyDetach, DestroyListener,
       DestroyReplacement, Destroying, NextToDestroy
  <2>2. /\ \A q \in todo \ {p} : object'[q] = object[q]
        /\ p \in todo' => \/ p \in Listener /\ object'[p] \in {"closing", "unhooked"}
                          \/ p = Overlay /\ object'[p] = "gone"
    <3>1. CASE DestroyCommand(p)
      BY <1>0, <3>1 DEF DestroyCommand
    <3>2. CASE DestroyCallback(p)
      BY <1>0, <2>1, <3>2 DEF DestroyCallback, DropCallback
    <3>3. CASE DestroyDetach(p)
      BY <1>0, <2>1, <3>3 DEF DestroyDetach, Detach, Going
    <3>4. CASE DestroyListener(p)
      BY <1>0, <2>1, <3>4 DEF DestroyListener, ReleaseListener
    <3>5. CASE DestroyReplacement(p)
      BY <1>0, <3>5 DEF DestroyReplacement, Revert
    <3> QED  BY <1>5, <3>1, <3>2, <3>3, <3>4, <3>5 DEF DestroyPart
  <2> QED  BY <2>1, <2>2 DEF Going
<1>6. CASE DeleteContext
  BY <1>6 DEF DeleteContext, Destroying, Going
<1>7. CASE FinishUnwind \/ FinishTeardown \/ ResetClientClasses \/ UnloadInterfaces \/ FinishUnload
  BY <1>7 DEF FinishUnwind, FinishTeardown, ResetClientClasses, UnloadInterfaces, FinishUnload, Going
<1>8. CASE StartCleanup
  BY <1>8 DEF StartCleanup, BeginCleanup, Going
<1>9. ASSUME NEW h \in Listener, Cleanup(h)  PROVE Going'
  BY <1>9 DEF Cleanup, CleanupDetach, Going
<1>10. ASSUME NEW t \in Thread, ThreadStep(t)  PROVE Going'
  BY <1>10 DEF ThreadStep, EnterHandler, EnterHalfBuilt, OverlayDraw, LeaveHandler,
     LeaveFreedHandler, LeaveFunction, Going
<1> QED  BY <1>1, <1>2, <1>3, <1>4, <1>5, <1>6, <1>7, <1>8, <1>9, <1>10 DEF Next, LifeStep

LEMMA AlwaysGoing == Spec => [](IInv /\ Going)
<1>1. Init => Going
  BY DEF Init, Going
<1>2. IInv /\ Going /\ [Next]_vars => Going'
  <2>1. CASE UNCHANGED vars
    BY <2>1 DEF vars, Going
  <2> QED  BY <2>1, StepGoing
<1> QED  BY <1>1, <1>2, AlwaysIInv, PTL DEF Spec

\* As long as something is left to construct, destroy or detach, it is the
\* turn of a part, of that one only while modules come and go, and the part
\* is in a phase in which it can go on.
SomePartIsNext ==
  /\ pc = "modules" /\ todo # {} =>
       \E p \in todo :
         /\ NextToConstruct(p) /\ \A q \in todo \ {p} : ~NextToConstruct(q)
         /\ Idle(p) \/ object[p] \in {"listener", "hooked"}
  /\ pc \in {"teardown", "unwind"} /\ todo # {} =>
       \E p \in todo :
         /\ NextToDestroy(p) /\ \A q \in todo \ {p} : ~NextToDestroy(q)
         /\ \/ object[p] = "ready"
            \/ p \in Listener /\ object[p] \in {"closing", "unhooked"}
            \/ p = Overlay /\ object[p] = "gone"
  /\ pc = "cleanup" /\ todo # {} =>
       \E h \in todo : h \in listeners /\ (h \in Probe => todo \cap Call = {})

\* The orders in which parts come and go leave nobody waiting for a turn that
\* never comes: Load, Unload, and the unwinding after an exception cannot
\* stop half-way. Any finite set of parts will do.
THEOREM NeverHalfWay ==
  ASSUME IsFiniteSet(Part)
  PROVE  Spec => []SomePartIsNext
<1>1. ASSUME IInv, Going  PROVE SomePartIsNext
  <2>1. ASSUME pc = "modules", todo # {}
        PROVE  \E p \in todo :
                 /\ NextToConstruct(p) /\ \A q \in todo \ {p} : ~NextToConstruct(q)
                 /\ Idle(p) \/ object[p] \in {"listener", "hooked"}
    <3>1. PICK p \in todo : NextToConstruct(p)
      BY <1>1, <2>1, FirstToConstruct
    <3>2. \A q \in todo : NextToConstruct(q) => q = p
      BY <1>1, <2>1, <3>1, OneToConstruct DEF IInv, Stages
    <3> QED  BY <1>1, <2>1, <3>1, <3>2 DEF IInv, Stages
  <2>2. ASSUME pc \in {"teardown", "unwind"}, todo # {}
        PROVE  \E p \in todo :
                 /\ NextToDestroy(p) /\ \A q \in todo \ {p} : ~NextToDestroy(q)
                 /\ \/ object[p] = "ready"
                    \/ p \in Listener /\ object[p] \in {"closing", "unhooked"}
                    \/ p = Overlay /\ object[p] = "gone"
    <3>1. PICK p \in todo : NextToDestroy(p)
      BY <1>1, <2>2, FirstToDestroy
    <3>2. \A q \in todo : NextToDestroy(q) => q = p
      BY <1>1, <2>2, <3>1, OneToDestroy DEF IInv, Stages, TypeOK
    <3> QED  BY <1>1, <2>2, <3>1, <3>2 DEF Going
  <2>3. ASSUME pc = "cleanup", todo # {}
        PROVE  \E h \in todo : h \in listeners /\ (h \in Probe => todo \cap Call = {})
    <3>1. todo \subseteq listeners
      BY <1>1, <2>3 DEF Going
    <3>2. Probe \cap Call = {}
      BY PartAssumption
    <3> QED  BY <2>3, <3>1, <3>2
  <2> QED  BY <2>1, <2>2, <2>3 DEF SomePartIsNext
<1> QED  BY <1>1, AlwaysGoing, PTL

-----------------------------------------------------------------------------
\* How far a part is on its way in or out.
StepsDone(p) ==
  CASE pc = "modules" /\ object[p] = "listener"                   -> 1
    [] pc = "modules" /\ object[p] = "hooked"                     -> 2
    [] pc \in {"teardown", "unwind"} /\ object[p] = "closing"     -> 1
    [] pc \in {"teardown", "unwind"} /\ object[p] = "unhooked"    -> 2
    [] pc \in {"teardown", "unwind"} /\ object[p] = "gone"        -> 3
    [] OTHER                                                      -> 0

\* The steps that the parts in todo have before them.
Ahead == {d \in todo \X (1..4) : StepsDone(d[1]) < d[2]}
AheadCount == Cardinality(Ahead)

\* No more than that, for all parts there are.
Most == Cardinality(Part \X (1..4))

\* The steps that Load or Unload has before it, at most.
WorkLeft ==
  CASE pc = "interfaces"          -> 2 * Most + 5
    [] pc = "offsets"             -> 2 * Most + 4
    [] pc = "classes"             -> 2 * Most + 3
    [] pc = "modules"             -> Most + 2 + AheadCount
    [] pc = "unwind"              -> 1 + AheadCount
    [] pc = "teardown"            -> Most + 5 + AheadCount
    [] pc = "reset_classes"       -> Most + 4
    [] pc = "unregister"          -> Most + 3
    [] pc = "destroy_interceptor" -> Most + 2
    [] pc = "cleanup"             -> 1 + AheadCount
    [] OTHER                      -> 0

Counted == IsFiniteSet(Ahead) /\ AheadCount \in 0..Most /\ Most \in Nat

LEMMA WorkCounted ==
  ASSUME IsFiniteSet(Part)
  PROVE  TypeOK => Counted
<1> SUFFICES ASSUME TypeOK  PROVE Counted
  OBVIOUS
<1>1. IsFiniteSet(Part \X (1..4))
  <2>1. IsFiniteSet(1..4)
    <3>1. 1 \in Int /\ 4 \in Int
      OBVIOUS
    <3> QED  BY <3>1, FS_Interval, Zenon
  <2> QED  BY <2>1, FS_Product
<1>2. Ahead \in SUBSET (Part \X (1..4))
  BY DEF Ahead, TypeOK
<1>3. IsFiniteSet(Ahead) /\ AheadCount <= Most
  BY <1>1, <1>2, FS_Subset DEF AheadCount, Most
<1>4. AheadCount \in Nat /\ Most \in Nat
  BY <1>1, <1>3, FS_CardinalityType DEF AheadCount, Most
<1> QED  BY <1>3, <1>4 DEF Counted

LEMMA WorkCountedNext ==
  ASSUME IsFiniteSet(Part)
  PROVE  TypeOK' => Counted'
BY WorkCounted, PTL

LEMMA WorkType ==
  ASSUME IsFiniteSet(Part), TypeOK
  PROVE  WorkLeft \in Nat
<1>1. AheadCount \in Nat /\ Most \in Nat
  BY WorkCounted DEF Counted
<1> HIDE DEF Counted
<1>2. /\ 2 * Most + 5 \in Nat /\ 2 * Most + 4 \in Nat /\ 2 * Most + 3 \in Nat
      /\ Most + 2 + AheadCount \in Nat /\ 1 + AheadCount \in Nat /\ Most + 5 + AheadCount \in Nat
      /\ Most + 4 \in Nat /\ Most + 3 \in Nat /\ Most + 2 \in Nat
  BY <1>1
<1> QED  BY <1>2 DEF WorkLeft

\* A part takes a step: it has one less before it, or none, and no other has
\* more.
LEMMA PartAdvances ==
  ASSUME IsFiniteSet(Part), TypeOK, NEW p \in todo, StepsDone(p) \in 0..3,
         \A q \in todo \ {p} : StepsDone(q)' = StepsDone(q),
         \/ todo' = todo \ {p}
         \/ todo' = todo /\ StepsDone(p)' = StepsDone(p) + 1
  PROVE  AheadCount' < AheadCount
<1>1. Ahead' \in SUBSET Ahead
  <2> SUFFICES ASSUME NEW q \in todo', NEW n \in 1..4, StepsDone(q)' < n
               PROVE  q \in todo /\ StepsDone(q) < n
    BY DEF Ahead
  <2>1. CASE q = p
    BY <2>1
  <2>2. CASE q # p
    BY <2>2
  <2> QED  BY <2>1, <2>2
<1>2. <<p, StepsDone(p) + 1>> \in Ahead
  BY DEF Ahead
<1>3. <<p, StepsDone(p) + 1>> \notin Ahead'
  BY DEF Ahead
<1>4. IsFiniteSet(Ahead)
  BY WorkCounted DEF Counted
<1>5. /\ IsFiniteSet(Ahead') /\ Cardinality(Ahead') <= Cardinality(Ahead)
      /\ Cardinality(Ahead') # Cardinality(Ahead)
  BY <1>1, <1>2, <1>3, <1>4, FS_Subset
<1>6. Cardinality(Ahead') \in Nat /\ Cardinality(Ahead) \in Nat
  BY <1>4, <1>5, FS_CardinalityType
<1> QED  BY <1>5, <1>6 DEF AheadCount

\* Then there is less work left.
LEMMA LessAhead ==
  ASSUME IsFiniteSet(Part), TypeOK, TypeOK', AheadCount' < AheadCount,
         pc \in {"modules", "unwind", "teardown", "cleanup"}, pc' = pc
  PROVE  WorkLeft' < WorkLeft
<1>1. AheadCount \in Nat /\ AheadCount' \in Nat /\ Most \in Nat
  BY WorkCounted, WorkCountedNext DEF Counted
<1>2. \/ WorkLeft = Most + 2 + AheadCount /\ WorkLeft' = Most + 2 + AheadCount'
      \/ WorkLeft = 1 + AheadCount /\ WorkLeft' = 1 + AheadCount'
      \/ WorkLeft = Most + 5 + AheadCount /\ WorkLeft' = Most + 5 + AheadCount'
  BY DEF WorkLeft
<1> QED  BY <1>1, <1>2

LEMMA LessToUnwind ==
  ASSUME NEW m \in Nat, NEW a \in Nat, NEW b \in 0..m
  PROVE  1 + b < m + 2 + a
OBVIOUS

LEMMA ConstructShrinks ==
  ASSUME IsFiniteSet(Part), IInv, IInv', NEW p \in ModulePart, ConstructPart(p)
  PROVE  WorkLeft' < WorkLeft
<1>1. /\ object \in [Part -> Phase] /\ p \in Part /\ TypeOK /\ TypeOK'
      /\ todo \subseteq Part
  BY DEF IInv, TypeOK, ModulePart
<1>2. CASE ConstructThrows(p)
  <2>1. pc = "modules" /\ pc' = "unwind"
    BY <1>2 DEF ConstructThrows, Unwind
  <2>2. WorkLeft = Most + 2 + AheadCount /\ WorkLeft' = 1 + AheadCount'
    BY <2>1 DEF WorkLeft
  <2>3. Most \in Nat /\ AheadCount \in Nat /\ AheadCount' \in 0..Most
    BY <1>1, WorkCounted, WorkCountedNext DEF Counted, Most
  <2> QED  BY <2>2, <2>3, LessToUnwind
<1>3. CASE ~ConstructThrows(p)
  <2>1. /\ pc = "modules" /\ pc' = "modules" /\ p \in todo
        /\ \A q \in todo \ {p} : object'[q] = object[q]
        /\ \/ todo' = todo \ {p}
           \/ todo' = todo /\ object[p] \in {"none", "gone"} /\ object'[p] = "listener"
           \/ todo' = todo /\ object[p] = "listener" /\ object'[p] = "hooked"
    <3>1. CASE ConstructCommand(p)
      BY <1>1, <3>1 DEF ConstructCommand, NextToConstruct
    <3>2. CASE ConstructListener(p)
      BY <1>1, <3>2 DEF ConstructListener, NewListener, NextToConstruct, lifeVars
    <3>3. CASE ConstructAttach(p)
      BY <1>1, <3>3 DEF ConstructAttach, Attach, NextToConstruct, lifeVars
    <3>4. CASE ConstructComplete(p)
      BY <1>1, <3>4 DEF ConstructComplete, CompleteHook, NextToConstruct
    <3>5. CASE ConstructReplacement(p)
      BY <1>1, <3>5 DEF ConstructReplacement, Replace, NextToConstruct
    <3> QED  BY <1>3, <3>1, <3>2, <3>3, <3>4, <3>5 DEF ConstructPart
  <2>2. StepsDone(p) \in 0..3 /\ \A q \in todo \ {p} : StepsDone(q)' = StepsDone(q)
    BY <2>1 DEF StepsDone
  <2>3. todo' = todo \ {p} \/ (todo' = todo /\ StepsDone(p)' = StepsDone(p) + 1)
    BY <2>1 DEF StepsDone
  <2> QED  BY <1>1, <2>1, <2>2, <2>3, PartAdvances, LessAhead
<1> QED  BY <1>2, <1>3

LEMMA DestroyShrinks ==
  ASSUME IsFiniteSet(Part), IInv, IInv', NEW p \in ModulePart,
         DestroyPart(p) \/ (p = Overlay /\ DeleteContext)
  PROVE  WorkLeft' < WorkLeft
<1>1. /\ object \in [Part -> Phase] /\ p \in Part /\ TypeOK /\ TypeOK'
      /\ todo \subseteq Part
  BY DEF IInv, TypeOK, ModulePart
<1>2. /\ pc \in {"teardown", "unwind"} /\ pc' = pc /\ p \in todo
      /\ \A q \in todo \ {p} : object'[q] = object[q]
      /\ \/ todo' = todo \ {p}
         \/ todo' = todo /\ object[p] = "ready" /\ object'[p] = "closing"
         \/ todo' = todo /\ object[p] = "closing" /\ object'[p] = "unhooked"
         \/ todo' = todo /\ object[p] = "unhooked" /\ object'[p] = "gone"
  <2> USE DEF Destroying, NextToDestroy, lifeVars
  <2>1. CASE DestroyCommand(p)
    BY <1>1, <2>1 DEF DestroyCommand
  <2>2. CASE DestroyCallback(p)
    BY <1>1, <2>2 DEF DestroyCallback, DropCallback
  <2>3. CASE DestroyDetach(p)
    BY <1>1, <2>3 DEF DestroyDetach, Detach
  <2>4. CASE DestroyListener(p)
    BY <1>1, <2>4 DEF DestroyListener, ReleaseListener
  <2>5. CASE DestroyReplacement(p)
    BY <1>1, <2>5 DEF DestroyReplacement, Revert
  <2>6. CASE p = Overlay /\ DeleteContext
    BY <1>1, <2>6 DEF DeleteContext, objectVars
  <2> QED  BY <2>1, <2>2, <2>3, <2>4, <2>5, <2>6 DEF DestroyPart
<1>3. StepsDone(p) \in 0..3 /\ \A q \in todo \ {p} : StepsDone(q)' = StepsDone(q)
  BY <1>2 DEF StepsDone
<1>4. todo' = todo \ {p} \/ (todo' = todo /\ StepsDone(p)' = StepsDone(p) + 1)
  BY <1>2 DEF StepsDone
<1> QED  BY <1>1, <1>2, <1>3, <1>4, PartAdvances, LessAhead

\* The steps that lead from one stage to the next.
LEMMA StageShrinks ==
  ASSUME IsFiniteSet(Part), IInv, IInv',
         \/ LoadInterfaces \/ InitOffsets \/ InitOffsetsThrows \/ LoadClientClasses
         \/ FinishLoad \/ FinishUnwind \/ FinishTeardown
         \/ ResetClientClasses \/ UnloadInterfaces \/ StartCleanup \/ FinishUnload
  PROVE  WorkLeft' < WorkLeft
<1>1. Most \in Nat /\ AheadCount \in 0..Most /\ AheadCount' \in 0..Most
  BY WorkCounted, WorkCountedNext DEF IInv, Counted, Most
<1>2. \/ pc = "interfaces" /\ pc' = "offsets"
      \/ pc = "offsets" /\ pc' \in {"classes", "threw"}
      \/ pc = "classes" /\ pc' = "modules"
      \/ pc = "modules" /\ pc' = "loaded"
      \/ pc = "unwind" /\ pc' = "threw"
      \/ pc = "teardown" /\ pc' = "reset_classes"
      \/ pc = "reset_classes" /\ pc' = "unregister"
      \/ pc = "unregister" /\ pc' = "destroy_interceptor"
      \/ pc = "destroy_interceptor" /\ pc' = "cleanup"
      \/ pc = "cleanup" /\ pc' = "unloaded"
  BY DEF LoadInterfaces, InitOffsets, InitOffsetsThrows, LoadClientClasses, FinishLoad,
     FinishUnwind, FinishTeardown, ResetClientClasses, UnloadInterfaces, StartCleanup, FinishUnload
<1>3. \/ WorkLeft = 2 * Most + 5 /\ WorkLeft' = 2 * Most + 4
      \/ WorkLeft = 2 * Most + 4 /\ WorkLeft' \in {2 * Most + 3, 0}
      \/ WorkLeft = 2 * Most + 3 /\ WorkLeft' = Most + 2 + AheadCount'
      \/ WorkLeft = Most + 2 + AheadCount /\ WorkLeft' = 0
      \/ WorkLeft = 1 + AheadCount /\ WorkLeft' = 0
      \/ WorkLeft = Most + 5 + AheadCount /\ WorkLeft' = Most + 4
      \/ WorkLeft = Most + 4 /\ WorkLeft' = Most + 3
      \/ WorkLeft = Most + 3 /\ WorkLeft' = Most + 2
      \/ WorkLeft = Most + 2 /\ WorkLeft' = 1 + AheadCount'
  BY <1>2 DEF WorkLeft
<1> QED  BY <1>1, <1>3

LEMMA CleanupShrinks ==
  ASSUME IsFiniteSet(Part), IInv, IInv', NEW h \in Listener, Cleanup(h)
  PROVE  WorkLeft' < WorkLeft
<1>1. /\ pc = "cleanup" /\ pc' = pc /\ h \in todo /\ todo' = todo \ {h}
      /\ TypeOK /\ TypeOK'
  BY DEF Cleanup, IInv
<1>2. \A q : StepsDone(q) = 0 /\ StepsDone(q)' = 0
  BY <1>1 DEF StepsDone
<1> QED  BY <1>1, <1>2, PartAdvances, LessAhead

\* What the game's threads do, which nothing bounds, leaves the work alone.
LEMMA ThreadsAddNothing ==
  ASSUME NEW t \in Thread, ThreadStep(t)
  PROVE  WorkLeft' = WorkLeft
<1>1. UNCHANGED <<pc, todo, object>>
  BY DEF ThreadStep, EnterHandler, EnterHalfBuilt, OverlayDraw, LeaveHandler,
     LeaveFreedHandler, LeaveFunction, objectVars, lifeVars
<1>2. Ahead' = Ahead
  BY <1>1 DEF Ahead, StepsDone
<1>3. Most' = Most
  BY DEF Most
<1> QED  BY <1>1, <1>2, <1>3 DEF WorkLeft, AheadCount

\* Load and Unload end after a bounded number of their own steps, however the
\* game's threads run between them: four for each hook or command, twice if a
\* constructor throws, and a few more. StartLoad and StartUnload are the
\* engine's steps.
THEOREM LifeBounded ==
  ASSUME IsFiniteSet(Part)
  PROVE  Spec => /\ [](WorkLeft \in Nat)
                 /\ [][\/ StartLoad \/ StartUnload
                       \/ LifeStep /\ WorkLeft' < WorkLeft
                       \/ (\E t \in Thread : ThreadStep(t)) /\ WorkLeft' = WorkLeft]_vars
<1> DEFINE Shrinks ==
      \/ StartLoad \/ StartUnload
      \/ LifeStep /\ WorkLeft' < WorkLeft
      \/ (\E t \in Thread : ThreadStep(t)) /\ WorkLeft' = WorkLeft
<1>1. IInv => WorkLeft \in Nat
  BY WorkType DEF IInv
<1>2. IInv /\ IInv' /\ [Next]_vars => [Shrinks]_vars
  <2> SUFFICES ASSUME IInv, IInv', Next  PROVE Shrinks
    OBVIOUS
  <2>1. ASSUME LifeStep  PROVE WorkLeft' < WorkLeft
    <3>1. ASSUME NEW p \in ModulePart, ConstructPart(p) \/ DestroyPart(p)
          PROVE  WorkLeft' < WorkLeft
      BY <3>1, ConstructShrinks, DestroyShrinks
    <3>2. CASE DeleteContext
      BY <3>2, DestroyShrinks, Parts
    <3>3. ASSUME NEW h \in Listener, Cleanup(h)  PROVE WorkLeft' < WorkLeft
      BY <3>3, CleanupShrinks
    <3> QED  BY <2>1, <3>1, <3>2, <3>3, StageShrinks DEF LifeStep
  <2> QED  BY <2>1, ThreadsAddNothing DEF Next
<1> QED  BY <1>1, <1>2, AlwaysIInv, PTL DEF Spec
=============================================================================
