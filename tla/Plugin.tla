-------------------------------- MODULE Plugin --------------------------------
(***************************************************************************)
(* The life of the plugin: ClientPlugin::Load and Unload on the engine's   *)
(* main thread, the ModuleManager they build and destroy, the graphics     *)
(* overlay, and the console commands, over the hooks of Interceptor.       *)
(*                                                                         *)
(* The main thread runs Load and Unload from begin to end without calling  *)
(* a hooked function; the game's other threads go on calling them, in any  *)
(* state of the plugin.  An exception that leaves Load is where the model  *)
(* stops following the main thread: nothing in the plugin catches it.      *)
(***************************************************************************)
EXTENDS Interceptor

CONSTANTS
  Main,          \* the thread that runs Load and Unload
  Overlay,       \* GfxOverlayMod's hook on SDL_GL_SwapWindow
  ClassCommand,  \* the ConCommand of ClientClassManager
  ConVar,        \* ConVars of static storage, registered by ConVar_Register
  ModuleOf,      \* position, in g_ModuleList, of the module a part belongs to
  BuiltAs,       \* when the constructor of that module makes the part
  DeclaredAs     \* where its class declares the member that holds the part

\* What ModuleManager builds and destroys: GfxOverlayMod comes after the list.
ModulePart == Part \ {ClassCommand}

ASSUME ModuleAssumption ==
  /\ Main \in Thread
  /\ Overlay \in Probe
  /\ ClassCommand \in Command
  /\ ConVar \cap Part = {}
  /\ ModuleOf \in [ModulePart -> Nat]
  /\ BuiltAs \in [ModulePart -> Nat]
  /\ DeclaredAs \in [ModulePart -> Nat]
  /\ \A p \in ModulePart \ {Overlay} : ModuleOf[p] < ModuleOf[Overlay]
  /\ \A p, q \in ModulePart : p # q /\ ModuleOf[p] = ModuleOf[q] =>
       BuiltAs[p] # BuiltAs[q] /\ DeclaredAs[p] # DeclaredAs[q]

VARIABLES
  pc,          \* where the main thread is in Load or Unload
  todo,        \* parts it has still to construct, destroy or detach
  firstOut,    \* the module whose members are destroyed before all others
  registered,  \* names the engine's console knows: ConCommands and ConVars
  context      \* the overlay's own GL context

lifeVars == <<pc, todo, firstOut>>
vars == <<object, refs, listeners, attached, active, transaction, target,
          place, overtaken, fault, pc, todo, firstOut, registered, context>>

\* "threw" is the state after an exception has left Load.
Control == {"unloaded", "interfaces", "offsets", "classes", "modules", "loaded",
            "teardown", "reset_classes", "unregister", "destroy_interceptor",
            "cleanup", "unwind", "threw"}

InEngine == pc \in {"unloaded", "loaded", "threw"}

TypeOK ==
  /\ object \in [Part -> Phase]
  /\ refs \in [Listener -> Nat]
  /\ listeners \subseteq Listener
  /\ attached \subseteq Hook
  /\ active \subseteq attached
  /\ transaction \in Nat
  /\ target \in [Thread -> Hook]
  /\ place \in [Thread -> Place]
  /\ overtaken \subseteq InPlugin
  /\ fault \in Fault
  /\ pc \in Control
  /\ todo \subseteq Part
  /\ firstOut \in Nat
  /\ registered \subseteq Command \cup ConVar
  /\ context \in {"unset", "created", "deleted"}

Init ==
  /\ object = [p \in Part |-> "none"]
  /\ refs = [h \in Listener |-> 0]
  /\ listeners = {}
  /\ attached = {}
  /\ active = {}
  /\ transaction = 0
  /\ target = [t \in Thread |-> Overlay]
  /\ place = [t \in Thread |-> "game"]
  /\ overtaken = {}
  /\ fault = "none"
  /\ pc = "unloaded"
  /\ todo = {}
  /\ firstOut = 0
  /\ registered = {}
  /\ context = "unset"

-----------------------------------------------------------------------------
(* Orders.  ModuleManager() walks g_ModuleList, and a module constructor    *)
(* makes its hooks in the order of its statements.  A vector destroys its   *)
(* modules from the first on, and a module its members in the reverse order *)
(* of their declarations; the overlay, or a module whose constructor is     *)
(* being unwound, goes first.                                               *)

ConstructedBefore(p, q) ==
  \/ ModuleOf[p] < ModuleOf[q]
  \/ ModuleOf[p] = ModuleOf[q] /\ BuiltAs[p] < BuiltAs[q]

DestroyedBefore(p, q) ==
  \/ ModuleOf[p] = ModuleOf[q] /\ DeclaredAs[q] < DeclaredAs[p]
  \/ ModuleOf[p] = firstOut /\ ModuleOf[q] # firstOut
  \/ firstOut \notin {ModuleOf[p], ModuleOf[q]} /\ ModuleOf[p] < ModuleOf[q]

NextToConstruct(p) ==
  /\ p \in todo
  /\ \A q \in todo \ {p} : ConstructedBefore(p, q)

NextToDestroy(p) ==
  /\ p \in todo
  /\ \A q \in todo \ {p} : DestroyedBefore(p, q)

-----------------------------------------------------------------------------
(* ClientPlugin::Load.                                                      *)

\* gum_init_embedded(), and a new Interceptor with empty listener vectors.
StartLoad ==
  /\ pc = "unloaded"
  /\ place[Main] = "game"
  /\ pc' = "interfaces"
  /\ listeners' = {}
  /\ UNCHANGED <<object, refs, gumVars, threadVars, fault, todo, firstOut,
                 registered, context>>

\* Interfaces::Load: ConVar_Register makes the static ConVars known, and
\* from now on a ConCommand registers itself when it is constructed.
LoadInterfaces ==
  /\ pc = "interfaces"
  /\ pc' = "offsets"
  /\ registered' = registered \cup ConVar
  /\ UNCHANGED <<objectVars, gumVars, threadVars, fault, todo, firstOut, context>>

\* init_offsets() caches every address.
InitOffsets ==
  /\ pc = "offsets"
  /\ pc' = "classes"
  /\ UNCHANGED <<objectVars, gumVars, threadVars, fault, todo, firstOut,
                 registered, context>>

\* A library, a symbol, a signature or a virtual table is not found.
InitOffsetsThrows ==
  /\ pc = "offsets"
  /\ pc' = "threw"
  /\ UNCHANGED <<objectVars, gumVars, threadVars, fault, todo, firstOut,
                 registered, context>>

\* make_unique<ClientClassManager>(), whose last member is a ConCommand.
LoadClientClasses ==
  /\ pc = "classes"
  /\ pc' = "modules"
  /\ todo' = ModulePart
  /\ object' = [object EXCEPT ![ClassCommand] = "ready"]
  /\ registered' = registered \cup {ClassCommand}
  /\ UNCHANGED <<refs, listeners, gumVars, threadVars, fault, firstOut, context>>

\* A ConCommand member of a module.
ConstructCommand(p) ==
  /\ pc = "modules"
  /\ NextToConstruct(p)
  /\ p \in Command
  /\ object' = [object EXCEPT ![p] = "ready"]
  /\ registered' = registered \cup {p}
  /\ todo' = todo \ {p}
  /\ UNCHANGED <<refs, listeners, gumVars, threadVars, fault, pc, firstOut, context>>

\* Mutant of ConstructListener: the overlay keeps the context, and the flag
\* that it has one, of the life before.
ConstructListenerOldContext(p) ==
  /\ pc = "modules"
  /\ NextToConstruct(p)
  /\ NewListener(p)
  /\ UNCHANGED <<threadVars, fault, lifeVars, registered, context>>

\* The steps of constructing an attachment hook.  A GfxOverlayMod starts
\* without a context.
ConstructListener(p) ==
  /\ pc = "modules"
  /\ NextToConstruct(p)
  /\ NewListener(p)
  /\ context' = IF p = Overlay THEN "unset" ELSE context
  /\ UNCHANGED <<threadVars, fault, lifeVars, registered>>

ConstructAttach(p) ==
  /\ pc = "modules"
  /\ NextToConstruct(p)
  /\ Attach(p)
  /\ UNCHANGED <<threadVars, fault, lifeVars, registered, context>>

ConstructComplete(p) ==
  /\ pc = "modules"
  /\ NextToConstruct(p)
  /\ CompleteHook(p)
  /\ todo' = todo \ {p}
  /\ UNCHANGED <<threadVars, fault, pc, firstOut, registered, context>>

ConstructReplacement(p) ==
  /\ pc = "modules"
  /\ NextToConstruct(p)
  /\ Replace(p)
  /\ todo' = todo \ {p}
  /\ UNCHANGED <<threadVars, fault, pc, firstOut, registered, context>>

\* Mutant of Unwind: raw pointers, which nothing deletes.
UnwindNothing(p) ==
  /\ pc' = "unwind"
  /\ todo' = {}
  /\ firstOut' = ModuleOf[p]

\* An exception in the constructor of p's module: the members that are
\* built are destroyed, then the modules already in the vector.
Unwind(p) ==
  /\ pc' = "unwind"
  /\ todo' = ModulePart \ todo
  /\ firstOut' = ModuleOf[p]

\* Interceptor::attach or replace throws, or MediGunsMod() does not find
\* its property before it makes its call hook.
ConstructThrows(p) ==
  /\ pc = "modules"
  /\ NextToConstruct(p)
  /\ \/ AttachFails(p)
     \/ ReplaceFails(p)
     \/ /\ p \in Call
        /\ object[p] \in {"none", "gone"}
        /\ UNCHANGED <<objectVars, gumVars>>
  /\ Unwind(p)
  /\ UNCHANGED <<threadVars, fault, registered, context>>

\* ModuleManager() returns, and Load returns true.
FinishLoad ==
  /\ pc = "modules"
  /\ todo = {}
  /\ pc' = "loaded"
  /\ UNCHANGED <<objectVars, gumVars, threadVars, fault, todo, firstOut,
                 registered, context>>

-----------------------------------------------------------------------------
(* Destruction of modules: ~ModuleManager in Unload, or the unwinding of a  *)
(* module constructor that threw in Load.                                   *)

\* Mutants of StartUnload: the modules go before the overlay that draws
\* them, or the overlay is never deleted.
StartUnloadModulesFirst ==
  /\ pc = "loaded"
  /\ place[Main] = "game"
  /\ pc' = "teardown"
  /\ todo' = ModulePart
  /\ firstOut' = 0
  /\ UNCHANGED <<objectVars, gumVars, threadVars, fault, registered, context>>

StartUnloadKeepsOverlay ==
  /\ pc = "loaded"
  /\ place[Main] = "game"
  /\ pc' = "teardown"
  /\ todo' = ModulePart \ {Overlay}
  /\ firstOut' = ModuleOf[Overlay]
  /\ UNCHANGED <<objectVars, gumVars, threadVars, fault, registered, context>>

\* module_manager.reset() deletes the overlay and then clears the modules.
StartUnload ==
  /\ pc = "loaded"
  /\ place[Main] = "game"
  /\ pc' = "teardown"
  /\ todo' = ModulePart
  /\ firstOut' = ModuleOf[Overlay]
  /\ UNCHANGED <<objectVars, gumVars, threadVars, fault, registered, context>>

Destroying(p) == pc \in {"teardown", "unwind"} /\ NextToDestroy(p)

\* The SDK's ConCommand destructor leaves the console's list as it is.
DestroyCommand(p) ==
  /\ Destroying(p)
  /\ p \in Command
  /\ object' = [object EXCEPT ![p] = "gone"]
  /\ todo' = todo \ {p}
  /\ UNCHANGED <<refs, listeners, gumVars, threadVars, fault, pc, firstOut,
                 registered, context>>

DestroyCallback(p) ==
  /\ Destroying(p)
  /\ DropCallback(p)
  /\ UNCHANGED <<target, place, fault, lifeVars, registered, context>>

DestroyDetach(p) ==
  /\ Destroying(p)
  /\ Detach(p)
  /\ UNCHANGED <<threadVars, fault, lifeVars, registered, context>>

DestroyListener(p) ==
  /\ Destroying(p)
  /\ ReleaseListener(p)
  /\ todo' = IF p = Overlay THEN todo ELSE todo \ {p}
  /\ UNCHANGED <<threadVars, fault, pc, firstOut, registered, context>>

DestroyReplacement(p) ==
  /\ Destroying(p)
  /\ Revert(p)
  /\ todo' = todo \ {p}
  /\ UNCHANGED <<threadVars, fault, pc, firstOut, registered, context>>

\* ~GfxOverlayMod after its hook is reset: SDL_GL_DeleteContext(our_context),
\* whether or not a frame has ever set our_context.
DeleteContext ==
  /\ Destroying(Overlay)
  /\ object[Overlay] = "gone"
  /\ context' = "deleted"
  /\ todo' = todo \ {Overlay}
  /\ UNCHANGED <<objectVars, gumVars, threadVars, fault, pc, firstOut, registered>>

\* The exception leaves Load; g_Interceptor and g_ClientClasses stay.
FinishUnwind ==
  /\ pc = "unwind"
  /\ todo = {}
  /\ pc' = "threw"
  /\ UNCHANGED <<objectVars, gumVars, threadVars, fault, todo, firstOut,
                 registered, context>>

-----------------------------------------------------------------------------
(* The rest of ClientPlugin::Unload.                                        *)

FinishTeardown ==
  /\ pc = "teardown"
  /\ todo = {}
  /\ pc' = "reset_classes"
  /\ UNCHANGED <<objectVars, gumVars, threadVars, fault, todo, firstOut,
                 registered, context>>

ResetClientClasses ==
  /\ pc = "reset_classes"
  /\ pc' = "unregister"
  /\ object' = [object EXCEPT ![ClassCommand] = "gone"]
  /\ UNCHANGED <<refs, listeners, gumVars, threadVars, fault, todo, firstOut,
                 registered, context>>

\* Mutant of UnloadInterfaces: ConVar_Unregister is not called.
UnloadInterfacesKeepsNames ==
  /\ pc = "unregister"
  /\ pc' = "destroy_interceptor"
  /\ UNCHANGED <<objectVars, gumVars, threadVars, fault, todo, firstOut,
                 registered, context>>

\* Interfaces::Unload: ConVar_Unregister removes everything of this library.
UnloadInterfaces ==
  /\ pc = "unregister"
  /\ pc' = "destroy_interceptor"
  /\ registered' = {}
  /\ UNCHANGED <<objectVars, gumVars, threadVars, fault, todo, firstOut, context>>

\* g_Interceptor.reset() runs ~Interceptor.
StartCleanup ==
  /\ pc = "destroy_interceptor"
  /\ BeginCleanup
  /\ pc' = "cleanup"
  /\ todo' = listeners
  /\ UNCHANGED <<threadVars, fault, firstOut, registered, context>>

\* call_listeners first, then probe_listeners.
Cleanup(h) ==
  /\ pc = "cleanup"
  /\ h \in todo
  /\ h \in Probe => todo \cap Call = {}
  /\ CleanupDetach(h)
  /\ todo' = todo \ {h}
  /\ UNCHANGED <<threadVars, pc, firstOut, registered, context>>

\* The transaction ends, gum_deinit_embedded() runs, and Unload returns.
FinishUnload ==
  /\ pc = "cleanup"
  /\ todo = {}
  /\ EndCleanup
  /\ pc' = "unloaded"
  /\ UNCHANGED <<threadVars, fault, todo, firstOut, registered, context>>

-----------------------------------------------------------------------------
(* The game's threads.                                                      *)

\* The main thread is in the game only when it is not in Load or Unload.
CanRun(t) == t = Main => InEngine

EnterHandler(t, h) ==
  /\ CanRun(t)
  /\ Hit(t, h)
  /\ UNCHANGED <<objectVars, gumVars, lifeVars, registered, context>>

EnterHalfBuilt(t, h) ==
  /\ CanRun(t)
  /\ HitHalfBuilt(t, h)
  /\ UNCHANGED <<objectVars, gumVars, lifeVars, registered, context>>

\* SDL_GL_SwapWindow_handler makes its context on the first frame, and then
\* draws the modules that ask for it.  An overtaken frame reads members that
\* are deleted, or by now those of another overlay.
OverlayDraw(t) ==
  /\ CanRun(t)
  /\ target[t] = Overlay
  /\ place[t] = "handler"
  /\ place' = [place EXCEPT ![t] = "draw"]
  /\ \/ context' = IF context = "unset" THEN "created" ELSE context
     \/ t \in overtaken /\ UNCHANGED context
  /\ UNCHANGED <<objectVars, gumVars, target, overtaken, fault, lifeVars, registered>>

LeaveHandler(t) ==
  /\ CanRun(t)
  /\ target[t] = Overlay => place[t] # "handler"
  /\ HandlerReturns(t)
  /\ UNCHANGED <<objectVars, gumVars, lifeVars, registered, context>>

LeaveFreedHandler(t) ==
  /\ CanRun(t)
  /\ HandlerFaults(t)
  /\ UNCHANGED <<objectVars, gumVars, lifeVars, registered, context>>

LeaveFunction(t) ==
  /\ CanRun(t)
  /\ BodyReturns(t)
  /\ UNCHANGED <<objectVars, gumVars, lifeVars, registered, context>>

-----------------------------------------------------------------------------
ConstructPart(p) ==
  \/ ConstructCommand(p)
  \/ ConstructListener(p)
  \/ ConstructAttach(p)
  \/ ConstructComplete(p)
  \/ ConstructReplacement(p)
  \/ ConstructThrows(p)

DestroyPart(p) ==
  \/ DestroyCommand(p)
  \/ DestroyCallback(p)
  \/ DestroyDetach(p)
  \/ DestroyListener(p)
  \/ DestroyReplacement(p)

\* Load and Unload once they are started.
LifeStep ==
  \/ LoadInterfaces \/ InitOffsets \/ InitOffsetsThrows \/ LoadClientClasses
  \/ \E p \in ModulePart : ConstructPart(p) \/ DestroyPart(p)
  \/ DeleteContext
  \/ FinishLoad \/ FinishUnwind \/ FinishTeardown
  \/ ResetClientClasses \/ UnloadInterfaces \/ StartCleanup
  \/ \E h \in Listener : Cleanup(h)
  \/ FinishUnload

ThreadStep(t) ==
  \/ \E h \in Hook : EnterHandler(t, h) \/ EnterHalfBuilt(t, h)
  \/ OverlayDraw(t)
  \/ LeaveHandler(t)
  \/ LeaveFreedHandler(t)
  \/ LeaveFunction(t)

Next ==
  /\ fault = "none"
  /\ \/ StartLoad \/ StartUnload \/ LifeStep
     \/ \E t \in Thread : ThreadStep(t)

\* Load and Unload run to their end on a thread the system schedules; the
\* engine need not call either, and the game need not call a hooked function.
Fairness == WF_vars(fault = "none" /\ LifeStep)

Spec == Init /\ [][Next]_vars /\ Fairness

-----------------------------------------------------------------------------
(* What holds however the game's threads run.                              *)

\* Every function that is diverted is diverted to a hook object whose memory
\* is still there: listeners are detached before the object is released, on
\* the way out of Unload and on the way out of a constructor that throws.
DispatchedHooksExist ==
  \A h \in active : object[h] \in {"hooked", "ready", "closing"}

\* Attaching in the constructor of a base class, and detaching in its
\* destructor, exposes a hook object that is not complete to any thread that
\* calls the function.  It is never more than one hook at a time, and none
\* while the main thread is in the engine: between Load and Unload, after
\* Unload, and after an exception has left Load, no call can start on an
\* incomplete hook.
Exposed == {h \in active : object[h] # "ready"}

OneHookExposed ==
  /\ InEngine => Exposed = {}
  /\ \A g, h \in Exposed : g = h

\* A frame that begins finds every module of the vector the overlay walks
\* complete, and one in progress does so as long as it is not overtaken: the
\* overlay is made last and deleted first.
FrameRuns ==
  \/ Overlay \in active
  \/ \E t \in InPlugin \ overtaken : target[t] = Overlay

OverlaySeesLiveModules ==
  FrameRuns => \A p \in ModulePart \ {Overlay} : object[p] = "ready"

\* The overlay draws with a GL context it has made and not deleted, also
\* when the plugin is loaded a second time, while frames of the life before
\* are still on their way.  Frames that are overtaken are left out: see
\* FramesKeepTheirContext.
OverlayDrawsWithItsContext ==
  \A t \in Thread \ overtaken : place[t] = "draw" => context = "created"

\* When Load has returned, every function a module hooks is diverted: no
\* attach left gum's transaction open.
LoadedIsComplete == pc = "loaded" => active = Hook

\* When Unload has returned, or an exception has left Load, nothing is
\* diverted into the plugin any more and no hook object is left.
QuietOutside ==
  pc \in {"unloaded", "threw"} =>
    attached = {} /\ \A h \in Hook : object[h] \in {"none", "gone"}

\* The console knows every command that exists.  It knows the name of one
\* that does not only from the destruction of the modules on until
\* ConVar_Unregister, which the main thread passes without running the
\* console, and for good once an exception has left Load, where nothing
\* unregisters anything.
ConsoleFollowsCommands ==
  /\ \A c \in Command : object[c] = "ready" => c \in registered
  /\ \A c \in registered \cap Command :
       object[c] # "ready" =>
         pc \in {"teardown", "reset_classes", "unregister", "unwind", "threw"}

\* The pointers ~Interceptor finds name GObjects that are still allocated:
\* each listener keeps the reference that its wrapper never gives back.
RecordedListenersReferenced == \A h \in listeners : refs[h] >= 1

-----------------------------------------------------------------------------
(* The promise to the game.                                                *)

ContractPhase ==
  CASE fault # "none"    -> "lost"
    [] pc = "unloaded"   -> "out"
    [] pc = "loaded"     -> "in"
    [] pc = "unwind"     -> "failing"
    [] pc = "threw"      -> "failed"
    [] pc \in {"interfaces", "offsets", "classes", "modules"} -> "coming"
    [] OTHER             -> "going"

Contract ==
  INSTANCE HookContract WITH phase <- ContractPhase,
                             diverted <- active,
                             calls <- InPlugin,
                             late <- overtaken

\* The plugin does what HookContract says: functions are diverted and given
\* back one at a time, all are diverted from Load to Unload, none before or
\* after.  The process is lost in Load or Unload, or by a call that was in
\* the plugin when its hook was destroyed, and in no other way.
ContractSpec == Contract!ContractSpec

-----------------------------------------------------------------------------
(* What the source says of itself and the code does not keep.              *)

\* plugin.cpp: "Return false if there is an error during startup."
LoadReturns == pc # "threw"

\* plugin.cpp: gum_interceptor_detach "is called to cleanup loose hooks",
\* which are hooks that still exist.
CleanupFindsHooks == fault # "freed_listener"

\* gfxoverlay.cpp deletes the context after the hook "to avoid it being called
\* with a deleted context": no frame loses the context it draws with.
FramesKeepTheirContext ==
  [][\A t \in Thread :
       place[t] = "draw" /\ context = "created" => context' # "deleted"]_vars
=============================================================================
