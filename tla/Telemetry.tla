------------------------------ MODULE Telemetry ------------------------------
(***************************************************************************)
(* The profiler module (modules/profiler.cpp).  The game brackets its      *)
(* scopes with calls through a table of contexts, one for each telemetry   *)
(* level; the module puts its own context in that table, and turns every   *)
(* scope into a Tracy zone of the calling thread.                          *)
(*                                                                         *)
(* The main thread, in TelemetryTick, follows the level the engine asks    *)
(* for, under a writer's lock; a thread notices the change when it next    *)
(* enters or leaves a scope, under a reader's lock, and drops the zones it *)
(* has open.  The game reads the table without a lock, and a scope that    *)
(* was entered through a context is left through it, whatever the table    *)
(* says by then.  A scope that was entered when the table did not lead to  *)
(* the module may be left through it as well, but only when no other scope *)
(* is open around it that was entered through the module.                  *)
(*                                                                         *)
(* A scope whose name begins with "Wait" makes no zone, and as the module  *)
(* has it the game does not announce the end of such a scope.              *)
(***************************************************************************)
EXTENDS Naturals, Sequences

CONSTANTS
  Thread,
  Main,       \* the thread that ticks, and makes and destroys the module
  Level,      \* the levels, each with a slot in tmContext
  NoLevel,    \* UINT32_MAX: no tick has set a level yet
  MaxDepth    \* bound on the scopes each thread has open; with 0 it has none to leave

ASSUME TelemetryAssumption ==
  /\ Main \in Thread
  /\ 0 \in Level
  /\ NoLevel \notin Level

ASSUME DepthAssumption == MaxDepth \in [Thread -> Nat]

VARIABLES
  level,        \* g_Telemetry.Level, which the engine sets
  profileAll,   \* the ConVar fh_profile_all_levels
  tmContext,    \* the slots of g_Telemetry that hold the module's context
  levelState,   \* telemetry_level_state
  observed,     \* last_observed_telemetry_state_per_thread
  zones,        \* telemetry_ctx_stack, thread-local: the Tracy zones open
  depth,        \* scopes the thread has entered through the module's context
  pc,           \* where a thread is in the module's code
  readers,      \* threads that hold telemetry_level_mutex shared
  writing,      \* the main thread holds it exclusively
  installed     \* ProfilerMod exists, and TelemetryTick is replaced

lockVars == <<readers, writing>>
engineVars == <<level, profileAll>>
vars == <<level, profileAll, tmContext, levelState, observed, zones, depth, pc,
          readers, writing, installed>>

State == [level : Level \cup {NoLevel}, profileAll : BOOLEAN]

\* A zone belongs to a scope, named by its depth, and is of the level state
\* that the thread had observed when it was begun.
Zone == [depth : Nat, state : State]

Waiting == {"enter", "enter_wait", "leave", "draw"}

Reading == {"enter_check", "enter_wait_check", "leave_check", "draw_read"}

Place == {"game", "enter_push", "leave_pop", "tick", "tick_clear", "tick_set",
          "tick_state", "constructing"} \cup Waiting \cup Reading

TypeOK ==
  /\ level \in Level
  /\ profileAll \in BOOLEAN
  /\ tmContext \subseteq Level
  /\ levelState \in State
  /\ observed \in [Thread -> State]
  /\ zones \in [Thread -> Seq(Zone)]
  /\ depth \in [Thread -> Nat]
  /\ pc \in [Thread -> Place]
  /\ readers \subseteq Thread
  /\ writing \in BOOLEAN
  /\ installed \in BOOLEAN

\* Static and thread-local objects are zero-initialized.
Init ==
  /\ level \in Level
  /\ profileAll \in BOOLEAN
  /\ tmContext = {}
  /\ levelState = [level |-> 0, profileAll |-> FALSE]
  /\ observed = [t \in Thread |-> [level |-> 0, profileAll |-> FALSE]]
  /\ zones = [t \in Thread |-> <<>>]
  /\ depth = [t \in Thread |-> 0]
  /\ pc = [t \in Thread |-> "game"]
  /\ readers = {}
  /\ writing = FALSE
  /\ installed = FALSE

Goto(t, place) == pc' = [pc EXCEPT ![t] = place]

-----------------------------------------------------------------------------
(* The engine, on the main thread between its calls into the module.       *)

SetLevel(l) ==
  /\ pc[Main] = "game"
  /\ level' = l
  /\ UNCHANGED <<profileAll, tmContext, levelState, observed, zones, depth, pc,
                 lockVars, installed>>

SetProfileAll ==
  /\ pc[Main] = "game"
  /\ profileAll' = ~profileAll
  /\ UNCHANGED <<level, tmContext, levelState, observed, zones, depth, pc,
                 lockVars, installed>>

-----------------------------------------------------------------------------
(* ProfilerMod.                                                            *)

\* The constructor assigns telemetry_level_state without the mutex.  While
\* the assignment runs, another thread can see one member old and one new.
BeginConstruct ==
  /\ pc[Main] = "game"
  /\ ~installed
  /\ levelState' \in {[levelState EXCEPT !.level = NoLevel],
                      [levelState EXCEPT !.profileAll = profileAll]}
  /\ Goto(Main, "constructing")
  /\ UNCHANGED <<engineVars, tmContext, observed, zones, depth, lockVars, installed>>

FinishConstruct ==
  /\ pc[Main] = "constructing"
  /\ levelState' = [level |-> NoLevel, profileAll |-> profileAll]
  /\ installed' = TRUE
  /\ Goto(Main, "game")
  /\ UNCHANGED <<engineVars, tmContext, observed, zones, depth, lockVars>>

\* The destructor reverts TelemetryTick and leaves tmContext as it is: the
\* game goes on calling the module's functions.
Destroy ==
  /\ pc[Main] = "game"
  /\ installed
  /\ installed' = FALSE
  /\ UNCHANGED <<engineVars, tmContext, levelState, observed, zones, depth, pc, lockVars>>

-----------------------------------------------------------------------------
(* TelemetryTick_replacement.                                              *)

Tick ==
  /\ installed
  /\ pc[Main] = "game"
  /\ \/ level # levelState.level
     \/ levelState.profileAll # profileAll
  /\ Goto(Main, "tick")
  /\ UNCHANGED <<engineVars, tmContext, levelState, observed, zones, depth,
                 lockVars, installed>>

\* Mutant of TickLock: a shared lock, which does not wait for readers.
TickLockShared ==
  /\ pc[Main] = "tick"
  /\ writing' = TRUE
  /\ Goto(Main, IF profileAll THEN "tick_set" ELSE "tick_clear")
  /\ UNCHANGED <<engineVars, tmContext, levelState, observed, zones, depth,
                 readers, installed>>

\* unique_lock.
TickLock ==
  /\ pc[Main] = "tick"
  /\ readers = {}
  /\ writing' = TRUE
  /\ Goto(Main, IF profileAll THEN "tick_set" ELSE "tick_clear")
  /\ UNCHANGED <<engineVars, tmContext, levelState, observed, zones, depth,
                 readers, installed>>

\* Mutant of TickClear: the slots of other levels keep the context.
TickClearNothing ==
  /\ pc[Main] = "tick_clear"
  /\ Goto(Main, "tick_set")
  /\ UNCHANGED <<engineVars, tmContext, levelState, observed, zones, depth,
                 lockVars, installed>>

\* memset(tmContext, 0), when only one level is wanted.
TickClear ==
  /\ pc[Main] = "tick_clear"
  /\ tmContext' = {}
  /\ Goto(Main, "tick_set")
  /\ UNCHANGED <<engineVars, levelState, observed, zones, depth, lockVars, installed>>

\* Mutant of TickSet: the slots are counted from one.
TickSetFromOne(l) ==
  /\ pc[Main] = "tick_set"
  /\ l \in IF profileAll THEN Level \ tmContext ELSE {level}
  /\ tmContext' = tmContext \cup {l + 1}
  /\ Goto(Main, IF profileAll /\ tmContext' # Level THEN "tick_set" ELSE "tick_state")
  /\ UNCHANGED <<engineVars, levelState, observed, zones, depth, lockVars, installed>>

\* The context goes into the slot of the level, or into one slot after
\* another; the game may read the table in between.
TickSet(l) ==
  /\ pc[Main] = "tick_set"
  /\ l \in IF profileAll THEN Level \ tmContext ELSE {level}
  /\ tmContext' = tmContext \cup {l}
  /\ Goto(Main, IF profileAll /\ tmContext' # Level THEN "tick_set" ELSE "tick_state")
  /\ UNCHANGED <<engineVars, levelState, observed, zones, depth, lockVars, installed>>

\* The loop when every slot holds the context already.
TickSetAgain ==
  /\ pc[Main] = "tick_set"
  /\ profileAll
  /\ tmContext = Level
  /\ Goto(Main, "tick_state")
  /\ UNCHANGED <<engineVars, tmContext, levelState, observed, zones, depth,
                 lockVars, installed>>

\* The new state, and the end of the lock's scope.
TickState ==
  /\ pc[Main] = "tick_state"
  /\ levelState' = [level |-> level, profileAll |-> profileAll]
  /\ writing' = FALSE
  /\ Goto(Main, "game")
  /\ UNCHANGED <<engineVars, tmContext, observed, zones, depth, readers, installed>>

-----------------------------------------------------------------------------
(* Scopes of the game, on every thread, and the overlay's text.            *)

\* The game enters a scope of level l: it calls tmCoreEnter if it finds a
\* context in the slot.
CallEnter(t, l, place) ==
  /\ pc[t] = "game"
  /\ l \in tmContext
  /\ depth[t] < MaxDepth[t]
  /\ place \in {"enter", "enter_wait"}
  /\ Goto(t, place)
  /\ UNCHANGED <<engineVars, tmContext, levelState, observed, zones, depth,
                 lockVars, installed>>

\* The game leaves its innermost scope and calls tmCoreLeave.  The scope may
\* be one that was entered before the module was told of any.
CallLeave(t) ==
  /\ pc[t] = "game"
  /\ MaxDepth[t] > 0
  /\ Goto(t, "leave")
  /\ UNCHANGED <<engineVars, tmContext, levelState, observed, zones, depth,
                 lockVars, installed>>

\* The overlay, on whichever thread it runs, calls draw_overlay.
CallDraw(t) ==
  /\ pc[t] = "game"
  /\ installed
  /\ Goto(t, "draw")
  /\ UNCHANGED <<engineVars, tmContext, levelState, observed, zones, depth,
                 lockVars, installed>>

\* shared_lock, in check_level and in draw_overlay.  Readers do not wait for
\* a writer that waits.
ReadLock(t) ==
  /\ pc[t] \in Waiting
  /\ ~writing
  /\ readers' = readers \cup {t}
  /\ Goto(t, CASE pc[t] = "enter"      -> "enter_check"
               [] pc[t] = "enter_wait" -> "enter_wait_check"
               [] pc[t] = "leave"      -> "leave_check"
               [] pc[t] = "draw"       -> "draw_read")
  /\ UNCHANGED <<engineVars, tmContext, levelState, observed, zones, depth,
                 writing, installed>>

DrawDone(t) ==
  /\ pc[t] = "draw_read"
  /\ readers' = readers \ {t}
  /\ Goto(t, "game")
  /\ UNCHANGED <<engineVars, tmContext, levelState, observed, zones, depth,
                 writing, installed>>

\* check_level finds the state it has observed, and unlocks.
SameLevel(t) ==
  /\ levelState = observed[t]
  /\ readers' = readers \ {t}
  /\ UNCHANGED <<observed, zones>>

\* Mutant of OtherLevel: the zones stay open.
OtherLevelKeepsZones(t) ==
  /\ levelState # observed[t]
  /\ observed' = [observed EXCEPT ![t] = levelState]
  /\ readers' = readers \ {t}
  /\ UNCHANGED zones

\* check_level finds another state: it ends every zone of the thread, and
\* its caller returns at once.
OtherLevel(t) ==
  /\ levelState # observed[t]
  /\ observed' = [observed EXCEPT ![t] = levelState]
  /\ zones' = [zones EXCEPT ![t] = <<>>]
  /\ readers' = readers \ {t}

\* A scope is open from the check on, with or without a zone of its own.
CheckEnter(t) ==
  /\ pc[t] = "enter_check"
  /\ \/ SameLevel(t) /\ Goto(t, "enter_push") /\ UNCHANGED depth
     \/ OtherLevel(t) /\ Goto(t, "game") /\ depth' = [depth EXCEPT ![t] = @ + 1]
  /\ UNCHANGED <<engineVars, tmContext, levelState, writing, installed>>

\* Mutant of CheckEnterWait: these scopes get a zone as well.
CheckEnterWaitPushes(t) ==
  /\ pc[t] = "enter_wait_check"
  /\ \/ /\ levelState = observed[t]
        /\ zones' = [zones EXCEPT ![t] = Append(@, [depth |-> depth[t] + 1, state |-> observed[t]])]
        /\ readers' = readers \ {t}
        /\ UNCHANGED observed
     \/ OtherLevel(t)
  /\ Goto(t, "game")
  /\ UNCHANGED <<engineVars, tmContext, levelState, depth, writing, installed>>

\* The name begins with "Wait": no zone, and no tmCoreLeave to come.
CheckEnterWait(t) ==
  /\ pc[t] = "enter_wait_check"
  /\ SameLevel(t) \/ OtherLevel(t)
  /\ Goto(t, "game")
  /\ UNCHANGED <<engineVars, tmContext, levelState, depth, writing, installed>>

\* ContextStack::push, after the mutex is released.
Push(t) ==
  /\ pc[t] = "enter_push"
  /\ depth' = [depth EXCEPT ![t] = @ + 1]
  /\ zones' = [zones EXCEPT ![t] = Append(@, [depth |-> depth[t] + 1, state |-> observed[t]])]
  /\ Goto(t, "game")
  /\ UNCHANGED <<engineVars, tmContext, levelState, observed, lockVars, installed>>

\* The scopes that are open when one is left.
Left(d) == IF d = 0 THEN 0 ELSE d - 1

\* Mutant of CheckLeave: the caller tries again until the state is the one
\* it has observed, which nobody records.
CheckLeaveAgain(t) ==
  /\ pc[t] = "leave_check"
  /\ \/ SameLevel(t) /\ Goto(t, "leave_pop")
     \/ /\ levelState # observed[t]
        /\ readers' = readers \ {t}
        /\ Goto(t, "leave")
        /\ UNCHANGED <<observed, zones>>
  /\ UNCHANGED <<engineVars, tmContext, levelState, depth, writing, installed>>

CheckLeave(t) ==
  /\ pc[t] = "leave_check"
  /\ \/ SameLevel(t) /\ Goto(t, "leave_pop") /\ UNCHANGED depth
     \/ OtherLevel(t) /\ Goto(t, "game") /\ depth' = [depth EXCEPT ![t] = Left(@)]
  /\ UNCHANGED <<engineVars, tmContext, levelState, writing, installed>>

\* ContextStack::pop, which does nothing on an empty stack.
Pop(t) ==
  /\ pc[t] = "leave_pop"
  /\ depth' = [depth EXCEPT ![t] = Left(@)]
  /\ zones' = [zones EXCEPT ![t] = IF @ = <<>> THEN @ ELSE SubSeq(@, 1, Len(@) - 1)]
  /\ Goto(t, "game")
  /\ UNCHANGED <<engineVars, tmContext, levelState, observed, lockVars, installed>>

-----------------------------------------------------------------------------
TickStep ==
  \/ TickLock \/ TickClear \/ TickSetAgain \/ TickState
  \/ \E l \in Level : TickSet(l)

\* What a thread does inside the module once it has its lock.
Inside(t) ==
  \/ DrawDone(t) \/ CheckEnter(t) \/ CheckEnterWait(t) \/ CheckLeave(t)
  \/ Push(t) \/ Pop(t)

Call(t) ==
  \/ \E l \in Level, place \in {"enter", "enter_wait"} : CallEnter(t, l, place)
  \/ CallLeave(t)
  \/ CallDraw(t)

Next ==
  \/ \E l \in Level : SetLevel(l)
  \/ SetProfileAll
  \/ BeginConstruct \/ FinishConstruct \/ Destroy
  \/ Tick \/ TickStep
  \/ \E t \in Thread : Call(t) \/ ReadLock(t) \/ Inside(t)

\* Every thread is scheduled.  The mutex prefers readers, so a reader that
\* waits gets in between two writers; the writer has no such promise.
Fairness ==
  /\ WF_vars(FinishConstruct)
  /\ WF_vars(TickStep)
  /\ \A t \in Thread : SF_vars(ReadLock(t)) /\ WF_vars(Inside(t))

Spec == Init /\ [][Next]_vars /\ Fairness

-----------------------------------------------------------------------------
(* Properties.                                                             *)

\* The zones of a thread are those of its innermost scopes, one for each and
\* in their order, so a scope that ends finds its own zone on top or an
\* empty stack and never ends the zone of an enclosing scope.
ZonesMatchScopes ==
  \A t \in Thread :
    /\ Len(zones[t]) <= depth[t]
    /\ \A i \in 1..Len(zones[t]) : zones[t][i].depth = depth[t] - Len(zones[t]) + i

\* No zone survives the level state it was begun under: a thread that has
\* seen the change has none of the old ones open.
ZonesOfOneLevel ==
  \A t \in Thread : \A i \in 1..Len(zones[t]) : zones[t][i].state = observed[t]

\* Between two ticks the table agrees with the state that the threads
\* compare with: the levels that reach the module are those it shows.
TableAgrees ==
  (pc[Main] \notin {"tick_clear", "tick_set", "tick_state", "constructing"}
     /\ levelState.level # NoLevel /\ installed) =>
    tmContext = IF levelState.profileAll THEN Level ELSE {levelState.level}

\* While ProfilerMod exists, the state does not change under a thread that
\* holds the mutex shared.
StableUnderReaders ==
  [][installed /\ readers # {} => levelState' = levelState]_vars

\* A thread that enters or leaves a scope gets back to the game.
CallsReturn ==
  \A t \in Thread : (pc[t] \in Waiting \cup Reading) ~> pc[t] = "game"
=============================================================================
