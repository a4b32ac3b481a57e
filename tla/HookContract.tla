----------------------------- MODULE HookContract -----------------------------
(***************************************************************************)
(* What the plugin promises the game about its functions: which of them    *)
(* are diverted into the plugin, and which threads are in it, seen from    *)
(* outside.  Hooks appear one by one while Load runs and disappear one by  *)
(* one while Unload runs or Load fails; between the two all of them are in *)
(* place, and after it none is.  No promise is made to a call that is      *)
(* still in the plugin when its hook goes: from then on it is late, and    *)
(* the process can be lost as long as it lasts.                            *)
(* Plugin implements this specification (ContractSpec in Plugin).          *)
(***************************************************************************)
EXTENDS Naturals

CONSTANTS Hook, Thread

VARIABLES
  phase,     \* "out", "coming", "in", "going", "failing", "failed" or "lost"
  diverted,  \* the functions a call of which reaches the plugin
  calls,     \* the threads that are in the plugin's code
  late       \* those of them whose hook has gone since

callVars == <<calls, late>>
contractVars == <<phase, diverted, callVars>>

ContractInit == phase = "out" /\ diverted = {} /\ calls = {} /\ late = {}

BeginLoad ==
  /\ phase = "out"
  /\ phase' = "coming"
  /\ UNCHANGED <<diverted, callVars>>

Divert(h) ==
  /\ phase = "coming"
  /\ diverted' = diverted \cup {h}
  /\ UNCHANGED <<phase, callVars>>

FinishLoad ==
  /\ phase = "coming"
  /\ diverted = Hook
  /\ phase' = "in"
  /\ UNCHANGED <<diverted, callVars>>

BeginUnload ==
  /\ phase = "in"
  /\ phase' = "going"
  /\ UNCHANGED <<diverted, callVars>>

\* An error while loading: what is diverted has to be given back first.
Fail ==
  /\ phase = "coming"
  /\ phase' = "failing" \/ (phase' = "failed" /\ diverted = {})
  /\ UNCHANGED <<diverted, callVars>>

Restore(h) ==
  /\ phase \in {"going", "failing"}
  /\ diverted' = diverted \ {h}
  /\ UNCHANGED <<phase, callVars>>

Finish ==
  /\ diverted = {}
  /\ \/ phase = "going" /\ phase' = "out"
     \/ phase = "failing" /\ phase' = "failed"
  /\ UNCHANGED <<diverted, callVars>>

\* The process can be lost while hooks are made and destroyed.
Crash ==
  /\ phase \in {"coming", "going", "failing"}
  /\ phase' = "lost"
  /\ UNCHANGED <<diverted, callVars>>

\* A thread gets into the plugin by calling a diverted function, or by
\* returning from one, and out of it again.
Enter(t) ==
  /\ phase # "lost"
  /\ diverted # {}
  /\ calls' = calls \cup {t}
  /\ UNCHANGED <<phase, diverted, late>>

Return(t) ==
  /\ phase # "lost"
  /\ calls' = calls \ {t}
  /\ late' = late \ {t}
  /\ UNCHANGED <<phase, diverted>>

\* Hooks that go do not wait for the calls that are in them.
Overtake(T) ==
  /\ phase \in {"going", "failing"}
  /\ T \subseteq calls
  /\ late' = late \cup T
  /\ UNCHANGED <<phase, diverted, calls>>

\* Apart from Crash only a late call loses the process, at any time later:
\* with the plugin gone, failed, or loaded again.
LateCrash ==
  /\ late # {}
  /\ phase' = "lost"
  /\ UNCHANGED <<diverted, callVars>>

Progress ==
  \/ \E h \in Hook : Divert(h) \/ Restore(h)
  \/ FinishLoad \/ Fail \/ Finish \/ Crash

CallStep ==
  \/ \E t \in Thread : Enter(t) \/ Return(t)
  \/ \E T \in SUBSET Thread : Overtake(T)
  \/ LateCrash

ContractNext == BeginLoad \/ BeginUnload \/ Progress \/ CallStep

\* Calls need not be made, need not return, and need not be overtaken.
ContractSpec ==
  ContractInit /\ [][ContractNext]_contractVars /\ WF_contractVars(Progress)
=============================================================================
