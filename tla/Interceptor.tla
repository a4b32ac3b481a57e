----------------------------- MODULE Interceptor -----------------------------
(***************************************************************************)
(* The hook layer: the three kinds of RAII hook object of hook/hook.hpp,   *)
(* the Gum::Interceptor and the Gum listener wrappers of hook/gum, and the *)
(* threads of the game that run through the hooked functions.              *)
(*                                                                         *)
(* A hook object is built and destroyed in several steps, because C++      *)
(* constructs a base class before, and destroys it after, the derived one: *)
(*                                                                         *)
(*   none -> listener -> hooked -> ready -> closing -> unhooked -> gone    *)
(*                                                                         *)
(*   listener  Gum::ProbeListener or CallListener is built, so the GObject *)
(*             exists and holds a raw pointer to the hook as user_data     *)
(*   hooked    attach() has returned; the callback is not constructed yet  *)
(*             and on_hit / on_enter are still pure virtual                *)
(*   ready     the object is complete                                      *)
(*   closing   the callback is destroyed; ~_ProbeAttachmentHook or         *)
(*             ~_CallAttachmentHook is about to detach                     *)
(*   unhooked  detach() has returned; the base classes are still there     *)
(*   gone      the memory is freed                                         *)
(*                                                                         *)
(* A module never hooks one function twice, so a hook stands for the       *)
(* function it is installed on as well.  This module has no Next: Plugin   *)
(* schedules the actions of the thread that builds and destroys hooks.     *)
(***************************************************************************)
EXTENDS Naturals

CONSTANTS
  Probe,        \* hooks with a probe listener: AttachmentHookEnter
  Call,         \* hooks with a call listener: AttachmentHookLeave, AttachmentHookBoth
  Replacement,  \* ReplacementHook objects
  Command,      \* ConCommand objects (members of modules that are not hooks)
  Thread        \* threads that call the hooked functions

Listener == Probe \cup Call
Hook == Listener \cup Replacement
Part == Hook \cup Command

ASSUME PartAssumption ==
  /\ Probe \cap Call = {}
  /\ Listener \cap Replacement = {}
  /\ Hook \cap Command = {}

VARIABLES
  object,       \* construction phase of every hook and command object
  refs,         \* references held on each hook's GObject listener
  listeners,    \* call_listeners and probe_listeners of the interceptor
  attached,     \* what gum has in its tables: listeners and replacements
  active,       \* functions whose calls are diverted into the plugin
  transaction,  \* nesting depth of gum's current transaction
  target,       \* the hook whose function a thread is in
  place,        \* where in that function the thread is
  overtaken,    \* threads in a callback that has been destroyed since
  fault         \* an undefined access has happened: the process is lost

gumVars == <<attached, active, transaction>>
objectVars == <<object, refs, listeners>>
threadVars == <<target, place, overtaken>>

Phase == {"none", "listener", "hooked", "ready", "closing", "unhooked", "gone"}

Place == {"game",      \* in no hooked function
          "handler",   \* in on_hit, in on_enter, or in the replacement function
          "draw",      \* in the overlay's handler, after it has its GL context
          "body",      \* in the hooked function itself, after on_enter
          "leave"}     \* in on_leave

Fault == {"none", "half_built_hook", "freed_callback", "freed_listener"}

-----------------------------------------------------------------------------
(* Gum's interceptor as hook/gum uses it.  A trampoline is switched on only *)
(* when the outermost transaction ends.  A detached listener and a reverted *)
(* replacement are taken out of the dispatch at once, and nothing waits for *)
(* a thread that is already inside the handler.                             *)

\* The threads that run the plugin's code: the handler of a hook.
InPlugin == {t \in Thread : place[t] \in {"handler", "draw", "leave"}}

Activated(h) == IF transaction = 0 THEN active \cup {h} ELSE active

-----------------------------------------------------------------------------
(* Construction of an attachment hook. *)

\* Mutant of NewListener: no second reference is taken.
NewListenerOneReference(h) ==
  /\ h \in Listener
  /\ object[h] \in {"none", "gone"}
  /\ object' = [object EXCEPT ![h] = "listener"]
  /\ refs' = [refs EXCEPT ![h] = 1]
  /\ UNCHANGED <<listeners, gumVars>>

\* ProbeListener() or CallListener(): gum_make_*_listener returns one
\* reference, and the wrapper is told to take a second.
NewListener(h) ==
  /\ h \in Listener
  /\ object[h] \in {"none", "gone"}
  /\ object' = [object EXCEPT ![h] = "listener"]
  /\ refs' = [refs EXCEPT ![h] = 2]
  /\ UNCHANGED <<listeners, gumVars>>

\* Mutant of Attach: end_transaction is forgotten.
AttachLeavesTransaction(h) ==
  /\ object[h] = "listener"
  /\ object' = [object EXCEPT ![h] = "hooked"]
  /\ listeners' = listeners \cup {h}
  /\ attached' = attached \cup {h}
  /\ transaction' = transaction + 1
  /\ UNCHANGED <<refs, active>>

\* Interceptor::attach, GUM_ATTACH_OK: inside begin_transaction and
\* end_transaction the listener is attached and recorded.
Attach(h) ==
  /\ object[h] = "listener"
  /\ object' = [object EXCEPT ![h] = "hooked"]
  /\ listeners' = listeners \cup {h}
  /\ attached' = attached \cup {h}
  /\ active' = Activated(h)
  /\ UNCHANGED <<refs, transaction>>

\* Interceptor::attach with any other result throws between
\* begin_transaction and end_transaction.  The exception destroys the
\* listener base class, whose reference is dropped.
AttachFails(h) ==
  /\ object[h] = "listener"
  /\ object' = [object EXCEPT ![h] = "gone"]
  /\ refs' = [refs EXCEPT ![h] = @ - 1]
  /\ transaction' = transaction + 1
  /\ UNCHANGED <<listeners, attached, active>>

\* The body of the AttachmentHook* constructor: the callback is copied in
\* and the object gets its final virtual table.
CompleteHook(h) ==
  /\ object[h] = "hooked"
  /\ object' = [object EXCEPT ![h] = "ready"]
  /\ UNCHANGED <<refs, listeners, gumVars>>

-----------------------------------------------------------------------------
(* Destruction of an attachment hook. *)

\* ~AttachmentHookEnter, ~AttachmentHookLeave or ~AttachmentHookBoth: the
\* callbacks are members, so they go before the base class detaches.  A
\* thread that is in one of them is overtaken: what it goes on to use is
\* destroyed, and soon freed.
DropCallback(h) ==
  /\ h \in Listener
  /\ object[h] = "ready"
  /\ object' = [object EXCEPT ![h] = "closing"]
  /\ overtaken' = overtaken \cup {t \in InPlugin : target[t] = h}
  /\ UNCHANGED <<refs, listeners, gumVars>>

\* Mutant of Detach: the destructor detaches nothing.
DetachForgotten(h) ==
  /\ object[h] = "closing"
  /\ object' = [object EXCEPT ![h] = "unhooked"]
  /\ UNCHANGED <<refs, listeners, gumVars>>

\* ~_ProbeAttachmentHook or ~_CallAttachmentHook calls Interceptor::detach,
\* which does not take the listener out of the interceptor's own vectors.
Detach(h) ==
  /\ object[h] = "closing"
  /\ object' = [object EXCEPT ![h] = "unhooked"]
  /\ attached' = attached \ {h}
  /\ active' = active \ {h}
  /\ UNCHANGED <<refs, listeners, transaction>>

\* ~GumObjectWrapper drops one reference, and the memory is freed.
ReleaseListener(h) ==
  /\ object[h] = "unhooked"
  /\ object' = [object EXCEPT ![h] = "gone"]
  /\ refs' = [refs EXCEPT ![h] = @ - 1]
  /\ UNCHANGED <<listeners, gumVars>>

-----------------------------------------------------------------------------
(* Replacement hooks. *)

\* ReplacementHook(): Interceptor::replace, GUM_REPLACE_OK.
Replace(h) ==
  /\ h \in Replacement
  /\ object[h] \in {"none", "gone"}
  /\ object' = [object EXCEPT ![h] = "ready"]
  /\ attached' = attached \cup {h}
  /\ active' = Activated(h)
  /\ UNCHANGED <<refs, listeners, transaction>>

\* ReplacementHook(): Interceptor::replace throws, nothing was installed.
ReplaceFails(h) ==
  /\ h \in Replacement
  /\ object[h] \in {"none", "gone"}
  /\ UNCHANGED <<objectVars, gumVars>>

\* Mutant of Revert: the destructor reverts nothing.
RevertForgotten(h) ==
  /\ h \in Replacement
  /\ object[h] = "ready"
  /\ object' = [object EXCEPT ![h] = "gone"]
  /\ UNCHANGED <<refs, listeners, gumVars>>

\* ~ReplacementHook: Interceptor::revert.  A thread in the replacement is in
\* a function of the library, which reads nothing of the hook object.
Revert(h) ==
  /\ h \in Replacement
  /\ object[h] = "ready"
  /\ object' = [object EXCEPT ![h] = "gone"]
  /\ attached' = attached \ {h}
  /\ active' = active \ {h}
  /\ UNCHANGED <<refs, listeners, transaction>>

-----------------------------------------------------------------------------
(* ~Interceptor: every recorded listener is detached again.                *)

\* Mutant of BeginCleanup: only the end of the transaction is there.
BeginCleanupForgotten ==
  UNCHANGED <<objectVars, gumVars>>

BeginCleanup ==
  /\ transaction' = transaction + 1
  /\ UNCHANGED <<objectVars, attached, active>>

\* detach(listener) calls listener->get_listener(), which reads a field of
\* the hook object.  If the object is freed the read yields the old pointer,
\* which still names a GObject since one reference was never dropped, or
\* whatever the allocator has put there since.
CleanupDetach(h) ==
  /\ h \in listeners
  /\ \/ /\ attached' = attached \ {h}
        /\ active' = active \ {h}
        /\ UNCHANGED fault
     \/ /\ object[h] = "gone"
        /\ fault' = "freed_listener"
        /\ UNCHANGED <<attached, active>>
  /\ UNCHANGED <<objectVars, transaction>>

EndCleanup ==
  /\ transaction' = transaction - 1
  /\ active' = IF transaction = 1 THEN attached ELSE active
  /\ UNCHANGED <<objectVars, attached>>

-----------------------------------------------------------------------------
(* The game's threads.                                                     *)

\* A thread calls a hooked function and its handler starts: on_hit,
\* on_enter, or the replacement function.
Hit(t, h) ==
  /\ place[t] = "game"
  /\ h \in active
  /\ object[h] = "ready"
  /\ target' = [target EXCEPT ![t] = h]
  /\ place' = [place EXCEPT ![t] = "handler"]
  /\ UNCHANGED <<overtaken, fault>>

\* on_hit_wrapper, on_enter_wrapper and on_leave_wrapper make a virtual call
\* on an object that is not complete, or run a callback that is destroyed.
HitHalfBuilt(t, h) ==
  /\ h \in active \cap Listener
  /\ object[h] # "ready"
  /\ \/ place[t] = "game"
     \/ place[t] = "body" /\ target[t] = h
  /\ fault' = "half_built_hook"
  /\ UNCHANGED threadVars

\* The handler returns.  For a call listener the hooked function runs next;
\* for the others the rest of the call is the game's.  An overtaken thread
\* may get here as well, when the memory still holds what was there.
HandlerReturns(t) ==
  /\ t \in InPlugin
  /\ place' = [place EXCEPT ![t] = IF @ = "handler" /\ target[t] \in Call
                                   THEN "body" ELSE "game"]
  /\ overtaken' = overtaken \ {t}
  /\ UNCHANGED <<target, fault>>

\* An overtaken thread reads the closure of a std::function that is
\* destroyed, a member of a module that is deleted, or, in the overlay, the
\* vector of modules, or it returns into a wrapper of a freed hook.
HandlerFaults(t) ==
  /\ t \in overtaken
  /\ fault' = "freed_callback"
  /\ UNCHANGED threadVars

\* The hooked function returns: on_leave runs if the listener is still
\* attached, otherwise the thread goes straight back to the game.
BodyReturns(t) ==
  /\ place[t] = "body"
  /\ target[t] \in active => object[target[t]] = "ready"
  /\ place' = [place EXCEPT ![t] = IF target[t] \in active THEN "leave" ELSE "game"]
  /\ UNCHANGED <<target, overtaken, fault>>
=============================================================================
