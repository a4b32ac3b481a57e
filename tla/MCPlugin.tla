------------------------------- MODULE MCPlugin -------------------------------
(***************************************************************************)
(* The instance of Plugin: the hooks the plugin really installs.           *)
(***************************************************************************)
EXTENDS Plugin

\* The modules in the order of one possible link: every hook and command
\* they own, and no other.
RealModule ==
  [p \in ModulePart |->
     CASE p = "AllowLoginNoSteam" -> 1
       [] p = "JarBug"            -> 2
       [] p = "MediGuns"          -> 3
       [] p = "NavWorkshop"       -> 4
       [] p = "Notification"      -> 5
       [] p = "PartyChat"         -> 6
       [] p \in {"TelemetryTick", "Frame", "ThreadName"} -> 7
       [] p = "UnhideCVars"       -> 8
       [] p = "SwapWindow"        -> 9]

\* ProfilerMod() makes the tick hook first and declares it last.
RealBuilt ==
  [p \in ModulePart |-> CASE p = "Frame"      -> 2
                          [] p = "ThreadName" -> 3
                          [] OTHER            -> 1]

RealDeclared ==
  [p \in ModulePart |-> CASE p = "Frame"      -> 3
                          [] p = "ThreadName" -> 4
                          [] p = "TelemetryTick" -> 5
                          [] OTHER            -> 1]
=============================================================================
