\* Every hook of the plugin; an error while Load runs.
SPECIFICATION Spec
CONSTANTS
  Probe = {"JarBug", "Frame", "ThreadName", "SwapWindow"}
  Call = {"MediGuns"}
  Replacement = {"AllowLoginNoSteam", "NavWorkshop", "PartyChat", "TelemetryTick"}
  Command = {"Notification", "UnhideCVars", "DumpProps"}
  ClassCommand = "DumpProps"
  ConVar = {"fh_profile_all_levels", "fh_dump_mediguns"}
  Overlay = "SwapWindow"
  Thread = {"main"}
  Main = "main"
  ModuleOf <- RealModule
  BuiltAs <- RealBuilt
  DeclaredAs <- RealDeclared
INVARIANT
  LoadReturns
CHECK_DEADLOCK FALSE
