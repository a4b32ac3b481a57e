\* Every hook of the plugin; a frame of another thread while Unload runs.
SPECIFICATION Spec
CONSTANTS
  Probe = {"JarBug", "Frame", "ThreadName", "SwapWindow"}
  Call = {"MediGuns"}
  Replacement = {"AllowLoginNoSteam", "NavWorkshop", "PartyChat", "TelemetryTick"}
  Command = {"Notification", "UnhideCVars", "DumpProps"}
  ClassCommand = "DumpProps"
  ConVar = {"fh_profile_all_levels", "fh_dump_mediguns"}
  Overlay = "SwapWindow"
  Thread = {"main", "other"}
  Main = "main"
  ModuleOf <- RealModule
  BuiltAs <- RealBuilt
  DeclaredAs <- RealDeclared
PROPERTY
  FramesKeepTheirContext
CHECK_DEADLOCK FALSE
