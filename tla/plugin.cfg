\* Every hook of the plugin; the main thread and a second one call the hooked
\* functions, the second at any time of Load and Unload; the plugin is compared
\* with what it promises the game.
SPECIFICATION Spec
CONSTANTS
  Probe = {"JarBug", "Frame", "ThreadName", "SwapWindow"}
  Call = {"MediGuns"}
  Replacement = {"AllowLoginNoSteam", "NavWorkshop", "PartyChat", "TelemetryTick"}
  Command = {"Notification", "UnhideCVars", "DumpProps"}
  ClassCommand = "DumpProps"
  ConVar = {"fh_profile_all_levels", "fh_dump_mediguns"}
  Overlay = "SwapWindow"
  Thread = {"main", "other"}
  Main = "main"
  ModuleOf <- RealModule
  BuiltAs <- RealBuilt
  DeclaredAs <- RealDeclared
INVARIANTS
  TypeOK
  DispatchedHooksExist
  OneHookExposed
  OverlaySeesLiveModules
  OverlayDrawsWithItsContext
  LoadedIsComplete
  QuietOutside
  ConsoleFollowsCommands
  RecordedListenersReferenced
PROPERTY
  ContractSpec
\* After an exception has left Load, or when the process is lost, the model ends.
CHECK_DEADLOCK FALSE
