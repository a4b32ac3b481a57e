\* Two levels and the setting that shows all of them; a worker whose scopes
\* nest, and the main thread that ticks and draws.
SPECIFICATION Spec
CONSTANTS
  Thread = {main, worker}
  Main = main
  Level = {0, 1}
  NoLevel = NoLevel
  MaxDepth <- WorkerScopes
INVARIANTS
  TypeOK
  TableAgrees
  ZonesOfOneLevel
  ZonesMatchScopes
PROPERTIES
  StableUnderReaders
  CallsReturn
