\* Libraries come and go between loads; two of them share a base name; two
\* workers scan three libraries.
SPECIFICATION Spec
CONSTANTS
  Library = {"game/client", "mod/client", "tier0", "vdso"}
  Skipped = {"vdso"}
  Name = {"client", "tier0", "vdso"}
  BaseName <- SmallBaseName
  Class = {"CEngine", "CTFCleaver"}
  Defines <- SmallDefines
  List <- SmallList
  Workers = 2
  None = None
INVARIANTS
  TypeOK
  ResultsComplete
  CachedFromOwn
  SymbolsStay
PROPERTIES
  InitEnds
\* The model ends after an exception or when the process is lost.
CHECK_DEADLOCK FALSE
