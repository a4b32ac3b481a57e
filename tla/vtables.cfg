\* Every memory of up to five words: functions, one typeinfo object, tables.
SPECIFICATION Spec
CONSTANTS
  Class = {A, B, C}
  None = None
  Place = {A, "function", "data"}
  MaxWords = 5
INVARIANTS
  TypeOK
  ListsOfOneClass
  PrimaryIsFirst
  SubtablesKept
  OnlyLastMissing
\* The scan ends.
CHECK_DEADLOCK FALSE
