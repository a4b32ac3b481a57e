\* Every section of up to three records, read through both coroutines.
SPECIFICATION Spec
CONSTANTS
  Space = 256
  Base = 64
  Omit = Omit
  MaxRecords = 3
  Sections <- SmallSections
INVARIANTS
  TypeOK
  CursorOnRecord
  RangesInOrder
  Outcome
PROPERTIES
  StreamSpec
\* The loop over the ranges ends.
CHECK_DEADLOCK FALSE
