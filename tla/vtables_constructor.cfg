\* Six tables of three classes: a constructor table that is kept.
SPECIFICATION Spec
CONSTANTS
  Class = {A, B, C}
  None = None
  Place = {"data"}
  MaxWords = 6
SYMMETRY ClassSymmetry
INVARIANT
  NoConstructorTables
CHECK_DEADLOCK FALSE
