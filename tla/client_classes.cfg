\* Every small set of tables is flattened, and the charges printed.
SPECIFICATION Spec
CONSTANTS
  Table <- Tables
  Name <- Names
  TableName <- TableNames
  NoTable = NoTable
  ClassList <- Classes
  Layouts <- SmallLayouts
  Gun = {g1, g2}
  Charge = {0, 1}
  Call = {c1, c2}
  ChargeKey <- MedigunCharge
  Other = Other
  None = None
INVARIANTS
  ModuleTypeOK
  ResultsAddUp
PROPERTIES
  Flattened
  PrintsOwnCharge
\* Without the charge among the classes the constructor throws, and the model ends.
CHECK_DEADLOCK FALSE
