SPECIFICATION Spec
CONSTANTS
  Width = 2
  NDisk = 14
  Inputs <- MCInputs
  MaxChanges = 2
INVARIANTS
  TypeOK
  StoredRight
PROPERTIES
  CheckRepairs
CHECK_DEADLOCK FALSE
