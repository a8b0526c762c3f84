SPECIFICATION Spec
CONSTANTS
  CPU = {c1, c2, c3}
  BSP = c1
  None = None
INVARIANTS
  TypeOK
  MutualExclusion
  NoLockPanic
PROPERTIES
  BootCompletes
  ImplementsLock
CHECK_DEADLOCK FALSE
