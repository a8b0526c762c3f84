SPECIFICATION Spec
CONSTANTS
  Env = {a, b}
  Parent = a
  Reader = b
  Writer = a
  NCPU = 2
  NFD = 3
  PIPEBUFSIZ = 1
  MaxBytes = 2
INVARIANTS
  HoldsBothEnds
CHECK_DEADLOCK FALSE
