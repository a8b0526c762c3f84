SPECIFICATION Spec
CONSTANTS
  Env = {a, b}
  Parent = a
  Reader = b
  Writer = a
  NCPU = 1
  NFD = 3
  PIPEBUFSIZ = 1
  MaxBytes = 2
INVARIANTS
  TypeOK
  PipeCountedFirst
  ClosedIsTrue
  InOrder
CHECK_DEADLOCK FALSE
