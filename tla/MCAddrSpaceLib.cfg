SPECIFICATION LibSpec
CONSTANTS
  CPU = {c1, c2}
  Env = {e1, e2}
  Page = {p1, p2, p3, p4, p5}
  Page0 = zero
  Idx <- Indices
  VA <- Addresses
  DTemp <- Temp
  Stack <- Top
  REFMOD = 100
  None = None
SYMMETRY PageSymmetry
INVARIANTS
  TypeOK
  TablesPrivate
  RefCountExact
  FreeExact
  NoStaleTlb
  EnvFreeIsItsLoops
  ReservedUnmapped
PROPERTIES ImplementsSpaces QuietWhileWaiting
CHECK_DEADLOCK FALSE
