SPECIFICATION FairLibSpec
CONSTANTS
  CPU = {c1}
  BSP = c1
  NENV = 3
  NGEN = 2
  Priorities = {0}
  None = None
PROPERTY StarvationFree
CHECK_DEADLOCK FALSE
