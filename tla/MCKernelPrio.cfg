SPECIFICATION FairLibSpec
CONSTANTS
  CPU = {c1}
  BSP = c1
  NENV = 3
  NGEN = 2
  Priorities = {0, 1}
  None = None
PROPERTY
  HighestPriorityRuns
  RoundRobin
CHECK_DEADLOCK FALSE
