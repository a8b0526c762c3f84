SPECIFICATION FairLibSpec
CONSTANTS
  CPU = {c1, c2}
  BSP = c1
  NENV = 3
  NGEN = 2
  Priorities = {0}
  None = None
INVARIANTS
  TypeOK
  OneCpuPerEnv
  StatusTellsTheCpu
  BlockedHasReason
  FreeListExact
  PgdirWhileAlive
  MonitorIsIdle
PROPERTIES
  OnlyKilledRemotely
  ZombieReaped
  ImplementsLives
CHECK_DEADLOCK FALSE
