SPECIFICATION FairSpec
CONSTANTS
  a = a
  b = b
  Client <- MCClient
  Parent = a
  Killable <- MCKillable
  Calls <- MCCalls
  Fs = fs
  NFD = 2
  MAXOPEN = 2
  IdSpace = 4
  File = {f}
  None = None
  Size = 1
  Counts = {1}
  Seeks = {0}
INVARIANTS
  TypeOK
  ReplyHasTaker
PROPERTIES
  ImplementsFiles
  Answered
CHECK_DEADLOCK FALSE
