SPECIFICATION Spec
CONSTANTS
  Env = {a, b, c}
  Root = a
  Private = {1}
  Shared = {2}
  ReadOnly = {3}
  NPage = 8
  Value = {0, 1}
  Zero = 0
  None = None
INVARIANTS
  TypeOK
  LegalFaults
PROPERTY
  ImplementsFork
CHECK_DEADLOCK FALSE
