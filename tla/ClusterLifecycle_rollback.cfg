SPECIFICATION LiveSpec
CONSTANTS
  c1 = c1
  Controllers = {c1}
  Hosts = {1, 2}
  Last = 3
  HostOf <- ServerAndTwoNodes
  None = None
  Local = Local
  MaxLocal = 1
  MaxDeaths = 1
INVARIANTS
  RollbackSparesOthers
  LeftoversAreUnconfirmed
PROPERTY
  InvocationsEnd
CHECK_DEADLOCK FALSE
