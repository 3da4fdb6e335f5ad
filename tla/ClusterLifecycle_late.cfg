SPECIFICATION Spec
CONSTANTS
  c1 = c1
  Controllers = {c1}
  Hosts = {1, 2}
  Last = 2
  HostOf <- TwoHosts
  None = None
  Local = Local
  MaxLocal = 1
  MaxDeaths = 0
INVARIANT
  InterruptedUpIsAccountedFor
CHECK_DEADLOCK FALSE
