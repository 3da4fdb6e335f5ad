SPECIFICATION Spec
CONSTANTS
  l1 = l1
  l2 = l2
  p1 = p1
  p2 = p2
  None = None
  Launchers = {l1, l2}
  Pids = {p1, p2}
  MaxCommands = 2
  MaxOthers = 2
  MaxBoots = 2
SYMMETRY Symmetry
INVARIANTS
  SignalsOnlyItsOwn
  OneTrackedServiceEach
  FailedUpCleansUpRecorded
CHECK_DEADLOCK FALSE
