SPECIFICATION Spec
CONSTANTS
  t1 = t1
  t2 = t2
  runA = runA
  runB = runB
  NoRecorder = NoRecorder
  Threads = {t1}
  Runs = {runA, runB}
  MaxRecorders = 2
  MaxRecords = 2
  MaxSwitches = 2
PROPERTY
  GetReturnsOpenRecorder
CHECK_DEADLOCK FALSE
