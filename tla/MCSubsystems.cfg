SPECIFICATION SubsystemsSpec
CONSTANTS
  t1 = t1
  t2 = t2
  runA = runA
  runB = runB
  NoRecorder = NoRecorder
  Threads = {t1, t2}
  Runs = {runA, runB}
  MaxRecorders = 3
  MaxRecords = 2
  MaxSwitches = 2
  Callers = {"t1", "t2"}
  Forked = "f"
  MaxWorkers = 3
  Values = {"a"}
  MaxRows = 3
  Latest = 2
  TTL = 2
  MaxTime = 3
  MaxSteps = 2
  MaxSent = 2
  Jobs = {1}
  MaxFiles = 2
  MaxBytes = 3
  Sizes = {1, 2, 4}
  MaxObserved = 3
  Askers = {"a1", "a2"}
  Keys = {1, 2, 3}
  Cooldown = 2
  Attempts = 2
  MaxClock = 4
  Commands = 2
SYMMETRY Symmetry
INVARIANTS
  HandleStaysUsable
  RightRun
  WorkIsBounded
  CachesAreFresh
  InstallationSurvives
  DiagnosisIsGrounded
CHECK_DEADLOCK FALSE
