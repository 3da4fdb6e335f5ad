SPECIFICATION Spec
CONSTANTS
  None = None
  Bridges = 3
  Following <- TwoBridgesThenFinal
  MaxRecords = 3
  MaxChanges = 1
  MaxFailures = 1
INVARIANTS
  HistoryIsSound
  EachStepOnceUnlessLingering
  FinalExportIsComplete
CHECK_DEADLOCK FALSE
