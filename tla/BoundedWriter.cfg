SPECIFICATION LiveSpec
CONSTANTS
  Callers = {c1, c2}
  Capacity = 2
  MaxBytes = 3
  Sizes = {1, 2, 4}
  MaxOffers = 3
  MaxTimeouts = 2
INVARIANTS
  LimitsKeepTheNewest
  StatusAddsUp
  InOrderNoReplay
  DrainedMeansSettled
  QuietFailureIsReported
PROPERTIES
  ImplementsChannel
  CallsReturn
  NothingStranded
CHECK_DEADLOCK FALSE
