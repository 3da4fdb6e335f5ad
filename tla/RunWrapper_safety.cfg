SPECIFICATION LiveSpec
CONSTANTS
  Sidecars = {"bridge", "health", "logger"}
  Signals = {"TERM"}
  Statuses = {"failed"}
  MaxHangs = 2
  MaxStrays = 1
CHECK_DEADLOCK FALSE
INVARIANTS
  RunIsSettled
  OnlyOwnIsSignalled
  NothingSurvivesQuietly
PROPERTIES
  WrapperEnds
