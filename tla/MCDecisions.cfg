SPECIFICATION DecisionsSpec
INVARIANTS
  TimesAreTrue
  EvidenceIsOwn
  VerdictIsCautious
  BaselinesAreFair
  SamplingIsKnown
  OperationsAreTrue
CHECK_DEADLOCK FALSE
