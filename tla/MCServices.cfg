SPECIFICATION ServicesSpec
CONSTANTS
  LastStep = 2
  Settle = 2
  Retry = 2
  Interval = 1
  Budget = 2
  MaxRecords = 1
  Never = Never
  MaxFaults = 1
  Requests = 3
  Timeout = 2
  Clients = 2
  Children = 3
  Attempts = 2
INVARIANTS
  TypesOK
  DiagnosisIsRight
  RequestsAreIsolated
  NothingIsLeft
PROPERTIES
  StepsBecomeFinal
  RequestsEnd
  SupervisorEnds
CHECK_DEADLOCK FALSE
