SPECIFICATION Spec
CONSTANTS
  Children = 3
  Attempts = 2
PROPERTY
  ExitsWithAnyService
CHECK_DEADLOCK FALSE
