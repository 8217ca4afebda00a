SPECIFICATION StatusSpec
CONSTANTS
  MaxCalls = 2
  MaxLinks = 2
PROPERTIES
  StatusIsCleared
CHECK_DEADLOCK FALSE
