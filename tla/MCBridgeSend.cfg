SPECIFICATION FairSpec
CONSTANTS
  MaxCalls = 1
  MaxLinks = 1
PROPERTIES
  EveryCallEnds
CHECK_DEADLOCK FALSE
