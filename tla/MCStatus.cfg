SPECIFICATION StatusSpec
CONSTANTS
  MaxCalls = 2
  MaxLinks = 3
INVARIANTS
  TypeOK
  CallersAreServed
  ShownOnlyUntilCleared
PROPERTIES
  Reconnects
  SentCallEnds
  OrderlyExitClears
CHECK_DEADLOCK FALSE
