SPECIFICATION Spec
CONSTANTS
  Invocations = {i1, i2}
  MaxRetries = 1
  NumObjects = 2
  Varied = {i1}
INVARIANTS
  TypeOK
  SendsAreLicensed
  ExitCodesTellTheTruth
  FreshUnlessRaced
  ReportIsTrue
PROPERTIES
  StaleVerdictIsBounded
