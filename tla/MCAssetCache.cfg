SPECIFICATION Spec
CONSTANTS
  MaxCalls = 3
INVARIANTS
  TypeOK
  ImportedIsTheAsset
PROPERTIES
  FetchedOnce
CHECK_DEADLOCK FALSE
