SPECIFICATION FairSpec
CONSTANTS
  MaxRuns = 2
  MaxTasks = 2
  MaxBusy = 2
  Modes = {"text", "image", "tripo"}
INVARIANTS
  TypeOK
  TasksAreTracked
  BilledOnce
  ImportedAsAsked
PROPERTIES
  EscStopsTheWorker
  EveryModalEnds
