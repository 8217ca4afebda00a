SPECIFICATION FairSpec
CONSTANTS
  MaxJobs = 3
  MaxTerminal = 1
  ListLimit = 3
  MaxChunks = 1
  MaxReloads = 1
INVARIANTS
  TypeOK
  SchedulerMatchesTable
PROPERTIES
  ChunksAreLicensed
  OutcomesAreFinal
  ResetFailsAll
  ImplementsJobService
  NoJobHoldsOn
