SPECIFICATION Spec
CONSTANTS
  MaxJobs = 1
  MaxTerminal = 1
  ListLimit = 1
  MaxChunks = 1
  MaxReloads = 1
INVARIANTS
  CompletedHasNoError
