SPECIFICATION Spec
CONSTANTS
  MaxJobs = 3
  MaxTerminal = 1
  ListLimit = 2
  MaxChunks = 1
  MaxReloads = 1
PROPERTIES
  ResetFailsAll
