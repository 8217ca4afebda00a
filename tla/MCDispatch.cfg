SPECIFICATION LoopFairSpec
CONSTANTS
  Clients = {a, b}
  MaxRequests = 2
  MaxReloads = 1
INVARIANTS
  TypeOK
  NoWaiterIsLost
  ClientsAreToldTheTruth
PROPERTIES
  ImplementsRequestService
  EveryRequestAnswered
  QueueDrains
  DeadWorkNeverRuns
