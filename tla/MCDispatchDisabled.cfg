SPECIFICATION Spec
CONSTANTS
  Clients = {a}
  MaxRequests = 2
  MaxReloads = 1
PROPERTIES
  NothingBeginsWhileDisabled
