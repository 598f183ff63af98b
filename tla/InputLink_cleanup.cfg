CONSTANTS
  Threads <- MCThreads
  Consumer = "supervisor"
  Usages <- CleanupUsages
  Capacity = 1
  MaxRevision = 1
  MaxEpoch = 5
  MaxRequest = 1
  Parts = {"link"}
  Board <- NoBoard
SPECIFICATION PartsSpec
PROPERTIES
  CleanupDelivered
