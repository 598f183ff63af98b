CONSTANTS
  Threads <- MCThreads
  Consumer = "supervisor"
  Usages <- LinkUsages
  Capacity = 1
  MaxRevision = 2
  MaxEpoch = 5
  MaxRequest = 1
  Parts = {"link", "windows", "macos", "pointer"}
  Board <- Boards
SPECIFICATION PartsSpec
INVARIANTS
  TypesOK
  StopIsFinal
  OfThisGeneration
  LossIsOver
  NoGap
  Owned
  Faithful
