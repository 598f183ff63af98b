CONSTANTS
  Device = {a}
  None = None
  ControlCapacity = 1
  Bounds <- KeyBounds
  Parts = {"settings"}
  SavePlans <- OnePlan
SPECIFICATION PartsSpec
PROPERTY SavesKeepScopes
