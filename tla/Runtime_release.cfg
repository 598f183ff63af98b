CONSTANTS
  Device = {a}
  None = None
  ControlCapacity = 2
  Bounds <- KeyBounds
  Parts = {"runtime"}
  SavePlans <- OnePlan
SPECIFICATION PartsSpec
INVARIANT NeverStuck
