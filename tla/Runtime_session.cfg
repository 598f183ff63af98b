CONSTANTS
  Device = {a, b}
  None = None
  ControlCapacity = 2
  Bounds <- MCBounds
  Parts = {"runtime", "settings", "editor", "groups"}
  SavePlans <- AllPlans
SPECIFICATION PartsSpec
INVARIANTS
  TypesOK
  HeldUnlessDiscarded
  PressIsCurrent
  ShownIsChosen
  TestOwed
  InStep
PROPERTIES
  NothingLost
  AsMeant
SYMMETRY Devices
