SPECIFICATION Spec
CONSTANTS
  Targets = {phone}
  None = None
  Remembered = {phone}
  ControlCapacity = 1
  InputCapacity = 1
  WorkerCapacity = 2
  PendingLimit = 1
  Sends = 0
  Plans <- ArmPlans
INVARIANT OnlyMatchingArm
CHECK_DEADLOCK FALSE
