SPECIFICATION LiveSpec
CONSTANTS
  Targets = {phone}
  None = None
  Remembered = {phone}
  ControlCapacity = 1
  InputCapacity = 1
  WorkerCapacity = 1
  PendingLimit = 1
  Sends = 1
  Plans <- LivePlans
  QueueCapacity = 1
  IncomingCapacity = 1
  PipeCapacity = 1
  MaxOwners = 2
  MaxSends = 2
  MaxMessages = 3
PROPERTIES Answered FallsBack OneOwnerRetires
CHECK_DEADLOCK FALSE
