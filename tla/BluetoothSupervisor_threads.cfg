SPECIFICATION Spec
CONSTANTS
  Targets = {phone}
  None = None
  Remembered = {phone}
  ControlCapacity = 1
  InputCapacity = 1
  WorkerCapacity = 1
  PendingLimit = 1
  Sends = 2
  Plans <- ThreadPlans
INVARIANTS TypeOK AdmissionIsArmed DeliveredToItsSession SettledAgreement OkMeansExecuted
CHECK_DEADLOCK FALSE
