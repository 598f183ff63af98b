SPECIFICATION PartsFairSpec
CONSTANTS
  Keys = {"a"}
  Buttons = {}
  Physical = {}
  Mapped = {}
  Output <- MCOutput
  Usages = {"volume"}
  Volume = {"volume"}
  Seeks = {}
  KeySlots = 1
  ConsumerSlots = 1
  Forwarded = {}
  Subscriptions <- MCOneSubscriptions
  All <- MCOne
  CommandCapacity = 2
  PacketCapacity = 1
  MaxRevision = 4
  MaxSession = 0
  MaxPulses = 1
  Parts = {"windows", "macos", "service", "reports"}
  Wishes <- MCTapWishes
  Starts <- MCServeStarts
  MaxChanges = 1
INVARIANT Understood
PROPERTIES EveryTapEnds Serves
CHECK_DEADLOCK FALSE
