SPECIFICATION PartsSpec
CONSTANTS
  Keys = {"a"}
  Buttons = {}
  Physical = {}
  Mapped = {"m"}
  Output <- MCOutput
  Usages = {"volume"}
  Volume = {"volume"}
  Seeks = {}
  KeySlots = 1
  ConsumerSlots = 1
  Forwarded = {}
  Subscriptions <- MCTwoSubscriptions
  All <- MCTwo
  CommandCapacity = 2
  PacketCapacity = 1
  MaxRevision = 4
  MaxSession = 1
  MaxPulses = 1
  Parts = {"windows", "macos", "service", "sessions"}
  Wishes <- MCWishes
  Starts <- MCStarts
  MaxChanges = 2
INVARIANTS TypesOK KnownToBoth StartsClean EndpointAtHand MeantReceiver
CHECK_DEADLOCK FALSE
