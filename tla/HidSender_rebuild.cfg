SPECIFICATION PartsFairSpec
CONSTANTS
  Keys = {"a"}
  Buttons = {}
  Physical = {}
  Mapped = {}
  Output <- MCOutput
  Usages = {"volume"}
  Volume = {"volume"}
  Seeks = {}
  KeySlots = 1
  ConsumerSlots = 1
  Forwarded = {}
  Subscriptions <- MCTwoSubscriptions
  All <- MCTwo
  CommandCapacity = 2
  PacketCapacity = 1
  MaxRevision = 4
  MaxSession = 0
  MaxPulses = 1
  Parts = {"windows"}
  Wishes <- MCTapWishes
  Starts <- MCStarts
  MaxChanges = 0
PROPERTY RebuiltServes
CHECK_DEADLOCK FALSE
