SPECIFICATION FairSpec
CONSTANTS
  WindowSize = 2
  MaxPacket = 1
  QueueCap = 1
  Scenarios <- MuxScenarios
INVARIANTS
  ChannelsOrderly
  WindowConserved
PROPERTIES
  CallsReturn
CHECK_DEADLOCK FALSE
