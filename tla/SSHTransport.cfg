SPECIFICATION FairSpec
CONSTANTS
  IncomingCap = 1
  RekeyThreshold = 0
  MaxSend <- OneEach
  Offers <- SomeOffers
  Faults = {"close", "hostkey"}
INVARIANTS
  KeysInStep
  ExchangeOrderly
PROPERTIES
  ConnSpec
  WritesReturn
