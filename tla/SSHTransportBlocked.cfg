SPECIFICATION FairSpec
CONSTANTS
  IncomingCap = 1
  RekeyThreshold = 0
  MaxSend <- ServerPumps
  Offers <- OneOffer
  Faults = {}
PROPERTIES BlockedUntilDone
