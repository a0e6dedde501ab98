SPECIFICATION FairSpec
CONSTANTS
  InitialWindow = 1
  ConnFlow = 2
  StreamFlow = 2
  MinRefresh = 1
  MaxFrame = 2
  DefaultStreams = 4
  MaxStreams = 2
  Scenarios <- MCScenarios
INVARIANTS
  StreamsSound
  WindowsAgree
PROPERTIES
  StreamsEnd
CHECK_DEADLOCK FALSE
