SPECIFICATION UserSpec
CONSTANTS
  Users = {"alice", "bob"}
  AuthKeys <- MCKeys
  AuthSetups <- MCSetups
  CacheSize = 2
  SupportedOptions = {}
  LastTime = 1
  Half = 4
  PeerMessages = 4
  Remotes = {"g1", "g2"}
  AgentScripts <- MCAgentScripts
  MaxKeys = 4
  AgentTime = 2
  Never = 99
  Listeners = {"l1", "l2"}
  Addresses = {"a1", "a2"}
  FwdScenarios <- MCFwd
  HandlerCap = 1
  ListenerCap = 1
  SessionSetups <- MCSessions
  SignalNumber <- MCSignalNumber
  ReqCap = 1
  TermScripts <- MCTerm
  Width = 3
  Rows = 12
  MaxLineLength = 6
  HistoryMax = 2
  MaxRead = 6
  ByteBits = 2
  WordBytes = 2
  Comma = 2
  maxPacket = 50
  Messages <- MCMessages
  WireInputs <- MCWire
INVARIANTS
  TermSound
  WireSound
PROPERTIES
  AuthSound
  AgentSound
  ForwardSound
  SessionSound
CHECK_DEADLOCK FALSE
