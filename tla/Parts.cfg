SPECIFICATION PartsSpec
CONSTANTS
  Hosts = {h1, h2, lo}
  Named = {h1, lo}
  Local = {lo}
  MaxRedirects = 2
  Configs <- MCSettings
  Exchanges <- MCExchanges
  maxPostHandlerReadBytes = 2
  DrainBuffer = 3
  FileCases <- MCFiles
  FileSize = 4
  FileChanges = 1
  JarCases <- MCJars
  JarHosts <- MCHosts
  JarPaths <- MCPaths
  JarCalls = 2
  JarTime = 3
  CTFetchers = {"f1", "f2"}
  CTMatchers = {"m1", "m2"}
  CTScenarios <- MCLogs
  FetchesCap = 1
  JobsCap = 1
  ByteBase = 3
  LengthBytes = 2
  CTInputs <- MCCodec
  PClients = {1, 2}
  PersistScripts <- MCPersist
  ClientCases <- MCClients
  Below <- MCBelow
  MaxVia = 3
  VerifyCases <- MCVerify
  IntBytes = 3
  Int32Bytes = 2
  DERInputs <- MCDER
INVARIANTS
  RedirectsKept
  ResponsesKept
  MessagesSound
  FilesSound
  CertificatesSound
PROPERTIES
  ClientSound
  CTSound
CHECK_DEADLOCK FALSE
