CONSTANTS
  c1 = c1
  c2 = c2
  Conns = {c1, c2}
  MaxPost = 2
  BufSize = 1
  Scripts <- MCScripts
SPECIFICATION FairSpec
INVARIANTS
  ConnectionsSound
PROPERTIES
  ServerEnds
CHECK_DEADLOCK FALSE
