CONSTANTS
  k1 = k1
  k2 = k2
  Calls = {"a", "b"}
  Keys = {k1, k2}
  MaxConns = 4
  MaxSrvCloses = 1
  MaxIdle = 1
  MaxIdlePerHost = 2
  Scripts <- MCScripts
SPECIFICATION FairSpec
INVARIANTS
  CallsKept
  PoolSound
PROPERTIES
  CallsReturn
CHECK_DEADLOCK FALSE
