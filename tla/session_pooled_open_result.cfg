SPECIFICATION Spec
CONSTANTS
  Sessions = {s1, s2}
  Conns = {c1}
  Streams = {r1}
  NoConn = NoConn
  NoSession = NoSession
  MaxRows = 1
  FetchSize = 1
INVARIANT PooledClean
