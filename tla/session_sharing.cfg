SPECIFICATION Spec
CONSTANTS
  Sessions = {s1, s2}
  Conns = {c1}
  Streams = {r1, r2}
  NoConn = NoConn
  NoSession = NoSession
  MaxRows = 2
  FetchSize = 1
SYMMETRY Symmetry
INVARIANTS
  TypeOK
  ValidInSync
  PooledReady
  Accounted
  StreamBacked
  StreamComplete
  ManagedAppliedOnce
