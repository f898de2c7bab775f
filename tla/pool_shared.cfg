SPECIFICATION Spec
CONSTANTS
  t1 = t1  t2 = t2  t3 = t3
  a = a  b = b
  ca1 = ca1  ca2 = ca2  ca3 = ca3  cb1 = cb1  cb2 = cb2
  NoConn = NoConn
  Callers = {t1, t2, t3}
  Conns = {ca1, ca2, ca3}
  Addrs <- OneAddr
  TargetOf <- TargetOneAddr
  AddrOf <- AddrOneAddr
  MaxPoolSize = 1
  MaxLifetime = TRUE
  HealthCheck = TRUE
  IdleTimeout = TRUE
CHECK_DEADLOCK FALSE
SYMMETRY SymOneAddr
INVARIANTS
  TypeOK
  ExclusiveOwnership
  CountersExact
  OvershootBounded
  IdleNotDefunct
  ClosedLeavesNoSleeper
  NoLostWakeup
PROPERTIES
  NoGrowthAfterClose
