SPECIFICATION Spec
CONSTANTS
  t1 = t1  t2 = t2  t3 = t3
  a = a  b = b
  ca1 = ca1  ca2 = ca2  ca3 = ca3  cb1 = cb1  cb2 = cb2
  NoConn = NoConn
  Callers = {t1, t2}
  Conns = {ca1, ca2, cb1, cb2}
  Addrs <- TwoAddrs
  TargetOf <- TargetTwoAddrs
  AddrOf <- AddrTwoAddrs
  MaxPoolSize = 1
  MaxLifetime = FALSE
  HealthCheck = FALSE
  IdleTimeout = FALSE
CHECK_DEADLOCK FALSE
PROPERTY WaitFreesMutex
