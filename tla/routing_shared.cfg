SPECIFICATION FairSpec
CONSTANTS
  read = read  write = write  verify = verify
  r = r  s1 = s1  s2 = s2
  Callers = {read, write}
  RoleOf <- RoleOfCaller
  Addrs = {r, s1, s2}
  Resolve <- NoResolver
  InitialRouters <- TwoRouters
  Answers <- ClusterAnswers
  SystemContext = FALSE
  MaxAttempts = 2
  Tables = {tab1, tab2}
  NoTable = NoTable
CHECK_DEADLOCK FALSE
INVARIANTS
  TypeOK
  FreshTableUsable
  SharedTable
PROPERTIES
  ForgetEffective
  SelectionReturns
  CloseReturns
