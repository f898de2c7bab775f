SPECIFICATION Spec
CONSTANTS
  read = read  write = write  verify = verify
  r = r  s1 = s1  s2 = s2
  Callers = {read, write, verify}
  RoleOf <- RoleOfCaller
  Addrs = {r, s1, s2}
  Resolve <- NoResolver
  InitialRouters <- TwoRouters
  Answers <- HealthyAnswers
  SystemContext = FALSE
  MaxAttempts = 2
  Tables = {tab1, tab2}
  NoTable = NoTable
CHECK_DEADLOCK FALSE
INVARIANTS
  MarkingReturns
