SPECIFICATION FairSpec
CONSTANTS
  r1 = r1
  r2 = r2
  r3 = r3
  r4 = r4
  s1 = s1
  s2 = s2
  p1 = p1
  p2 = p2
  Requests = {r1, r2, r3, r4}
  UsageRequests = {r2}
  Sessions = {s1, s2}
  SessionOf <- SessionsOfFour
  Processes = {p1, p2}
  ProcessOf <- ProcessesOfFour
  LockIds = {l1, l2, l3, l4}
  MaxSize = 1
  Capacity = 1
  Mysql = TRUE
  MaxFaults = 1
  NoRequest = NoRequest
  NoLock = NoLock
INVARIANTS
  OneRunPerSession
  ShownIsWaiting
PROPERTIES
  ImplementsSerialRuns
  EveryRequestEnds
CHECK_DEADLOCK FALSE
