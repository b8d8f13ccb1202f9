SPECIFICATION FairSpec
CONSTANTS
  Workers = {w1, w2}
  Keys = {k1, k2}
  Sessions = {s1}
  Bindings = {b1}
  s1 = s1
  SessionOf <- OneSession
  MaxAttempts = 2
  MaxRows = 2
  MaxFaults = 1
  MaxRequeues = 0
  NoBinding = NoBinding
  NoKey = NoKey
PROPERTIES
  EventuallySettled
CHECK_DEADLOCK FALSE
