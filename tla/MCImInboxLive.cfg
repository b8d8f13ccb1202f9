SPECIFICATION FairSpec
CONSTANTS
  Workers = {w1, w2}
  Messages = {m1, m2}
  Sessions = {s1}
  Bindings = {b1}
  s1 = s1
  SessionOf <- OneSession
  MaxAttempts = 2
  MaxRows = 2
  MaxFaults = 1
  MaxRequeues = 0
  NoBinding = NoBinding
  NoWorker = NoWorker
  NoMessage = NoMessage
PROPERTIES
  EventuallySettled
CHECK_DEADLOCK FALSE
