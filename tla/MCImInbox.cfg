SPECIFICATION Spec
CONSTANTS
  Workers = {w1, w2}
  Messages = {m1, m2}
  Sessions = {s1}
  Bindings = {b1}
  s1 = s1
  SessionOf <- OneSession
  MaxAttempts = 2
  MaxRows = 2
  MaxFaults = 2
  MaxRequeues = 1
  NoBinding = NoBinding
  NoWorker = NoWorker
  NoMessage = NoMessage
SYMMETRY Symmetry
INVARIANTS
  OwnershipIsExclusive
  SessionOrder
  BudgetIsExact
  OneRowPerMessage
CHECK_DEADLOCK FALSE
