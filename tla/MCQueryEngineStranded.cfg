SPECIFICATION Spec
CONSTANTS
  Messages = {m1, m2}
  Cancels = {c1}
  MaxRuns = 3
  MaxSends = 3
  MaxSteers = 0
  MaxFaults = 0
  NoMessage = NoMessage
INVARIANTS
  NeverStranded
CHECK_DEADLOCK FALSE
