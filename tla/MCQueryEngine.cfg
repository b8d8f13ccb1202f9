SPECIFICATION FairSpec
CONSTANTS
  Messages = {m1, m2}
  Cancels = {c1}
  MaxRuns = 3
  MaxSends = 2
  MaxSteers = 2
  MaxFaults = 2
  NoMessage = NoMessage
INVARIANTS
  QueueIsServed
  AnsweredOnce
  MarksTellTheRun
PROPERTIES
  QueueDrains
CHECK_DEADLOCK FALSE
