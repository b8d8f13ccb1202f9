SPECIFICATION FairSpec
CONSTANTS
  Tasks = {t1, t2}
  MaxRetired = 1
  MaxTurns = 3
  MaxMessages = 5
INVARIANTS
  OneEnding
  ResultWaitsForTasks
  EveryWaitIsTimed
  TasksStayWithTheirTurn
  ActiveTurnHasCaller
PROPERTIES
  WaitsEnd
CHECK_DEADLOCK FALSE
