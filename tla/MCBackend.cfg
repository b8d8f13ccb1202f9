SPECIFICATION Spec
CONSTANTS
  Parts = {"gateway", "inbound", "bindings", "sends", "feedback", "arrivals"}
  MaxRuns = 2
  MaxConnections = 2
  MaxChanges = 2
  MaxSides = 1
  MaxDisturbances = 1
  MaxAttempts = 2
  MaxSends = 1
  MaxStops = 1
  MaxTexts = 1
  MaxTroubles = 1
  NoTask = NoTask
  Sessions = {"s1", "s2"}
  MaxTranscripts = 3
  MaxMishaps = 1
  MaxQueries = 2
  Prewarmed = {"s1"}
  Kinds = {"lark", "weixin", "qq"}
  SendWorkers = {w1, w2}
  MaxRows = 2
  MaxTries = 2
  MaxBreaks = 2
  Nobody = Nobody
  Attempts = {a1, a2}
  Asks = {m1, m2}
  MaxFailedCalls = 2
  Sorts = {"text", "card", "image", "post", "voice"}
  MaxArrivals = 2
  MaxSaves = 2
  MaxSlips = 2
  MaxStages = 2
INVARIANTS
  OnlyTheIdleAreClosed
  ChangesReachTheProcess
  TasksAreAnswered
  ConversationsKeepToTheirSession
  MessagesAreCarried
  FeedbackEndsWithTheWork
CHECK_DEADLOCK FALSE
