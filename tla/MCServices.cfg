SPECIFICATION Spec
CONSTANTS
  Parts = {"requests", "scheduler", "cron", "channels", "weixin", "qq", "lark", "upkeep"}
  Calls = {x1, x2, x3}
  NoCall = NoCall
  MaxBreaks = 1
  Tasks = {t1, t2}
  Runs = {u1, u2}
  AutoUnbind = {t1}
  MaxDue = 2
  MaxEdits = 1
  MaxFailures = 1
  MaxTriggers = 2
  BindRequests = {b1, b2}
  OtherRequests = {o1}
  ImSessions = {y1, y2}
  Channels = {z1, z2}
  Nobody = Nobody
  MaxTroubles = 1
  Callers = {x1, x2, x3}
  Loops = {y1, y2}
  MaxMessages = 3
  NoLoop = NoLoop
  Starters = {d1, d2}
  Stoppers = {e1, e2}
  Connections = {y1, y2}
  MaxReconnects = 3
  NoConnection = NoConnection
  LarkStarters = {f1, f2}
  LarkStoppers = {g1, g2}
  LarkConns = {x1, x2, x3}
  MaxErrors = 1
  Nothing = Nothing
  Queries = {y1, y2}
  Services = {z1, z2}
  MaxCrashes = 1
  NoQuery = NoQuery
SYMMETRY Symmetry
INVARIANTS
  RequestsAreAnswered
  SchedulesAreKept
  BindingsAgree
  ConnectionsAreKept
  StatusTellsTheWork
CHECK_DEADLOCK FALSE
