SPECIFICATION Spec
CONSTANTS
  Parts = {"traces", "branches", "viewers", "terminals", "memory", "trees", "telemetry"}
  TracedRuns = {v1, v2}
  OtelRequests = {q1}
  FlushLoop = FlushLoop
  MaxWriteFaults = 1
  MaxDeletions = 1
  Branches = {b1, b2, b3}
  Root = Root
  Converges = {v1, v2}
  NoBranch = NoBranch
  MaxGroups = 2
  MaxIncidents = 1
  Viewers = {w1}
  MaxItems = 3
  MaxLosses = 2
  MaxStalls = 1
  MaxRewinds = 1
  Terminals = {v1, v2}
  Fds = {1, 2}
  Pids = {1, 2}
  NoTerminal = NoTerminal
  NoFd = NoFd
  NoPid = NoPid
  Revisions = {b1, b2, b3}
  ClaudeMdRequests = {v1, v2}
  Texts = {0, 1}
  Empty = 0
  NoRevision = NoRevision
  MaxVersion = 3
  MaxMdCalls = 4
  MaxMdEdits = 1
  MaxMdFaults = 1
  MaxRuns = 2
  MaxWritten = 4
  Receivers = {v1, v2}
  MaxBegun = 2
  MaxExported = 2
  MaxBatches = 2
  MaxSendings = 2
  MaxUnwritten = 1
SYMMETRY Symmetry
INVARIANTS
  TracesTellTheRuns
  BranchesAreKept
  ViewersSeeTheConversation
  TerminalsKeepToTheirOwn
  ActiveIsTheFile
  TelemetryIsKept
CHECK_DEADLOCK FALSE
