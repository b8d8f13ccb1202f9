SPECIFICATION Spec
CONSTANTS
  Parts = {"markets", "agents", "plugins"}
  Entries = {b1, b2, b3}
  Refs = {w1, w2}
  NoRef = NoRef
  MarketRequests = {v1, v2}
  MaxSuffix = 2
  MaxMarketCalls = 4
  Agents = {w1, w2}
  NoAgent = NoAgent
  Plugins = {1, 2}
  Assets = {3}
  AgentRequests = {v1, v2}
  MaxReleases = 2
  Templates = {{1, 3}, {1, 2}}
  MaxMishaps = 1
  MaxAgentCalls = 2
  InitSessions = {w1, w2}
  NoSession = NoSession
  PluginRequests = {v1, v2}
  MaxInits = 2
  MaxPluginCalls = 3
  MaxPluginFaults = 1
SYMMETRY Symmetry
INVARIANTS
  ProjectsAreKept
CHECK_DEADLOCK FALSE
