SPECIFICATION ProgressSpec
CONSTANTS
  Size = 2
  Gens = {1, 2}
  Versions = {1, 2}
  Reqs = {1, 2}
  MaxFaults = 1
  MaxTries = 1
  MaxBad = 4
  Modes <- MCModes
  Procs = {p1, p2}
  Sids = {1, 2, 3}
  Shells = {x, y}
  MaxSessions = 2
  MaxShells = 1
  MaxOps = 2
  MaxGrown = 1
  Kinds <- AllKinds
  Nobody = Nobody
  Clients = {c1, c2, c3}
  Titles = {t1, t2}
  Codes = {k1, k2}
  Callers = {a1, a2}
  MaxPending = 1
  MaxCodes = 1
  MaxCalls = 4
  NoOne = NoOne
  Threads = {1, 2, 3}
  ProcessOf <- MCProcesses
  Files = {1, 2}
  Keys = {3}
  ShardOf <- MCShards
  MaxLocked = 2
  Unowned = 0
  Terminals = {x}
  MaxBridges = 1
  MaxBridgeOps = 2
  ServerConfigs = {k1, k2}
  MaxAgentCalls = 2
  Sockets = {p1}
  MaxSlots = 1
  MaxTyped = 2
  Posts = {c1, c2, c3}
  MaxMcp = 1
  BodyLimit = 1
  MaxBody = 2
  ShellStarts = {p1}
  ShellIds = {1}
INVARIANTS TreesSafe SessionsSound OAuthSound McpSound
PROPERTIES TreeNotReplaced SessionsEndRightly EverythingEnds
CHECK_DEADLOCK FALSE
