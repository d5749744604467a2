SPECIFICATION SafetySpec
CONSTANTS
  Callers = {c1, c2}
  Server <- OwnServer
  Jobs = {j1}
  None = None
  Unknown = Unknown
  MaxAttempts = 2
  EditFiles = {1, 2}
  Tools = {1, 2}
  Shapes <- MCShapes
  Ranges <- MCRanges
  FirstLines = 3
  MaxRead = 3
  MaxLines = 5
  MaxSnaps = 2
  Margin = 0
  MaxMade = 3
  NoText = NoText
  NoSnap = NoSnap
  MaxPids = 3
  ProcKinds = {"plain", "stubborn", "escaped", "foreign"}
  MaxPolls = 1
  MaxLooks = 1
  Threads = {1, 2, 3}
  ProcessOf <- MCProcesses
  Files = {1, 2}
  Keys = {3}
  ShardOf <- MCShards
  MaxLocked = 3
  Unowned = 0
  Terminals = {x, y}
  MaxBridges = 1
  MaxBridgeOps = 3
  Links = {1, 2}
  MaxUses = 1
  MaxRequests = 3
  MaxDiskFaults = 1
  MaxRuntimes = 2
  MaxRaised = 2
  MaxFlows = 2
  CredSecrets = {1}
  MaxTokens = 2
  MaxCredCommands = 1
INVARIANTS JobsAgree EditsSound CommandsSound LocksSound BridgesSound DownloadsSound ControllerSound CredentialsSound
PROPERTIES FreshAttempt EditsAreSound CredentialsKept
CHECK_DEADLOCK FALSE
