SPECIFICATION HostsSpec
CONSTANTS
  Size = 2
  Gens = {1, 2}
  Versions = {1, 2}
  Reqs = {1, 2}
  MaxFaults = 2
  MaxTries = 1
  Modes <- MCDeepModes
  WorkerProfiles = {x, y}
  MaxWorkerProcs = 2
  MaxDigests = 2
  MaxCommands = 1
  MaxTroubles = 1
  Sockets = {x, y}
  MaxSlots = 1
  MaxTyped = 2
  UiRequests = {c1, c2}
  LastCall = 1
  MaxUiSessions = 3
SYMMETRY HostSymmetries
INVARIANTS ObjectSound WorkerServiceSound SocketsSound FilesSound
PROPERTIES NothingLost KeepsPromise
CHECK_DEADLOCK FALSE
