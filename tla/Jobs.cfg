SPECIFICATION JobsSpec
CONSTANTS
  Procs = {p1, p2}
  Jobs = {j1}
  None = None
  MaxLaunches = 2
  EditFiles = {1, 2}
  Tools = {1, 2}
  Shapes <- MCShapes
  Ranges <- MCRanges
  FirstLines = 2
  MaxRead = 2
  MaxLines = 2
  MaxSnaps = 1
  Margin = 0
  MaxMade = 3
  NoText = NoText
  NoSnap = NoSnap
  MaxPids = 2
  ProcKinds = {"plain", "stubborn", "escaped", "foreign"}
  MaxPolls = 1
  ShellStarts = {p1, p2}
  ShellIds = {1}
INVARIANTS LeasesSound VerdictsAccounted ConPtySound
PROPERTIES TerminalSticks OperationsEnd ToolsEnd
CHECK_DEADLOCK FALSE
