SPECIFICATION LdSpec
CONSTANTS
  MaxPids = 3
  ProcKinds = {"plain", "escaped", "foreign"}
  MaxPolls = 1
  MaxLooks = 1
INVARIANT CoalitionEmptied
CHECK_DEADLOCK FALSE
