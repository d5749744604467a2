SPECIFICATION Spec
CONSTANTS
  Size = 2
  Gens = {1, 2}
  Versions = {1, 2}
  Reqs = {1, 2}
  MaxFaults = 2
  MaxTries = 1
  Modes <- MCForeground
INVARIANT CancelLeavesNothing
CHECK_DEADLOCK FALSE
