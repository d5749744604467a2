SPECIFICATION Spec
CONSTANTS
  Procs = {p1, p2}
  Jobs = {j1}
  None = None
  MaxLaunches = 1
SYMMETRY Symmetry
PROPERTY CancelledOnPurpose
