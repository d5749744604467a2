SPECIFICATION FairSpec
CONSTANTS
  Names = {n1, n2}
  Regs = {r1}
  Jobs = {j1, j2}
  None = None
  MaxPending = 1
  CallTimeouts = {1, 3}
  TombTTL = 1
  TombCap = 1
INVARIANTS
  Reservations
PROPERTIES
  NoDeadDelivery
  ImplementsCall
  CallsEnd
