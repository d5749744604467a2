SPECIFICATION ServicesSpec
CONSTANTS
  Names = {n1, n2}
  Regs = {r1, r2}
  Jobs = {j1, j2}
  None = None
  MaxPending = 1
  CallTimeouts = {1}
  TombTTL = 1
  TombCap = 1
  WorkerNames = {n1, n2}
  Workers = {r1, r2}
  Tokens = {j1, j2}
  Invites = {i1, i2}
  Nil = Nil
  NoFile = NoFile
  Damaged = Damaged
  MaxDamage = 1
  ServerConfigs = {n1, n2}
  MaxAgentCalls = 3
  AuditCalls = {n1, n2}
  Payloads = {r1, r2}
  MaxLog = 3
  MaxStore = 1
  Retention = 0
  MaxAuditTime = 1
SYMMETRY Symmetries
INVARIANTS RegistrySound AnswersItsOwn EnrollmentSound WorkersSound AuditSound
PROPERTIES RevokedGetsNothing
CHECK_DEADLOCK FALSE
