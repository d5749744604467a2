SPECIFICATION EnrollSpec
CONSTANTS
  WorkerNames = {n1, n2}
  Workers = {w1, w2}
  Tokens = {t1, t2}
  Invites = {i1, i2}
  Nil = Nil
  NoFile = NoFile
  Damaged = Damaged
  MaxDamage = 1
SYMMETRY Symmetry
PROPERTIES
  IdentityKept
CHECK_DEADLOCK FALSE
