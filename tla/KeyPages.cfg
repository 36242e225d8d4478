\* Two users, two keys, two calls at once.
SPECIFICATION Spec
CONSTANTS
  None = None
  Users = {ann, bob}
  MaxKeys = 2
  Calls = {c, d}
  Numbers = {n, m}
SYMMETRY Perms
CONSTRAINT Bounds
INVARIANTS
  TypeOK
  ListCurrent
  OneUser
  ResultOfLatest
PROPERTY KeyIsShown
CHECK_DEADLOCK FALSE
