\* One tab that does two things at once, two users, two sessions, of which one
\* has its access tokens expire, once.
SPECIFICATION Spec
CONSTANTS
  None = None
  f = f
  g = g
  s = s
  Tabs = {s}
  TabOf <- OneTab
  Callers = {f, g, s}
  Users = {a, b}
  MaxRows = 2
  MaxEpoch = 1
SYMMETRY Perms
INVARIANTS
  TypeOK
  OneSession
  Coherent
  SentTwice
  OneAccount
  RevokedIsUseless
CHECK_DEADLOCK FALSE
