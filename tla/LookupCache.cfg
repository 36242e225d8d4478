\* Two lookups, two numbers, both flushes, one load; an entry lives two ticks.
SPECIFICATION Spec
CONSTANTS
  None = None
  Lookups = {a, b}
  Numbers = {n1, n2}
  Flushes = {cron, reload}
  TTL = 2
  Delay = 1
  MaxNow = 4
  MaxData = 1
SYMMETRY Perms
INVARIANTS
  TypeOK
  BoundedStaleness
  FlushForgets
CHECK_DEADLOCK FALSE
