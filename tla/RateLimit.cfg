\* Two lookups, two bulk requests of two numbers and a login; one connection to Redis breaks, Redis goes away.
CONSTANTS
  s1 = s1
  s2 = s2
  b2 = b2
  c2 = c2
  b3 = b3
  l1 = l1
  Requests = {s1, s2, b2, c2, l1}
  Kind <- MCKind
  Cost <- MCCost
  MaxCost = 3
  Window = 2
  Slack = 1
  Delay = 1
  TicksPerSecond = 2
  MinuteLimit = 2
  Limit <- MCLimit
  Period <- MCPeriod
  TTL <- MCTTL
  MaxNow = 4
  MaxDrops = 1
  Outage = TRUE
SYMMETRY Perms
CONSTRAINT Bounds
SPECIFICATION Spec
INVARIANTS TypeOK MinuteBound FixedBound NoImmortalCounter
PROPERTIES RetryHonest
CHECK_DEADLOCK FALSE
