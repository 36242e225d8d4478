\* Redis goes away under a lookup.
CONSTANTS
  s1 = s1
  s2 = s2
  b2 = b2
  c2 = c2
  b3 = b3
  l1 = l1
  Requests = {s1}
  Kind <- MCKind
  Cost <- MCCost
  MaxCost = 3
  Window = 3
  Slack = 1
  Delay = 1
  TicksPerSecond = 2
  MinuteLimit = 2
  Limit <- MCLimit
  Period <- MCPeriod
  TTL <- MCTTL
  MaxNow = 5
  MaxDrops = 0
  Outage = TRUE
SPECIFICATION FairSpec
PROPERTIES PassesWithoutRedis
CHECK_DEADLOCK FALSE
