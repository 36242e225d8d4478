\* A lookup and a list of two numbers; one answer of Redis is lost, Redis goes away.
CONSTANTS
  s1 = s1
  b2 = b2
  None = None
  Users = {owner}
  MaxKeys = 1
  Requests = {s1, b2}
  Kind <- MCKind
  Cost <- MCCost
  MaxCost = 2
  Window = 3
  Slack = 1
  Delay = 1
  TicksPerSecond = 2
  MinuteLimit = 3
  Limit <- MCLimit
  Period <- MCPeriod
  TTL <- MCTTL
  MaxNow = 2
  MaxDrops = 1
  Outage = TRUE
SPECIFICATION RequestsSpec
INVARIANTS RequestsTypeOK RevokedKeyUseless UsageIsWhatWasServed ServedIsCharged
CHECK_DEADLOCK FALSE
