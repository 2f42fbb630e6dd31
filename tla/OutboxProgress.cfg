SPECIFICATION ProgressSpec
CONSTANTS
  d1 = d1
  d2 = d2
  d3 = d3
  qqbot = qqbot
  other = other
  Deliveries = {d1, d2, d3}
  Workers = {w1}
  Platforms = {qqbot, other}
  PlatformOf <- MCPlatformOf
  NoLease = NoLease
  MaxAttempts = 2
  Second = 1
  BackoffBase = 1
  BackoffCap = 2
  ClaimLimits = {1}
  LeaseSeconds = {1}
  Horizon = 1
  MaxTime = 9
  MaxLost = 2
  PublishUntil = 0
PROPERTY EventuallySettled
CHECK_DEADLOCK FALSE
