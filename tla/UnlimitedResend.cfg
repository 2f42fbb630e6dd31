\* One delivery whose leases run out unanswered again and again.
SPECIFICATION Spec
CONSTANTS
  d1 = d1
  d2 = d2
  w1 = w1
  w2 = w2
  qqbot = qqbot
  Deliveries = {d1}
  Workers = {w1}
  Platforms = {qqbot}
  PlatformOf <- MCPlatformOf
  NoLease = NoLease
  MaxAttempts = 2
  Second = 1
  BackoffBase = 1
  BackoffCap = 2
  ClaimLimits = {1}
  LeaseSeconds = {1}
  Horizon = 0
  MaxTime = 5
INVARIANT NoUnlimitedResend
CHECK_DEADLOCK FALSE
