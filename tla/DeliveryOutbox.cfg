\* Two deliveries, two plugins, one platform; backoff 1, 2 (cap), three attempts.
SPECIFICATION Spec
CONSTANTS
  d1 = d1
  d2 = d2
  w1 = w1
  w2 = w2
  qqbot = qqbot
  Deliveries = {d1, d2}
  Workers = {w1, w2}
  Platforms = {qqbot}
  PlatformOf <- MCPlatformOf
  NoLease = NoLease
  MaxAttempts = 3
  Second = 1
  BackoffBase = 1
  BackoffCap = 2
  ClaimLimits = {1, 2}
  LeaseSeconds = {2}
  Horizon = 1
  MaxTime = 4
SYMMETRY Symmetry
INVARIANTS TypeOK OneHolder FailureBudget
PROPERTIES NeverBeforeDue KeepsPromise
CHECK_DEADLOCK FALSE
