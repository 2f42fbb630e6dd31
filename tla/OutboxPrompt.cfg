SPECIFICATION Spec
CONSTANTS
  qqbot = qqbot
  Deliveries = {d1, d2}
  Workers = {w1, w2}
  Calls = {c1, c2}
  Platforms = {qqbot}
  PlatformOf <- MCPlatformOf
  NoLease = NoLease
  MaxAttempts = 2
  Second = 1
  BackoffBase = 1
  BackoffCap = 2
  ClaimLimits = {2}
  LeaseSeconds = {1}
  Horizon = 0
  MaxTime = 2
  PromptAnswers = TRUE
SYMMETRY Symmetry
INVARIANTS TypeOK RetryHasAttemptLeft AttemptsAreDistinct
PROPERTIES KeepsPromise ClaimsSpareLiveLeases AnswerMatchesLease
CHECK_DEADLOCK FALSE
