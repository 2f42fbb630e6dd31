SPECIFICATION Spec
CONSTANTS
  qqbot = qqbot
  Deliveries = {d1}
  Workers = {w1, w2}
  Calls = {c1, c2}
  Platforms = {qqbot}
  PlatformOf <- MCPlatformOf
  NoLease = NoLease
  MaxAttempts = 2
  Second = 1
  BackoffBase = 1
  BackoffCap = 2
  ClaimLimits = {1}
  LeaseSeconds = {1}
  Horizon = 1
  MaxTime = 4
  PromptAnswers = FALSE
SYMMETRY Symmetry
PROPERTY AnswerMatchesLease
CHECK_DEADLOCK FALSE
