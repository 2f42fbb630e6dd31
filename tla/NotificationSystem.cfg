\* One reminder of one user, two handlers, two requests; a second is 3 ticks.
SPECIFICATION Spec
CONSTANTS
  h1 = h1
  h2 = h2
  k1 = k1
  u1 = u1
  w1 = w1
  p1 = p1
  t1 = t1
  t2 = t2
  qqbot = qqbot
  reminder = reminder
  Handlers = {h1, h2}
  DedupeKeys = {k1}
  Inputs <- MCInputs
  DefaultDelay = 1
  MaxDelay = 1
  PublisherKeys = {p1}
  Tokens = {t1}
  PrefixChoices = {{reminder}}
  Unregistered = Unregistered
  DemoToken = t1
  DemoEvent = reminder
  Users = {u1}
  NoRow = NoRow
  Entries <- MCEntries
  MaxRequests = 2
  MaxOpen = 2
  Workers = {w1}
  NoLease = NoLease
  MaxAttempts = 1
  Second = 3
  BackoffBase = 3
  BackoffCap = 3
  Platform = qqbot
  ClaimLimits = {1}
  LeaseSeconds = {3}
  Horizon = 5
  MaxTime = 3
  KeyLength <- MCKeyLength
  Schema <- MCSchema
  ValidPayload <- Valid
  MaxChanges = 1
SYMMETRY Symmetry
CONSTRAINT FewAtOnce
INVARIANTS TypeOK RemindedOnce ToldWhen AcceptedFits
PROPERTIES RemindedOnTime
CHECK_DEADLOCK FALSE
