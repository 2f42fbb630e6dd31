SPECIFICATION FairSpec
CONSTANTS
  cetus = cetus
  konzu = konzu
  ghoul = ghoul
  Missing = Missing
  NoRunner = NoRunner
  NoProvider = NoProvider
  Providers = {cetus, konzu, ghoul}
  Deployments <- MCDeployments
  KindOf <- MCKindOf
  Interval <- MCInterval
  LeaseSeconds = 1
  Runners = {r1, r2}
  MaxAttempts = 2
  Payload <- MCPayload
INVARIANTS TypeOK OnlyOnsets OneRunnerUnlessLate
PROPERTIES SeenInOrder FollowsFeed CaughtUp
