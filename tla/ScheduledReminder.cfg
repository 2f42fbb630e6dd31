SPECIFICATION Spec
CONSTANTS
  DayLength = 4
  FirstDay = 0
  Rules = {1, 2, 3}
  RuleOf <- MCRuleOf
  MaxDuePerTick = 3
  NotYet = NotYet
  Start = 1
  MaxTime = 11
  MaxFaults = 2
INVARIANTS TypeOK DueIsWhatFires NothingPassedOver OnlyWhileWatched
PROPERTIES NoneOvertaken EventuallyStored
CHECK_DEADLOCK FALSE
