SPECIFICATION Spec
CONSTANTS
  w1 = w1  w2 = w2
  NULL = NULL
  Workers <- TwoWorkers
  Automations = {1}
  Tables = {{}, {1}}
  Configs <- AllConfigs
  Items = {1, 2, 3}
  TooLong = {3}
  Audience = 2
  FanoutLimit = 4
  Stamps = {1, 2}
  DueLimit = 2
  ClaimWindow = 2
  RetryDelay = 1
  Interval = 1
  MaxFailures = 2
  MaxRedirects = 1
  MaxRun = 1
  MaxRequests = 2
  MaxChanges = 1
  MaxFaults = 1
INVARIANTS ScheduleInvariant ExclusiveRun NoRepeat
PROPERTIES PauseHolds
CHECK_DEADLOCK FALSE
