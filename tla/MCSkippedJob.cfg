\* One job: what the log line of a failed read of its configuration says.
CONSTANTS
  j1 = j1
  j2 = j2
  badCron = badCron
  NoCron = NoCron
  Unreadable = Unreadable
  Jobs <- MCFirstJob
  Schedulable <- MCFirstJob
  Configs <- MCConfigs
  BadCrons <- MCBadCrons
  BuiltTriggers <- MCBuiltTriggers
  MaxRunningCount = 1
  MaxInFlight = 1
  MaxConfigChanges = 1
SPECIFICATION FairSpec
PROPERTIES
  UnreadableIsSkipped
CHECK_DEADLOCK FALSE
