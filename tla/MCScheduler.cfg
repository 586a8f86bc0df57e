\* Two jobs, one of which quartz refuses, with changes of the configuration
\* and shutdown in every order.
CONSTANTS
  j1 = j1
  j2 = j2
  badCron = badCron
  NoCron = NoCron
  Unreadable = Unreadable
  Jobs <- MCBothJobs
  Schedulable <- MCFirstJob
  Configs <- MCConfigs
  BadCrons <- MCBadCrons
  BuiltTriggers <- MCBuiltTriggers
  MaxRunningCount = 1
  MaxInFlight = 2
  MaxConfigChanges = 2
SPECIFICATION FairSpec
INVARIANTS
  NoCloseUnderExecution
  QueueFollowsSeenConfig
PROPERTIES
  WaitIsBounded
  ConfigEventuallyApplied
CHECK_DEADLOCK FALSE
