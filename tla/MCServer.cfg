\* A server and the scheduler, closed by two calls of Shutdown at once, and
\* every request of a small instance.
SPECIFICATION MCSpec
CONSTANTS
  Checkers <- MCCheckers
  Servers = {"api"}
  Callers = {c1, c2}
  MaxActive = 1
  Chains <- MCChains
  Plans <- MCPlans
INVARIANTS
  CleanMeansDrained
  PanicIsAnswered
  LogsTellTheTruth
  FaultsReported
  PresentersAgree
PROPERTIES
  ShutdownIsBounded
  TrafficStops
CHECK_DEADLOCK FALSE
