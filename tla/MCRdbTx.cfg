CONSTANTS
  Callers = {c1, c2}
  Idempotent = {c1}
  MaxOpenConns = 1
  MaxAttempts = 2
SPECIFICATION FairSpec
INVARIANTS
  NilMeansCommitted
  NotIdempotentRunsOnce
  ConnectionsGivenBack
PROPERTIES
  CancelEndsCall
CHECK_DEADLOCK FALSE
