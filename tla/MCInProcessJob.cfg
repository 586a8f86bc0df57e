\* Three goroutines on two slots.
CONSTANTS
  Executors = {e1, e2, e3}
  MaxRunningCount = 2
  MaxCalls = 4
SPECIFICATION Spec
INVARIANTS
  MetricsBalance
PROPERTIES
  SkippedOnlyWhenFull
  ImplementsSlots
CHECK_DEADLOCK FALSE
