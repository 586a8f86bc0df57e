\* Two goroutines on one slot: what the help text of the gauge says.
CONSTANTS
  Executors = {e1, e2}
  MaxRunningCount = 1
  MaxCalls = 3
SPECIFICATION Spec
INVARIANTS
  GaugeIsInProgress
CHECK_DEADLOCK FALSE
