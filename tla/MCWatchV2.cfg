CONSTANTS
  Calls = {}
  Config <- MCTwoWindows
  Overrides <- MCOverrides
  Mode = "enforcing"
  MaxTime = 4
  Literals = {"a", "b"}
  Methods = {"GET"}
  Spellings = {1, 2}
  MaxSegments = 2
  Paths <- MCPaths
  Malformed <- MCMalformed
  MaxPaths = 0
  good1 = good1
  good2 = good2
  bad = bad
  p1 = p1
  p2 = p2
  p3 = p3
  Unreadable = Unreadable
  Configs <- MCConfigs
  PathsOf <- MCPathsOf
  BadPaths <- MCBadPaths
  Callers = {k1, k2}
  MaxChanges = 3
SPECIFICATION MCSpec
PROPERTIES
  WatchedV2ConfigIsLoaded
CHECK_DEADLOCK FALSE
