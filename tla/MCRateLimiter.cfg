CONSTANTS
  Calls = {c1, c2, c3, c4}
  Config <- MCTwoWindows
  Overrides <- MCOverrides
  Mode = "enforcing"
  MaxTime = 4
  Literals = {"a", "b"}
  Methods = {"GET"}
  Spellings = {1, 2}
  MaxSegments = 2
  Paths <- MCPaths
  Malformed <- MCMalformed
  MaxPaths = 3
  good1 = good1
  good2 = good2
  bad = bad
  p1 = p1
  p2 = p2
  p3 = p3
  Unreadable = Unreadable
  Configs <- MCConfigs
  PathsOf <- MCPathsOf
  BadPaths <- MCBadPaths
  Callers = {k1, k2}
  MaxChanges = 3
SPECIFICATION MCSpec
SYMMETRY MCSymmetry
INVARIANTS
  MostSpecificFirst
  FirstMatchIsMostSpecific
  CallSeesOneConfig
PROPERTIES
  AdmittedWithinLimit
  StartNeverMovesBack
  WatchedConfigIsLoaded
CHECK_DEADLOCK FALSE
