CONSTANTS
  Ranges = {r1, r2, r3}
  Limit = 2
  MaxResults = 2
SPECIFICATION SearchSpec
PROPERTIES
  EnoughRowsSuppressed
CHECK_DEADLOCK FALSE
