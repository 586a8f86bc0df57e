SPECIFICATION Spec
CONSTANTS
  Nil = Nil
  Failed = Failed
  Panic = Panic
  c1 = c1
  c2 = c2
  Calls <- MCCalls
  KindsOf <- MCKindsOf
  MaxOpenConns = 1
  SearchPath = "yes"
  DriverSlots = 1
  MaxConns = 2
  MaxCuts = 1
  MaxAttempts = 2
  Characters <- MCCharacters
  StringArrays <- MCStringArrays
  Floats <- MCFloats
  Float32Arrays <- MCFloat32Arrays
  ArrayTexts <- MCArrayTexts
  ConnStrings <- MCConnStrings
  EscapeLimit = 2
INVARIANTS
  ArraysSurvive
  ConnStringSurvives
  HooksPair
  EffectsAreJustified
PROPERTIES
  StatementEnds
CHECK_DEADLOCK FALSE
