\* Two loads of one export, the generation of embeddings, and five messages;
\* a search in three ranges.
SPECIFICATION MCSpec
SYMMETRY MCSymmetry
CONSTANTS
  Export <- MCExport
  Inputs <- MCInputs
  Dumps = {d1, d2}
  Batch = 2
  MaxRows = 4
  Messages <- MCMessages
  Scenarios <- MCScenarios
  d1 = d1
  d2 = d2
  Ranges = {r1, r2, r3}
  Limit = 2
  MaxResults = 2
INVARIANTS
  ThreadsFollowReplies
  DumpIsComplete
  NilMeansEmbedded
  ExplainsOwnLastAnswer
  NoRowLost
PROPERTIES
  GivenUpOnlyWhenEnough
CHECK_DEADLOCK FALSE
