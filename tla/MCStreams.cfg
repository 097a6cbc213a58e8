CONSTANTS
  StreamMaxSize = 4
  Values <- AllValues
  Scripts <- PlainOrFirstFold
SPECIFICATION Spec
CHECK_DEADLOCK FALSE
INVARIANTS StoredGenerationsDense StoredDataReplays
PROPERTIES LocalOrderKept AppendOnly FoldVisitsAll
