CONSTANTS
  StreamMaxSize = 8
  Values <- AllValues
  Scripts <- RerunFold
SPECIFICATION Spec
CHECK_DEADLOCK FALSE
PROPERTY AppendOnly
