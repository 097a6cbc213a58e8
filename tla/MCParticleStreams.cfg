CONSTANTS
  execute <- ExecuteAir
  CallId <- CallInScript
  Peers = {"A", "B", "C"}
  Cids = {}
  MaxPos = 64
  StreamMaxSize = 16
  InitPeer = "A"
  SendWhenIdle = {}
  MaxCrashes = 1
  Scripts <- StreamScripts
  ServiceResults <- NamedValue
SPECIFICATION Spec
CHECK_DEADLOCK FALSE
INVARIANTS ExecutionsKeep HonestDataAccepted RedeliveryIsAbsorbed FoldsWellFormed
