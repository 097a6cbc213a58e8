CONSTANTS
  execute <- ExecuteAir
  CallId <- CallInScript
  Peers = {"A", "B", "C"}
  Cids = {}
  MaxPos = 64
  StreamMaxSize = 16
  InitPeer = "A"
  SendWhenIdle = {}
  MaxCrashes = 1
  Scripts <- CallScripts
  ServiceResults <- ValueOrError
SPECIFICATION Spec
CHECK_DEADLOCK FALSE
INVARIANTS TypeOK ExecutionsKeep PrevDataCorrect HonestDataAccepted RequestedOnce RedeliveryIsAbsorbed
PROPERTIES SignedCidsGrow ImplementsCallResults
