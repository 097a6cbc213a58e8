CONSTANTS
  execute <- ExecuteAir
  CallId <- CallInScript
  Peers = {"A", "B"}
  Cids = {}
  MaxPos = 64
  StreamMaxSize = 16
  InitPeer = "A"
  SendWhenIdle = {}
  MaxCrashes = 0
  Scripts <- ErrorInParScripts
  ServiceResults <- ValueOrError
SPECIFICATION Spec
CHECK_DEADLOCK FALSE
INVARIANT HonestDataAccepted
