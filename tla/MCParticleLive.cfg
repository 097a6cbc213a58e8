CONSTANTS
  execute <- ExecuteAir
  CallId <- CallInScript
  Peers = {"A", "B", "C"}
  Cids = {}
  MaxPos = 64
  StreamMaxSize = 16
  InitPeer = "A"
  SendWhenIdle <- LocalJoinScripts
  MaxCrashes = 0
  Scripts <- RoutedOrLocalScripts
  ServiceResults <- OneValue
SPECIFICATION FairSpec
CHECK_DEADLOCK FALSE
PROPERTIES EveryCallAnswered
