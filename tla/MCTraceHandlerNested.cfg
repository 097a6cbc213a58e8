CONSTANTS
  Peers = {"p", "q"}
  Cids = {"v"}
  Self = "p"
  CallIds = {2}
  MaxDepth = 2
  MaxPos = 64
  MaxTrace = 3
  MaxResult = 4
  Leaves <- MCLeaves
  Traces <- MCNestedTraces
SPECIFICATION Spec
CHECK_DEADLOCK FALSE
INVARIANT ParsWellNested
PROPERTIES ParEndRestoresSliders SlidersNeverGoBack
