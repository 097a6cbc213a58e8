CONSTANTS
  Peers = {"p", "q"}
  Cids = {"v"}
  Self = "p"
  CallIds = {2}
  MaxDepth = 2
  MaxPos = 3
  MaxTrace = 2
  MaxResult = 3
  Leaves <- MCLeavesAll
  Traces <- MCAnyTraces
SPECIFICATION Spec
CHECK_DEADLOCK FALSE
INVARIANTS TypeOK SlidersInBounds MappingPointsBack
