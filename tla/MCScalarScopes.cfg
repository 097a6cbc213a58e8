CONSTANTS
  Names = {x, y}
  Iterators = {i, j}
  Vals = {u}
  Unset = Unset
  Items = 3
  MaxFrames = 4
SPECIFICATION Spec
SYMMETRY ScopesSymmetry
CHECK_DEADLOCK FALSE
INVARIANTS NeverCorrupted AllowedIsInScope
PROPERTY ScopeExitRestores
