SPECIFICATION Spec
CONSTANTS
  Jobs = {j1, j2}
  MaxTags = 1
  MaxKeys = 2
  MaxInst = 2
  MaxStarts = 5
  MaxFaults = 1
SYMMETRY Symmetry
INVARIANTS TypeOK ClearedStaysCleared ServerAgrees
CHECK_DEADLOCK FALSE
