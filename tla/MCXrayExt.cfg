SPECIFICATION Spec
CONSTANTS
  Tags = {t1, t2}
  Workers = {w1, w2}
  MaxKeys = 3
  MaxStarts = 3
  MaxFaults = 1
SYMMETRY Symmetry
INVARIANTS TypeOK ServerAgrees
CHECK_DEADLOCK FALSE
