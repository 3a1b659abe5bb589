CONSTANTS
  w1 = w1
  w2 = w2
  f1 = f1
  r1 = r1
  Workers = {w1, w2}
  Readers = {r1}
  Slugs = {"s"}
  Files = {f1}
  MaxRows <- MCMaxRows
  MaxNo = 2
  MaxActs = 4
SPECIFICATION Spec
SYMMETRY Symmetry
INVARIANTS TypeOK RecordsAgree
PROPERTY ServedWhole
CHECK_DEADLOCK FALSE
