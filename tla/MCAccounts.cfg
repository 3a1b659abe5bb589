SPECIFICATION Spec
CONSTANTS
  MaxId = 2
  Platforms = {p1}
  Requests = {r1, r2, r3}
SYMMETRY Symmetry
INVARIANTS TypeOK AdminRemains LinksAreDue
CHECK_DEADLOCK FALSE
