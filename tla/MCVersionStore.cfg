SPECIFICATION Spec
CONSTANTS
  Admins = {a1, a2}
  Readers = {r1}
  Kind = "custom"
  MaxVersions = 2
  MaxWrites = 4
  MaxFaults = 1
SYMMETRY AdminSymmetry
INVARIANTS TypeOK StoreConsistent
PROPERTIES MissOnlyWhenSuperseded ImplementsChain
CHECK_DEADLOCK FALSE
