SPECIFICATION Spec
CONSTANTS
  Workers = {w1, w2}
  Subjects = {1}
  MaxActs = 4
  MaxFlows = 1
SYMMETRY Symmetry
INVARIANTS TypeOK NothingOutlives WayIn
PROPERTY StoppedFlowsEnd
CHECK_DEADLOCK FALSE
