SPECIFICATION FormSpec
CONSTANTS
  Editors = {e1, e2}
  MaxTyped = 3
  MaxRevision = 3
  MaxNodes = 2
SYMMETRY EditorSymmetry
INVARIANTS FormTypeOK NothingRevives RowIsWhole
CHECK_DEADLOCK FALSE
