SPECIFICATION CatalogSpec
CONSTANTS
  ManualNames = {"m"}
  XrayNames = {"x"}
  Displays = {"", "d", "C"}
  PresetNames = {"P"}
  CustomNames = {"C"}
  Definitions <- MCDefinitions
  Selections <- MCSelections
  MaxActs = 4
INVARIANTS CatalogTypeOK ServedRight StoredRight
CHECK_DEADLOCK FALSE
