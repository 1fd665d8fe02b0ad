CONSTANTS
  Devices = 3
  Own = {2}
  Named = {2}
  MaxChanges = 2
SPECIFICATION Spec
CHECK_DEADLOCK FALSE
INVARIANTS
  OwnOnlyIfMisjudged
  RunsAsAsked
PROPERTY InventoryIsCurrent
