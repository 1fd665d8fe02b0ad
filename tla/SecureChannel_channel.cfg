CONSTANTS
  Thread = {t1, t2}
  Width = 2
  ControlWidth = 2
  MaxSends = 4
  MaxEstablish = 3
SPECIFICATION Spec
CHECK_DEADLOCK FALSE
INVARIANTS
  WindowsAreExact
  AgainMeansReopened
  RefusedMeansShared
