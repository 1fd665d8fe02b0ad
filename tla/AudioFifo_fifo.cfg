CONSTANTS
  Capacity = 4
  FrameLen = 2
  MaxPacket = 3
  MaxItems = 11
SPECIFICATION Spec
CHECK_DEADLOCK FALSE
INVARIANTS
  InOrderUntilOverrun
  HarmIsRepaired
  NoUseAfterStop
PROPERTY StopReturns
