CONSTANTS
  ArmTimeout = 0
  ReleaseTimeout = 0
  ArmFrames = 0
  LostFrames = 0
  WorkerLag = 1
  MaxPresses = 1
SPECIFICATION PttSpec
INVARIANTS
  AnswerSettles
  TouchDecides
PROPERTIES
  WaitsEnd
  PcLetsGo
  FingerUpEnds
