\* Two services on a device that comes twice; a buffer of one period.
CONSTANTS
  BytesPerFrame = 2
  Sizes = {2}
  Counts = {1}
  Events = {}
  MaxEvents = 0
  FrameWrap = 1
  Procs = {p1, p2}
  NoProc = NoProc
  MaxRings = 2
SPECIFICATION Spec
INVARIANTS
  SingleProducer
  ClaimHasOwner
  OrderlyRemovalIsSafe
PROPERTIES
  LendsOneAtATime
  DeadGivesBack
