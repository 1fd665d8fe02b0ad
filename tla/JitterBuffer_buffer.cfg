\* A queue of three packets (14 in the product), a prefill of two, a watchdog
\* more patient than the queue is long, one packet late by up to one frame.
CONSTANTS
  MaxEntries = 3
  Prefill = 2
  LostFrames = 4
  MaxAhead = 5
  MaxFlight = 1
  MaxLate = 1
SPECIFICATION FairSpec
INVARIANTS QueueIsAhead NothingVanishes MarkerEndsOldStream
PROPERTY HiccupAbsorbed
