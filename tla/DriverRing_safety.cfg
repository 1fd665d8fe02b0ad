\* A ring of four periods, writes of two (960 frames against 480), a heartbeat
\* timeout longer than the ring, a service late by up to two writes.
CONSTANTS
  Capacity = 4
  WriteSize = 2
  Timeout = 5
  Wrap = 64
  MaxGap = 6
  MaxLag = 2
SPECIFICATION Spec
INVARIANTS TypeOK PublishedIsIntact NoReplayAfterOutage
