\* Requests of nothing, of a ragged size and of four frames, with one or two
\* notifications; two events for one slot.
CONSTANTS
  BytesPerFrame = 2
  Sizes = {0, 3, 8}
  Counts = {0, 1, 2}
  Events = {e1, e2}
  MaxEvents = 1
  FrameWrap = 4
SPECIFICATION StreamSpec
INVARIANTS
  CopyStaysInBuffer
  PositionIsOffset
PROPERTY
  RunningWakesClient
