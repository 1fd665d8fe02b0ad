CONSTANTS
  Capacity = 4
  WriteSize = 2
  Timeout = 5
  Wrap = 64
  MaxGap = 6
  MaxLag = 2
SPECIFICATION FairSpec
PROPERTY SilenceEnds
