SPECIFICATION Spec
CONSTANTS
  a = a  b = b
  Frames <- MCFrames
  Blocks <- MCBlocks
  Capacity = 4
  Wrap = 8
  MaxPop = 2
  FillTarget = 3
INVARIANTS
  NoDataRace
PROPERTIES
  FifoSpec
  PushReturns
CHECK_DEADLOCK FALSE
