SPECIFICATION LiveSpec
CONSTANTS
  PrefixLen = 2
  HeadLen = 4
  MaxPacket = 6
  Flag = 8
  Totals = {2, 4, 5, 6, 7}
  MaxFrames = 2
INVARIANTS TypeOK FramesInOrder
PROPERTY FirstFrameReturned
CHECK_DEADLOCK FALSE
