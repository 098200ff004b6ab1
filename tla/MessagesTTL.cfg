SPECIFICATION Spec
CONSTANTS
  MaxPackets = 3
  MaxSize = 2
  RcvSize = 4
  Window = 3
  Mortal = {1}
PROPERTY SkipsTheDropped
CHECK_DEADLOCK FALSE
