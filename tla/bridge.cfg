SPECIFICATION FairSpec
CONSTANTS
  HeaderLen = 2
  FrameLen = 4
  MaxFrames = 2
  MaxPuts = 2
CHECK_DEADLOCK FALSE
INVARIANT StreamIntact
INVARIANT FramesWhole
INVARIANT WireInOrder
PROPERTY AnswersSent
PROPERTY GetterReleased
PROPERTY LeftEnds
