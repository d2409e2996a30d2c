SPECIFICATION Spec
CONSTANTS
  Msg = {m1}
  Handler = {h1, h2}
  NoMsg = NoMsg
  Window = 2
  Ahead = 1
  Keep = 2
  MaxTime = 8
  MaxQueue = 3
CHECK_DEADLOCK FALSE
INVARIANT KnownWhileAcceptable
PROPERTY AcceptedAgain
