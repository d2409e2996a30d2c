SPECIFICATION FairSpec
CONSTANTS
  MaxTyped = 3
  MaxForwards = 2
CHECK_DEADLOCK FALSE
INVARIANT SuccessIsStored
INVARIANT SentInOrder
PROPERTY WorkerEnds
PROPERTY ListenerEnds
