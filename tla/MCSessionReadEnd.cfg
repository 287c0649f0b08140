\* The peer closes at a message boundary; data_ starts as zeros.
CONSTANTS
  s1 = s1
  p1 = p1
  p2 = p2
  p3 = p3
  Torn = Torn
  SizeMod = 1048576
  Payloads <- MCPayloads
  Sessions = {s1}
  FramesFrom <- MCFramesFrom
  Closing = {s1}
  CutPoints = {0}
  Uninitialised <- MCZeroed
  MaxSent <- MCTwoEach
  MaxDispatched = 6
SPECIFICATION Spec
INVARIANT DispatchOnlyOnMessage
CHECK_DEADLOCK FALSE
