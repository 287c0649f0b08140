CONSTANTS
  s = s
  p1 = p1
  p2 = p2
  p3 = p3
  Torn = Torn
  NoCallback = NoCallback
  SizeMod = 1048576
  Payloads <- MCPayloads
  s_session = s
  Presize = 3
  Groups = 2
  Flows = {2}
  FramesFrom <- MCFramesFrom
  Closing = {s}
  CutPoints = {0, 2}
  Uninitialised <- MCZeroed
  MaxSent <- MCSent
  MaxDispatched = 5
SPECIFICATION Spec
INVARIANTS
  TypeOK
  CountedOnce
  TornOnlyAtBoundary
  TestNeedsReply
PROPERTIES
  OnlyFirstPushBackUnsafe
  ReplyRunsTest
CHECK_DEADLOCK FALSE
