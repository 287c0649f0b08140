\* Either peer may close, between messages or in the middle of one.
CONSTANTS
  s = s
  c = c
  p1 = p1
  p2 = p2
  p3 = p3
  SwitchPath = SwitchPath
  Torn = Torn
  NoCallback = NoCallback
  NoMessage = NoMessage
  SizeMod = 1048576
  CounterMod = 16
  thresh_hold_ = 2
  Payloads <- MCPayloads
  s_session = s
  c_session = c
  FramesFrom <- MCFramesFrom
  Uninitialised <- MCZeroed
  ShortCounts = {}
  Closing = {s, c}
  CutPoints = {2}
  MaxSent <- MCCloseSent
  MaxDispatched = 3
SPECIFICATION Spec
INVARIANTS
  PeerMessagesFirst
  ReturnsAfterRelaying
PROPERTIES
  CompletedMessagesDelivered
CHECK_DEADLOCK FALSE
