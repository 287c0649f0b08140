\* Both peers stay connected.
CONSTANTS
  s = s
  c = c
  p1 = p1
  p2 = p2
  p3 = p3
  SwitchPath = SwitchPath
  Torn = Torn
  NoCallback = NoCallback
  NoMessage = NoMessage
  SizeMod = 1048576
  CounterMod = 16
  thresh_hold_ = 2
  Payloads <- MCPayloads
  s_session = s
  c_session = c
  FramesFrom <- MCFramesFrom
  Uninitialised <- MCZeroed
  ShortCounts = {}
  Closing = {}
  CutPoints = {}
  MaxSent <- MCRelaySent
  MaxDispatched = 0
SPECIFICATION Spec
INVARIANTS
  TypeOK
PROPERTIES
  ImplementsRelay
  BurstMovesPath
CHECK_DEADLOCK FALSE
