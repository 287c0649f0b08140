\* Every order of up to three messages, every cut of the stream.
CONSTANTS
  s1 = s1
  p1 = p1
  p2 = p2
  p3 = p3
  Torn = Torn
  SizeMod = 1048576
  Payloads <- MCPayloads
  Sessions = {s1}
  FramesFrom <- MCFramesFrom
  Closing = {s1}
  CutPoints = {0, 2, 3, 4, 5, 8, 10}
  Uninitialised <- MCUninitialised
  MaxSent <- MCThreeEach
  MaxDispatched = 6
SPECIFICATION Spec
INVARIANTS
  TypeOK
  InOrderExactlyOnce
  OnlyStaleHeadersAfterEnd
PROPERTIES
  EveryMessageDispatched
  EndOfStreamStops
\* A session whose peer falls silent or whose loop has stopped does nothing.
CHECK_DEADLOCK FALSE
