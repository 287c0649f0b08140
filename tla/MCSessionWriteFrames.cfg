\* Two messages to one session, and a socket that is short of room.
CONSTANTS
  c = c
  s = s
  Sessions = {s}
  Messages <- MCMessages
  ShortCounts = {50}
  Breakable = {}
  MaxWritten = 2
SPECIFICATION Spec
INVARIANT FramesContiguous
CHECK_DEADLOCK FALSE
