\* Two sessions on one io_service; one of them may lose its connection.
CONSTANTS
  c = c
  s = s
  Sessions = {c, s}
  Messages <- MCMessages
  ShortCounts = {50}
  Breakable = {s}
  MaxWritten = 2
SPECIFICATION Spec
INVARIANTS
  TypeOK
  PiecesInOrder
  HeadsInWriteOrder
PROPERTY WritesComplete
\* Once every message is out there is nothing left to do.
CHECK_DEADLOCK FALSE
