CONSTANTS
  p = p
  q = q
  t = t
  u = u
  Pushers = {p, q}
  Takers = {t, u}
  NoThread = NoThread
  MaxPushed = 2
SPECIFICATION Spec
INVARIANTS
  TypeOK
  OneCheckedTakerIsSafe
PROPERTIES
  IsMessageQueue
CHECK_DEADLOCK FALSE
