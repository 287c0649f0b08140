CONSTANTS
  Nsec = 11
  UInt32Mod = 47
  Rates = {3, 5}
  LastSec = 5
  MacMod = 16
  MaxBursts = 2
  MaxDelays = 3
SPECIFICATION Spec
INVARIANTS
  TypeOK
  BurstStartKept
  DeadlineNotBehind
PROPERTIES
  NeverFasterThanAsked
  CutOff
  FlowsAreNew
  BurstReturns
CHECK_DEADLOCK FALSE
