CONSTANTS
  Nsec = 11
  UInt32Mod = 47
  Rates = {3, 5}
  LastSec = 5
  MacMod = 16
  MaxBursts = 2
  MaxDelays = 3
SPECIFICATION Spec
PROPERTY
  EveryBurstSends
CHECK_DEADLOCK FALSE
