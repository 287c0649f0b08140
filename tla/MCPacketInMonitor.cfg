\* Up to seven PACKET_INs, at any moment of the worker's loop.
CONSTANTS
  packet_in = packet_in
  NoMessage = NoMessage
  Messages = {packet_in}
  thresh_hold_ = 2
  CounterMod = 16
  MaxArrived = 7
SPECIFICATION Spec
INVARIANTS
  TypeOK
  EveryTriggerPaidFor
  SleepCountsAll
  AtMostOneLateTrigger
PROPERTIES
  StopEndsWorker
  BurstTriggers
