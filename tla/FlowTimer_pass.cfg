SPECIFICATION FairTimerSpec
CONSTANTS
  MaxFlows = 3
  Handles = {1, 2, 3}
  NoHandle = NoHandle
  Timeout = 3
  MaxFreed = 2
INVARIANTS
  TimerTypeOK
  TimerBelongsToUser
PROPERTIES
  PacketsPutOff
  TimerRunsDown
