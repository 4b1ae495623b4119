CONSTANTS
  SingleContext = TRUE
  UserDisconnects = TRUE
  DiscoverAttempts = 2
SPECIFICATION FairSpec
INVARIANTS NoLostWakeup StoppedIsClean ConnectedHasDevice
PROPERTIES StopReturns KeepsReconnecting StaleConnectedHeals
