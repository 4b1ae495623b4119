CONSTANTS
  SingleContext = FALSE
  UserDisconnects = FALSE
  DiscoverAttempts = 2
SPECIFICATION FairSpec
PROPERTIES StopReturns KeepsReconnecting
