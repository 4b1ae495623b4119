CONSTANTS
  SingleContext = FALSE
  UserDisconnects = TRUE
  DiscoverAttempts = 1
SPECIFICATION FairSpec
PROPERTY KeepsReconnecting
