CONSTANTS
  FlushEventBatchSize = 2
  NoFile = NoFile
  Notifications <- OtherNotifications
  Labels = {"UNLABELED"}
  MaxSamples = 1
  MaxStamps = 1
  MaxQueue = 2
  MaxLines = 1
  DistinctStamps = TRUE
SPECIFICATION FairSpec
INVARIANTS StartIsNeverBlocked VerdictIsCurrent OnlyImuAtRisk TagsTellTheSample
PROPERTY ButtonSettles
