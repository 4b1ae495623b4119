CONSTANTS
  FlushEventBatchSize = 3
  NoFile = NoFile
  Notifications <- SentHotkeys
  Labels = {"CORRECT"}
  MaxSamples = 2
  MaxStamps = 2
  MaxQueue = 2
  MaxLines = 2
  DistinctStamps = TRUE
SPECIFICATION Spec
INVARIANTS RecordsWhatItShows TagsTellTheSample NoSampleLost FilesHoldOneSession
PROPERTY NoLineLost
