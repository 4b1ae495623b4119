CONSTANTS
  Frames <- MCFrames
  Gaps <- MCGaps
  MaxTime = 16
  HoldSeconds = 2
  CooldownSeconds = 2
  MovingMinSeconds = 1
  TrajectoryMinSeconds = 2
  TrajectoryMaxSeconds = 5
  MovingTimeoutSlack = 1
  TrajectoryMinFrames = 3
  StableWindowSeconds = 2
  StableWindowMinFrames = 2
  WritingPrecheckSeconds = 2
  WritingPrecheckMinFrames = 2
  JitterWindowSeconds = 3
  FeatureBufferRetentionSeconds = 4
SPECIFICATION Spec
CHECK_DEADLOCK FALSE
INVARIANTS HoldIsSteady HoldFollowsMovement Chronology
PROPERTIES TriggerSpacing ImplementsDebouncedHotkey
