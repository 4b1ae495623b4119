CONSTANTS
  ClockModulus = 4
  ImuPublishInterval = 2
  PairingBlinkInterval = 1
  FailLogInterval = 3
  MaxLag = 1
  MaxFails = 1
SPECIFICATION FairSpec
INVARIANTS ModeFollowsClient AlwaysReachable ClientIsInformed
PROPERTIES SamplesAreSpaced StreamFlows LedSettles
