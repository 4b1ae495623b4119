CONSTANTS
  ByteBase = 8
  Scale = 4
  GyroBiasAlpha = 1
  GravityAlphaStill = 2
  GravityAlphaMove = 3
  OneG = 16
  AccelMagTolerance = 4
  GyroStillThreshold = 2
  ReadyStableFrames = 2
  Motions <- MCMotions
SPECIFICATION Spec
INVARIANT BiasWithinStill
PROPERTIES AcceptedIsIntact PoseConverges
