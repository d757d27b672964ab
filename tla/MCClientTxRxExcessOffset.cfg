CONSTANTS
  Syms <- MCFrameUL
  Channels = 1
  FramesToTest = 3
  ResyncPeriod = 1
  ReSyncRetryCount = 1
  MaxBeaconAdjust = 1
  DetectRange = 2
  MaxSkew = 2
  ShortShift = 1
SPECIFICATION Spec
PROPERTY
  ExcessOffsetNotApplied
