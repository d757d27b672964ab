CONSTANTS
  Syms <- MCFrameTwoCh
  Channels = 2
  FramesToTest = 2
  ResyncPeriod = 1
  ReSyncRetryCount = 1
  MaxBeaconAdjust = 1
  DetectRange = 2
  MaxSkew = 2
  ShortShift = 1
SPECIFICATION FairSpec
INVARIANT NoDuplicateTx
PROPERTY ClientTerminates
