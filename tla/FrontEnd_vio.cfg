SPECIFICATION Spec
CONSTANTS
  ScanTimes <- MCScanTimes
  Offsets <- MCOffsets
  ImageTimes <- MCImageTimes
  ImuTimes <- MCImuTimes
  RtkTimes <- MCRtkTimes
  MaxRewinds = 0
  MinImageGap = 2
  ExposureTime = 0
  MaxIniCount = 1
  MaxRtkAge = 3
INVARIANTS
  VioFollowsImmediately
CHECK_DEADLOCK FALSE
