SPECIFICATION Spec
CONSTANTS
  ScanTimes <- MCScanTimes
  Offsets <- MCOffsets
  ImageTimes <- MCImageTimes
  ImuTimes <- MCImuTimes
  RtkTimes <- MCRtkTimes
  MaxRewinds = 1
  MinImageGap = 2
  ExposureTime = 0
  MaxIniCount = 1
  MaxRtkAge = 3
INVARIANTS
  BuffersPaired
CHECK_DEADLOCK FALSE
