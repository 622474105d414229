SPECIFICATION Spec
CONSTANTS
  ScanTimes = {1, 5, 9}
  Offsets <- MCCloseOffsets
  ImageTimes = {3, 7}
  ImuTimes = {2, 3, 4, 7}
  RtkTimes = {}
  MaxRewinds = 0
  MinImageGap = 2
  ExposureTime = 0
  MaxIniCount = 1
  MaxRtkAge = 3
INVARIANTS
  CompensatedOnce
CHECK_DEADLOCK FALSE
