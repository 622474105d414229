SPECIFICATION SafeSpec
CONSTANTS
  MaxStamp = 4
  Poses = {0, 2}
  RtkStamps = {1, 2, 4}
  VelocityStamps = {2, 4}
  KeyframeMotion = 2
  KeyframeTime = 3
  MaxPending = 2
  MaxRtk = 2
  RtkHorizon = 2
  RtkTolerance = 1
  MinVelocityGap = 1
  ExcludeRecent = 1
  Corrections = {4}
  SmoothingSettings = {50}
INVARIANTS
  GraphInTimeOrder
  SecondGateOnlyAfterLoss
  RtkSingleUse
  RtkOrderFollowsNodes
  RtkQueueSorted
  FinalMapComplete
PROPERTIES
  NearestChosen
