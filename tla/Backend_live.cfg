SPECIFICATION Spec
CONSTANTS
  MaxStamp = 4
  Poses = {0, 2}
  RtkStamps = {}
  VelocityStamps = {}
  KeyframeMotion = 2
  KeyframeTime = 3
  MaxPending = 2
  MaxRtk = 1
  RtkHorizon = 2
  RtkTolerance = 1
  MinVelocityGap = 1
  ExcludeRecent = 2
  Corrections = {8, 16}
  SmoothingSettings = {0, 250, 2000}
PROPERTIES
  ImplementsChannel
  StopOutsideWindowReturns
  SaveOutsideWindowServed
  CorrectionEased
