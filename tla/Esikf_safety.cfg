SPECIFICATION Spec
CONSTANTS
  MaxStamp = 5
  MaxFrames = 4
  Tracks <- MCTracks
  MaxSpeed = 2
  Origin <- MCOrigin
  LeverArm = 1
  RtkStamps <- MCRtkStamps
  MaxRtk = 3
  SyncTolerance = 1
  MaxGap = 2
  ProcessVariance = 1
  RtkVariance = 1
  InitialVariance = 2
  NisGate = 4
INVARIANTS
  AppliedOnce
  AnchorErrorBounded
PROPERTIES
  GateReopens
  NearestInTolerance
CHECK_DEADLOCK FALSE
