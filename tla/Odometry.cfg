SPECIFICATION OdometrySpec
\* The visual update: three pyramid levels of three iterations.
\* The LiDAR update: two threads, three points and a fix.
CONSTANTS
  Threads = {1, 2}
  Work <- TwoThreads
  LidarIterations = 3
  RtkGood = TRUE
  MapSettings <- TestedMaps
  WindowSettings <- TestedWindows
  CloudSettings <- TestedClouds
  ModeSettings <- TestedModes
  Levels = 3
  MaxIterations = 3
  Errors = {1, 2, 3}
INVARIANTS
  VoxelsSound
  MeasurementComplete
  ReferencesAlive
  VisualStateKept
  PatchesInside
  PointTimesTrue
  ScansSynchronised
