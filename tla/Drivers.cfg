SPECIFICATION DriversSpec
CONSTANTS
  Streams = {lidar, imu}
  Threshold = 2
  RawTimes = {0, 1, 4, 9}
  MaxWait = 3
  MaxTime = 6
  FrameSettings <- TestedFrames
  RingSettings <- TestedRings
  Devices = {"hap", "mid", "other"}
  File <- TwoLidars
  Tracked = {"pcl_data_type", "pattern_mode", "blind_spot_set", "dual_emit_en"}
  SdkInit = {TRUE, FALSE}
  MaxSourceLidar = 3
  MaxInfos = 2
  MaxFailures = 1
  Layouts <- TestedLayouts
  Shapes <- TestedShapes
  Stamps = {98, 100, 103}
  Times <- TestedTimes
  Ulp = 4
  MaxOffset = 31
INVARIANTS
  TimelineHeld
  FramesOnAxis
  QueuesSound
  SamplingConfigured
  ReceivedAsSent
  ConvertersAgree
