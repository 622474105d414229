SPECIFICATION ProgressSpec
CONSTANTS
  MaxStamp = 2
  MaxCrashes = 1
  MaxInodes = 2
  ReadAttempts = 1
  RemapAfter = 2
  DeleteWhileUp = FALSE
  Configs <- TestedConfigs
  FrameMax = 3
  MaxFrames = 7
  SdkBuffer = 2
  Types = {"tcp", "can", "file", "udp", "serial", "none"}
  Parities = {"None"}
  Formats = {"intel", "other"}
  MaxFds = 4
  MaxSent = 3
  MaxDowns = 2
  Logins = {"user_password", "third_cors", "other"}
  Coordinates = {"CGCS2000"}
  Receiver = "c_rs232"
  NtripDepth = 2
  MaxTimeouts = 2
  MaxFailures = 1
  MaxKicks = 1
  MaxData = 3
  Leaps = {0, 18}
  Stats = {1, 4, 5}
  AcceptFloat = TRUE
  GnssDepth = 3
  MaxTime = 3
INVARIANTS
  ReadIsSnapshot
  CameraConsistent
  ReceiverConsistent
PROPERTIES
  StampsServed
  ShutdownEnds
  ConnectsAgain
  DataTakenUp
