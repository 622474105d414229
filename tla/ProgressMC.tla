------------------------------ MODULE ProgressMC ------------------------------
(***************************************************************************)
(* What must happen in the end, for TLC: the camera driver finds the LiDAR *)
(* stamp again after a restart and stops when it is told to, the Livox     *)
(* driver's threads deliver and end, the receiver's nodes connect, log in  *)
(* and hand every solution on, the odometry without camera takes up every  *)
(* scan.  As in DriversMC the parts share no memory but the stamp, whose   *)
(* two sides are one module, and `part' names the one that moves.          *)
(***************************************************************************)
EXTENDS SharedStamp, Sequences

CONSTANTS
  Configs, FrameMax, MaxFrames, SdkBuffer,                             (* CameraDriver  *)
  Types, Parities, Formats, MaxFds, MaxSent, MaxDowns,                 (* Connector     *)
  Logins, Coordinates, Receiver, NtripDepth, MaxTimeouts, MaxFailures, MaxKicks,
  MaxData,                                                             (* NtripClient   *)
  Leaps, Stats, AcceptFloat, GnssDepth, MaxTime                        (* GnssChain     *)

VARIABLES
  part,
  config, main, info_template, opened, grabbing, exit_flag, exposed, buffer, gap, worker,
  last_number, reported, lost, published,                              (* CameraDriver  *)
  wr, rd, stored, slot, list, count, sampling, producer, consumer, publishers, exit, fifo,
  nextId, scanned,                                                     (* LivoxQueues   *)
  run, kind, params, parity, port, status, fds, socketfd, leaks, address, up, downs, inbox,
  sent, received,                                                      (* Connector     *)
  login, str_coordinate, coordinate, frame_id, swas_status, auth_flag, calib_flag,
  socket_flag, pc, caller, sdk, session, authOf, uploads, write, data, waits, failures,
  kicks,                                                               (* NtripClient   *)
  now, sentences, own, ready, g_leaps, lastPvt, lastImu, pvts, fixes, adapter, rejected,
  solutions,                                                           (* GnssChain     *)
  lid_raw, lid_header, last_lidar, imu_buffer, last_imu_stamp, lidar_pushed, meas, step,
  imu_need_init, init_iter_num, last_imu, last_prop_end, time_last_scan, keyframe_time,
  keyframe, lio, delivered, handled                                    (* FrontEndModes *)

cameraDriver == <<config, main, info_template, opened, grabbing, exit_flag, exposed, buffer,
                  gap, worker, last_number, reported, lost, published>>
queueVars == <<wr, rd, stored, slot, list, count, sampling, producer, consumer, publishers,
               exit, fifo, nextId, scanned>>
connectorVars == <<run, kind, params, parity, port, status, fds, socketfd, leaks, address,
                   up, downs, inbox, sent, received>>
ntripVars == <<login, str_coordinate, coordinate, frame_id, swas_status, auth_flag,
               calib_flag, socket_flag, pc, caller, sdk, session, authOf, uploads, write,
               data, waits, failures, kicks>>
gnssVars == <<now, sentences, own, ready, g_leaps, lastPvt, lastImu, pvts, fixes, adapter,
              rejected, solutions>>
modeVars == <<lid_raw, lid_header, last_lidar, imu_buffer, last_imu_stamp, lidar_pushed,
              meas, step, imu_need_init, init_iter_num, last_imu, last_prop_end,
              time_last_scan, keyframe_time, keyframe, lio, delivered, handled>>
allVars == <<part, vars, cameraDriver, queueVars, connectorVars, ntripVars, gnssVars, modeVars>>

-----------------------------------------------------------------------------
(* Camera: a triggered one whose calibration was made at another           *)
(* resolution, a free-running one with a projection matrix, and settings   *)
(* that main must refuse.                                                  *)
Triggered ==
  [width |-> 4, height |-> 2, d |-> <<1>>, k |-> <<8, 0, 4, 0, 8, 2, 0, 0, 1>>,
   r |-> <<>>, p |-> <<>>, scale |-> 5, sensor |-> <<16, 12>>, trigger |-> TRUE,
   serial |-> "a", devices |-> {"a", "b"}]
FreeRunning ==
  [Triggered EXCEPT !.p = <<8, 0, 4, 4, 0, 8, 2, 2, 0, 0, 1, 0>>, !.scale = 0,
                    !.trigger = FALSE, !.devices = {"b"}]
TestedConfigs ==
  {Triggered, FreeRunning, [Triggered EXCEPT !.k = <<8, 0, 4>>],
   [Triggered EXCEPT !.serial = ""]}
Cam == INSTANCE CameraDriver

(* Queues: publishing takes less than a period.  A format with a message   *)
(* type and one without.                                                   *)
Ros == INSTANCE LivoxQueues WITH
  Lidars <- {1}, Ring <- TRUE, MinQueueSize <- 2, PublishFreq <- 1, MaxFrame <- 1,
  IndexMod <- 4, Format <- "PointCloud2", MultiTopic <- FALSE, Ids <- 0 .. 3, Paced <- TRUE,
  EmptyIds <- {1}, MaxList <- 2
Pcl == INSTANCE LivoxQueues WITH
  Lidars <- {1}, Ring <- TRUE, MinQueueSize <- 2, PublishFreq <- 1, MaxFrame <- 1,
  IndexMod <- 4, Format <- "Pcl", MultiTopic <- FALSE, Ids <- 0 .. 3, Paced <- TRUE,
  EmptyIds <- {1}, MaxList <- 2

(* Receiver: every connector, a device that comes and goes; every login    *)
(* with timeouts and refusals; frames of every kind, good and damaged.     *)
Conn == INSTANCE Connector WITH config <- params, failures <- leaks
Ntrip == INSTANCE NtripClient WITH timeouts <- waits, QueueDepth <- NtripDepth
Gnss == INSTANCE GnssChain WITH published <- pvts, QueueDepth <- GnssDepth

(* Odometry without camera: scans of no point, one and two.                *)
Lio == INSTANCE FrontEndModes WITH
  published <- keyframe,
  Mode <- "ONLY_LIO", ScanTimes <- {1, 4, 7}, Sizes <- {0, 1, 2}, Span <- 2,
  ImuTimes <- {2, 3, 4, 6, 7, 9}, MaxIniCount <- 1, StoresEmpty <- FALSE

ASSUME ProgressAssumption ==
  /\ Cam!CameraAssumption /\ Ros!QueuesAssumption /\ Pcl!QueuesAssumption
  /\ Conn!ConnectorAssumption /\ Ntrip!NtripAssumption /\ Gnss!GnssAssumption
  /\ Lio!FrontEndModesAssumption

-----------------------------------------------------------------------------
Parts == {"share", "camera", "ros", "pcl", "connector", "ntrip", "gnss", "lio"}

AnyOf(S) == CHOOSE x \in S : TRUE

(* A part that does not move is in one of its initial states.              *)
ProgressInit ==
  /\ part \in Parts
  /\ Init
  /\ Cam!Init /\ (part # "camera" => config = AnyOf(Configs))
  /\ Ros!Init
  /\ Conn!Init
  /\ part # "connector" => kind = AnyOf(Types) /\ params.format = AnyOf(Formats)
                           /\ params.parity = AnyOf(Parities) /\ up
  /\ Ntrip!Init
  /\ part # "ntrip" => login = AnyOf(Logins) /\ str_coordinate = AnyOf(Coordinates)
  /\ Gnss!Init
  /\ Lio!Init /\ (part # "lio" => last_prop_end = 0)

Groups == {"share", "camera", "queues", "connector", "ntrip", "gnss", "lio"}

Still(g) ==
  CASE g = "share" -> UNCHANGED vars
    [] g = "camera" -> UNCHANGED cameraDriver
    [] g = "queues" -> UNCHANGED queueVars
    [] g = "connector" -> UNCHANGED connectorVars
    [] g = "ntrip" -> UNCHANGED ntripVars
    [] g = "gnss" -> UNCHANGED gnssVars
    [] g = "lio" -> UNCHANGED modeVars

(* Nothing but this group of variables changes.                            *)
Only(g) == UNCHANGED part /\ \A h \in Groups \ {g} : Still(h)

(* The program has ended, or the messages of a run have.                   *)
Rests == part \in {"camera", "gnss", "lio"} /\ UNCHANGED allVars

ProgressNext ==
  \/ part = "share" /\ Next /\ Only("share")
  \/ part = "camera" /\ Cam!Next /\ Only("camera")
  \/ part = "ros" /\ Ros!Next /\ Only("queues")
  \/ part = "pcl" /\ Pcl!Next /\ Only("queues")
  \/ part = "connector" /\ Conn!Next /\ Only("connector")
  \/ part = "ntrip" /\ Ntrip!Next /\ Only("ntrip")
  \/ part = "gnss" /\ Gnss!Next /\ Only("gnss")
  \/ part = "lio" /\ Lio!Next /\ Only("lio")
  \/ Rests

-----------------------------------------------------------------------------
(* Fairness, the one each module states, for the part that moves.          *)

(* A launch file keeps both processes running, so each takes its next      *)
(* step; a retried call (open, ftruncate, mmap on either side) does not    *)
(* fail for ever, and the deadline of a wait passes.                       *)
ShareFair ==
  LET on == part = "share"
  IN /\ WF_vars(on /\ StartDriver) /\ SF_vars(on /\ OpenShare) /\ SF_vars(on /\ SizeShare)
     /\ SF_vars(on /\ ClearHigh) /\ WF_vars(on /\ ClearLow) /\ WF_vars(on /\ StoreLow)
     /\ WF_vars(on /\ StoreEven) /\ WF_vars(on /\ FrameUnshared) /\ SF_vars(on /\ FrameMaps)
     /\ WF_vars(on /\ FrameMapped) /\ WF_vars(on /\ Poll) /\ WF_vars(on /\ ReadBefore)
     /\ WF_vars(on /\ ReadLow) /\ WF_vars(on /\ ReadAfter) /\ SF_vars(on /\ WaitTimesOut)

(* Both threads of the camera driver go on as long as they can.            *)
CameraFair ==
  /\ WF_cameraDriver(part = "camera" /\ Cam!Main)
  /\ WF_cameraDriver(part = "camera" /\ Cam!Worker)

(* Threads run, buffers drain, the lidar goes on sending while the node    *)
(* exists, and a destructor that was called goes on.                       *)
OneOf(ros, pcl) == (part = "ros" /\ ros) \/ (part = "pcl" /\ pcl)
QueuesFair ==
  /\ WF_queueVars(OneOf(Ros!Consumer, Pcl!Consumer))
  /\ WF_queueVars(OneOf(Ros!Producer, Pcl!Producer))
  /\ WF_queueVars(OneOf(Ros!Drain(1), Pcl!Drain(1)))
  /\ SF_queueVars(OneOf(Ros!NewFrame({1}), Pcl!NewFrame({1})))
  /\ WF_queueVars(OneOf(exit # "no" /\ Ros!Destructor, exit # "no" /\ Pcl!Destructor))

(* The parser's loop never rests; nothing is assumed of the device.        *)
ConnectorFair ==
  LET on == part = "connector"
  IN /\ WF_connectorVars(on /\ Conn!Launch) /\ WF_connectorVars(on /\ Conn!Connect)
     /\ WF_connectorVars(on /\ Conn!ReadData) /\ WF_connectorVars(on /\ Conn!ReadEmpty)
     /\ WF_connectorVars(on /\ Conn!ReadGone)

(* The executor's thread polls and is never blocked for good, the receiver *)
(* sends a sentence every second, and the SDK answers in the end.          *)
NtripFair ==
  LET on == part = "ntrip"
  IN /\ WF_ntripVars(on /\ Ntrip!Main) /\ WF_ntripVars(on /\ Ntrip!ConnectStart)
     /\ WF_ntripVars(on /\ Ntrip!WaitSocket) /\ WF_ntripVars(on /\ Ntrip!Calib)
     /\ WF_ntripVars(on /\ Ntrip!WaitCalib) /\ WF_ntripVars(on /\ Ntrip!Auth)
     /\ WF_ntripVars(on /\ Ntrip!WaitAuth) /\ WF_ntripVars(on /\ Ntrip!WaitRunsOut)
     /\ WF_ntripVars(on /\ Ntrip!ConnectSuccess) /\ WF_ntripVars(on /\ Ntrip!Gga)
     /\ WF_ntripVars(on /\ Ntrip!Cleanup) /\ WF_ntripVars(on /\ Ntrip!Upload)
     /\ WF_ntripVars(on /\ Ntrip!status_callback) /\ WF_ntripVars(on /\ Ntrip!calib_callback)
     /\ WF_ntripVars(on /\ Ntrip!AuthSucceeds)

(* The executors of the two nodes serve what is ready.                     *)
GnssFair ==
  LET on == part = "gnss"
  IN /\ WF_gnssVars(on /\ Gnss!Wait) /\ WF_gnssVars(on /\ Gnss!hc_sentence_callback)
     /\ WF_gnssVars(on /\ Gnss!pvt_callback) /\ WF_gnssVars(on /\ Gnss!callback)

(* The loop of run() goes on, and the IMU keeps sending.                   *)
LioFair ==
  LET on == part = "lio"
  IN /\ WF_modeVars(on /\ Lio!SyncLio) /\ WF_modeVars(on /\ Lio!InitializeImu)
     /\ WF_modeVars(on /\ Lio!ProcessLio) /\ WF_modeVars(on /\ Lio!ImuCallback)

ProgressSpec ==
  /\ ProgressInit /\ [][ProgressNext]_allVars
  /\ ShareFair /\ CameraFair /\ QueuesFair /\ ConnectorFair /\ NtripFair /\ GnssFair /\ LioFair

-----------------------------------------------------------------------------
(* WaitForNextSharedTimestamp: no frame gets the stamp of an earlier one   *)
(* or an older one.  GetTimestampShare and CleanupTimestampShare: the      *)
(* camera always finds its way back to the file the driver writes to,      *)
(* after a restart of the driver and after the file was deleted.           *)
StampsServed == StampsIncrease /\ (part = "share" => Reattaches)

(* WorkThread: the frames reported as missed are those lost on the way,    *)
(* over the turn of the camera's counter; the device is used only while it *)
(* is open and grabbing; the CameraInfo of an image has its size.          *)
CameraConsistent ==
  part = "camera" =>
    Cam!TypeOK /\ Cam!FrameAccounting /\ Cam!WorkerHasDevice /\ Cam!InfoFitsImage

(* connect() of the NTRIP client takes no callback of an earlier session   *)
(* for its own login; a connector's open descriptors are its connection    *)
(* and those its failed attempts left; the protocol node stamps IMU data   *)
(* and solutions with one clock, keeps its own topic short, and a solution *)
(* the adapter hands on as fixed is a fix in the standard message too.     *)
ReceiverConsistent ==
  /\ part = "ntrip" => Ntrip!TypeOK /\ Ntrip!SuccessIsCurrent
  /\ part = "connector" => Conn!TypeOK /\ Conn!DescriptorsAccounted
  /\ part = "gnss" => Gnss!ImuOnPvtClock /\ Gnss!OwnTopicBounded /\ Gnss!JudgedAlike

(* After SIGINT main of the camera driver returns, wherever it and the     *)
(* thread are; ~DriverNode of the Livox driver returns from its joins      *)
(* while data comes, in every format.                                      *)
ShutdownEnds ==
  /\ part = "camera" => Cam!InterruptEnds
  /\ part = "ros" => Ros!DestructorReturns
  /\ part = "pcl" => Pcl!DestructorReturns

(* read() and connect(): as long as descriptors are left, a connector is   *)
(* connected again when the device stays, however often it went away; and  *)
(* after finitely many timeouts and refusals the NTRIP client is logged in.*)
ConnectsAgain ==
  /\ part = "connector" => Conn!ReconnectsWhileFds
  /\ part = "ntrip" => Ntrip!LogsIn

(* While data comes a packet of a sampling lidar is taken from its ring,   *)
(* unless the node is being destroyed; every solution published reaches    *)
(* both of its readers; a scan of two points or more at the head of the    *)
(* buffer is synchronised once the IMU has passed it.                      *)
DataTakenUp ==
  /\ part = "ros" => Ros!Delivered
  /\ part = "gnss" => Gnss!EverySolutionRead
  /\ part = "lio" => Lio!ScanProcessed
=============================================================================
