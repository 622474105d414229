---------------------------- MODULE FrontEndModes ----------------------------
(***************************************************************************)
(* The front end of fast_livo without a camera (class LIVMapper with       *)
(* ImuProcess): ONLY_LIO, LiDAR with IMU, and ONLY_LO, LiDAR alone.  Here  *)
(* sync_packages hands over whole scans; FrontEnd models the mode that     *)
(* cuts them at the image times.                                           *)
(*                                                                         *)
(* One thread runs callbacks and loop.  Times are integer ticks; a scan is *)
(* the time of its first point, its number of points and the offset of its *)
(* last one.  Estimates, RTK and the time written to the logs are left out.*)
(***************************************************************************)
EXTENDS Integers, Sequences, FiniteSets

CONSTANTS
  Mode,              (* slam_mode_: "ONLY_LIO" or "ONLY_LO"                *)
  ScanTimes,         (* header times a scan may have                       *)
  Sizes,             (* numbers of points preprocessing may leave          *)
  Span,              (* offset of the last point of a scan with several    *)
  ImuTimes,          (* stamps an IMU message may have                     *)
  MaxIniCount,       (* MAX_INI_COUNT, IMU messages of the initialisation  *)
  StoresEmpty        (* the driver's callback stores empty clouds:         *)
                     (* standard_pcl_cbk does, livox_pcl_cbk does not      *)

(* What an instance of this module gives its constants.                    *)
FrontEndModesAssumption ==
  /\ Mode \in {"ONLY_LIO", "ONLY_LO"} /\ StoresEmpty \in BOOLEAN
  /\ ScanTimes \subseteq Nat \ {0} /\ ImuTimes \subseteq Nat \ {0}
  /\ Sizes \subseteq Nat /\ Span \in Nat \ {0} /\ MaxIniCount \in Nat \ {0}

VARIABLES
  lid_raw, lid_header, last_lidar,       (* as in FrontEnd                 *)
  imu_buffer, last_imu_stamp,
  lidar_pushed,      (* the head scan is in meas and waits for the IMU     *)
  meas,              (* meas.lidar, its begin and end, and the newest IMU  *)
                     (* messages of measures                               *)
  step,              (* "spin", "process", "undefined"                     *)
  imu_need_init, init_iter_num,
  last_imu, last_prop_end,
  time_last_scan,    (* without IMU: begin of the scan before, -1 if none  *)
  keyframe_time,
  published,         (* the last keyframe: its stamp and its cloud's end   *)
  lio,               (* history: interval and motion of the last LIO step  *)
  delivered, handled (* history: scans stored, scans synchronised          *)

lidarVars == <<lid_raw, lid_header, last_lidar, delivered>>
imuBufferVars == <<imu_buffer, last_imu_stamp>>
syncVars == <<lidar_pushed, meas, keyframe_time, handled>>
imuVars == <<imu_need_init, init_iter_num, last_imu, last_prop_end, time_last_scan>>
vars == <<lidarVars, imuBufferVars, syncVars, step, imuVars, published, lio>>

LastOf(s) == s[Len(s)]
NoScan == [head |-> 0, size |-> 0, last |-> 0]
NoLio == [from |-> 0, to |-> 0, imus |-> 0, covered |-> {}, follows |-> FALSE]

Init ==
  /\ lid_raw = <<>> /\ lid_header = <<>> /\ last_lidar = -1 /\ delivered = <<>>
  /\ imu_buffer = <<>> /\ last_imu_stamp = -1
  /\ lidar_pushed = FALSE /\ keyframe_time = 0 /\ handled = <<>>
  /\ meas = [scan |-> NoScan, beg |-> 0, end |-> 0, imu |-> <<>>]
  /\ step = "spin"
  /\ imu_need_init = (Mode = "ONLY_LIO") /\ init_iter_num = 1
  /\ last_imu = 0 /\ last_prop_end \in {0, 1000}   (* never initialised    *)
  /\ time_last_scan = -1
  /\ published = [stamp |-> 0, cloud |-> 0] /\ lio = NoLio

(***************************************************************************)
(* Callbacks.  Scans and IMU messages come in the order of their stamps    *)
(* and any may be lost; FrontEnd models the clock that jumps back.         *)
(***************************************************************************)

(* livox_pcl_cbk returns when preprocessing left no point.                 *)
Stored(size) == size > 0 \/ StoresEmpty

LidarCallback ==
  /\ step = "spin"
  /\ \E head \in ScanTimes, size \in Sizes :
       /\ head > last_lidar /\ Stored(size)
       /\ lid_raw' = Append(lid_raw, [head |-> head, size |-> size,
                                      last |-> IF size > 1 THEN Span ELSE 0])
       /\ delivered' = Append(delivered, head)
       /\ lid_header' = Append(lid_header, head)
       /\ last_lidar' = head
  /\ UNCHANGED <<imuBufferVars, syncVars, step, imuVars, published, lio>>

(* imu_cbk returns at once without imu_en, and before the first scan.      *)
ImuCallback ==
  /\ step = "spin" /\ Mode = "ONLY_LIO" /\ last_lidar >= 0
  /\ \E stamp \in ImuTimes :
       /\ stamp > last_imu_stamp
       /\ imu_buffer' = Append(imu_buffer, stamp)
       /\ last_imu_stamp' = stamp
  /\ UNCHANGED <<lidarVars, syncVars, step, imuVars, published, lio>>

(***************************************************************************)
(* sync_packages, ONLY_LIO                                                 *)
(***************************************************************************)

(* Mutant: the begin of the newest scan received.                          *)
HeadScanNewest == [scan |-> Head(lid_raw), beg |-> LastOf(lid_header),
                   end |-> LastOf(lid_header) + Head(lid_raw).last, imu |-> <<>>]

(* The head scan goes to meas unless it is there; one point or none, and   *)
(* the call returns with the scan left at the head.                        *)
HeadScan == [scan |-> Head(lid_raw), beg |-> Head(lid_header),
             end |-> Head(lid_header) + Head(lid_raw).last, imu |-> <<>>]
Current == IF lidar_pushed THEN meas ELSE HeadScan

(* Mutant: a scan that waits for the IMU is not looked at again.           *)
LioReadyOnce ==
  /\ step = "spin" /\ Mode = "ONLY_LIO"
  /\ lid_raw # <<>> /\ imu_buffer # <<>>
  /\ ~lidar_pushed /\ Head(lid_raw).size > 1

LioReady ==
  /\ step = "spin" /\ Mode = "ONLY_LIO"
  /\ lid_raw # <<>> /\ imu_buffer # <<>>
  /\ lidar_pushed \/ Head(lid_raw).size > 1

ImuReached == last_imu_stamp >= Current.end

WaitImu ==
  /\ LioReady /\ ~ImuReached
  /\ meas' = Current /\ lidar_pushed' = TRUE
  /\ UNCHANGED <<lidarVars, imuBufferVars, keyframe_time, handled, step, imuVars, published, lio>>

Handle(scan, beg) == handled' = Append(handled, [head |-> scan.head, beg |-> beg])

PopScan ==
  /\ lid_raw' = Tail(lid_raw) /\ lid_header' = Tail(lid_header)
  /\ UNCHANGED <<last_lidar, delivered>>

KeyframeAtEnd == Current.end

(* How many messages are popped up to the first one later than the scan.   *)
ImuUpTo(end) == Cardinality({i \in DOMAIN imu_buffer : \A j \in 1 .. i : imu_buffer[j] <= end})

SyncLio ==
  /\ LioReady /\ ImuReached
  /\ meas' = [Current EXCEPT !.imu = SubSeq(imu_buffer, 1, ImuUpTo(Current.end))]
  /\ imu_buffer' = SubSeq(imu_buffer, ImuUpTo(Current.end) + 1, Len(imu_buffer))
  /\ PopScan
  /\ Handle(Current.scan, Current.beg)
  /\ lidar_pushed' = FALSE /\ keyframe_time' = KeyframeAtEnd
  /\ step' = "process"
  /\ UNCHANGED <<last_imu_stamp, imuVars, published, lio>>

(* sync_packages, ONLY_LO: the last point of an empty cloud is read, and   *)
(* what follows is undefined.  The keyframe time is not set.               *)
SyncLo ==
  /\ step = "spin" /\ Mode = "ONLY_LO" /\ lid_raw # <<>>
  /\ meas' = HeadScan
  /\ PopScan
  /\ Handle(Head(lid_raw), Head(lid_header))
  /\ step' = IF Head(lid_raw).size = 0 THEN "undefined" ELSE "process"
  /\ UNCHANGED <<imuBufferVars, lidar_pushed, keyframe_time, imuVars, published, lio>>

(***************************************************************************)
(* processImu and handleLIO                                                *)
(***************************************************************************)
InitializeImu ==
  /\ step = "process" /\ imu_need_init
  /\ step' = "spin"
  /\ IF meas.imu = <<>>
       THEN UNCHANGED <<init_iter_num, imu_need_init, last_imu>>
       ELSE /\ init_iter_num' = init_iter_num + Len(meas.imu)
            /\ imu_need_init' = (init_iter_num' <= MaxIniCount)
            /\ last_imu' = LastOf(meas.imu)
  /\ UNCHANGED <<lidarVars, imuBufferVars, syncVars, last_prop_end, time_last_scan,
                 published, lio>>

(* The ticks UndistortPcl propagates over: pairs of IMU messages, the last *)
(* pair extended to the end of the scan unless it began before the step.   *)
Covered ==
  LET imu == <<last_imu>> \o meas.imu
      From(i) == IF imu[i] < last_prop_end THEN last_prop_end ELSE imu[i]
      To(i) == IF imu[i] < last_prop_end \/ i # Len(imu) - 1 THEN imu[i + 1] ELSE meas.end
  IN  UNION {From(i) + 1 .. To(i) : i \in {k \in 1 .. Len(imu) - 1 : imu[k + 1] >= last_prop_end}}

Publish == published' = [stamp |-> keyframe_time, cloud |-> meas.end]

ProcessLio ==
  /\ step = "process" /\ Mode = "ONLY_LIO" /\ ~imu_need_init
  /\ step' = "spin"
  /\ lio' = [from |-> last_prop_end, to |-> meas.end, imus |-> Len(meas.imu),
             covered |-> Covered, follows |-> lio # NoLio]
  /\ last_prop_end' = meas.end
  /\ last_imu' = LastOf(<<last_imu>> \o meas.imu)
  /\ Publish
  /\ UNCHANGED <<lidarVars, imuBufferVars, syncVars, imu_need_init, init_iter_num, time_last_scan>>

(* Forward_without_imu moves from the begin of the scan before.            *)
ProcessLo ==
  /\ step = "process" /\ Mode = "ONLY_LO"
  /\ step' = "spin"
  /\ time_last_scan' = meas.beg
  /\ Publish
  /\ UNCHANGED <<lidarVars, imuBufferVars, syncVars, imu_need_init, init_iter_num, last_imu,
                 last_prop_end, lio>>

Next ==
  \/ LidarCallback \/ ImuCallback
  \/ WaitImu \/ SyncLio \/ SyncLo
  \/ InitializeImu \/ ProcessLio \/ ProcessLo

(* The loop of run() goes on, and the IMU keeps sending.                   *)
Fairness ==
  /\ WF_vars(SyncLio) /\ WF_vars(SyncLo)
  /\ WF_vars(InitializeImu) /\ WF_vars(ProcessLio) /\ WF_vars(ProcessLo)
  /\ WF_vars(ImuCallback)

Spec == Init /\ [][Next]_vars /\ Fairness

(***************************************************************************)
(* Properties                                                              *)
(***************************************************************************)

(* Types; a waiting scan is the one at the head of the buffer.             *)
TypeOK ==
  /\ step \in {"spin", "process", "undefined"}
  /\ Len(lid_raw) = Len(lid_header) /\ last_lidar \in ScanTimes \cup {-1}
  /\ \A i \in DOMAIN imu_buffer : imu_buffer[i] \in ImuTimes
  /\ init_iter_num \in Nat \ {0} /\ imu_need_init \in BOOLEAN
  /\ lidar_pushed => lid_raw # <<>> /\ meas.scan = Head(lid_raw)

(* Every scan stored is synchronised once, in its order and with its own   *)
(* begin time, or still buffered.                                          *)
ScansConserved ==
  /\ delivered = [i \in DOMAIN handled |-> handled[i].head] \o
                 [i \in DOMAIN lid_raw |-> lid_raw[i].head]
  /\ \A i \in DOMAIN handled : handled[i].beg = handled[i].head

(* A message that arrives after a scan was synchronised is later than the  *)
(* scan: none is lost to the interval it belongs to.                       *)
ImuOfInterval ==
  step = "process" =>
    /\ \A i \in DOMAIN imu_buffer : imu_buffer[i] > meas.end
    /\ \A i \in DOMAIN meas.imu : meas.imu[i] <= meas.end
    /\ Mode = "ONLY_LIO" => last_imu_stamp >= meas.end

(* UndistortPcl: with two IMU messages or more in an interval the state is *)
(* propagated from the end of the last step to the end of the scan; the    *)
(* first step starts from last_prop_end_time, which nothing has set.       *)
MotionCovered == lio.follows /\ lio.imus >= 2 => lio.covered = lio.from + 1 .. lio.to

(* "process lidar topic, so timestamp should be lidar scan end": odometry  *)
(* and cloud of a keyframe carry the end of the scan they come from.       *)
KeyframeStamped == published.stamp = published.cloud

(* No point of an empty cloud is read.                                     *)
NoEmptyRead == step # "undefined"

(* A scan of two points or more at the head of the buffer is synchronised  *)
(* once the IMU has passed it.                                             *)
ScanProcessed ==
  \A head \in ScanTimes :
    (lid_raw # <<>> /\ Head(lid_raw).head = head /\ Head(lid_raw).size > 1)
      ~> (\E i \in DOMAIN handled : handled[i].head = head)

=============================================================================
