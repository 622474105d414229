------------------------------ MODULE FrontEnd ------------------------------
(***************************************************************************)
(* The front end of fast_livo in LIVO mode (class LIVMapper with           *)
(* ImuProcess): the sensor callbacks and their buffers, sync_packages,     *)
(* which cuts the LiDAR points at the image times, and the LIO and VIO     *)
(* steps as far as times are concerned: which interval the IMU data        *)
(* propagate, which points are compensated and what is published.          *)
(*                                                                         *)
(* One thread runs everything: run() alternates between rclcpp::spin_some, *)
(* which may execute any callbacks, and one pass of the loop.  Times are   *)
(* integer ticks; a LiDAR point is its true time and its curvature, the    *)
(* offset the code knows it by.  Estimates are left out.                   *)
(***************************************************************************)
EXTENDS Integers, Sequences, FiniteSets, Functions

CONSTANTS
  ScanTimes,         (* header times a LiDAR scan may have                 *)
  Offsets,           (* offsets of the points of a scan, increasing        *)
  ImageTimes,        (* stamps an image may have                           *)
  ImuTimes,          (* stamps an IMU message may have                     *)
  RtkTimes,          (* stamps a valid RTK fix may have                    *)
  MaxRewinds,        (* times the LiDAR clock may jump back (bound)        *)
  MinImageGap,       (* images closer than this are dropped, 0.02 s        *)
  ExposureTime,      (* exposure_time_init                                 *)
  MaxIniCount,       (* MAX_INI_COUNT, IMU messages of the initialisation  *)
  MaxRtkAge          (* oldest RTK fix a LIO update may use, 0.5 s         *)

ASSUME FrontEndAssumption ==
  /\ ScanTimes \subseteq Nat /\ ImageTimes \subseteq Nat
  /\ ImuTimes \subseteq Nat /\ RtkTimes \subseteq Nat \ {0}
  /\ Offsets \in Seq(Nat) /\ Offsets # <<>>
  /\ \A i, j \in DOMAIN Offsets : i < j => Offsets[i] < Offsets[j]
  /\ MaxRewinds \in Nat /\ MinImageGap \in Nat \ {0} /\ ExposureTime \in Nat
  /\ MaxIniCount \in Nat \ {0} /\ MaxRtkAge \in Nat

VARIABLES
  lid_raw,           (* lid_raw_data_buffer: scans as sequences of points  *)
  lid_header,        (* lid_header_time_buffer                             *)
  last_lidar,        (* last_timestamp_lidar, -1 before the first scan     *)
  img_time,          (* img_buffer and img_time_buffer                     *)
  last_img,
  imu_buffer,
  last_imu_stamp,    (* last_timestamp_imu                                 *)
  rtk_buffer,
  last_rtk,          (* stamp of the last fix received                     *)
  rtk_ini,           (* the RTK frame is aligned with the LIVO frame       *)
  rewinds,
  step,              (* "spin": callbacks and sync_packages; "process"     *)
  lio_vio_flg,
  meas,              (* the newest MeasureGroup                            *)
  pcl_cur, pcl_next, (* pcl_proc_cur, pcl_proc_next                        *)
  last_lio,          (* last_lio_update_time, -1 before the first          *)
  keyframe_time,
  imu_need_init, init_iter_num,
  last_imu,          (* the IMU message propagation resumes from           *)
  last_prop_end,     (* last_prop_end_time                                 *)
  imu_pose,          (* offsets of the poses in IMUpose                    *)
  cloud,             (* time of the cloud in pcl_w_wait_pub, 0 if empty    *)
  published,         (* stamp and cloud time of the last keyframe published *)
  lio,               (* history: the last LIO step                         *)
  delivered, processed, dropped   (* history: times of points              *)

bufferVars == <<lid_raw, lid_header, last_lidar, img_time, last_img, imu_buffer,
                last_imu_stamp, rtk_buffer, last_rtk, rtk_ini, rewinds, delivered>>
syncVars == <<step, lio_vio_flg, meas, pcl_cur, pcl_next, keyframe_time>>
imuVars == <<imu_need_init, init_iter_num, last_imu, last_prop_end, imu_pose>>
outVars == <<cloud, published, lio, processed, dropped>>
vars == <<bufferVars, syncVars, last_lio, imuVars, outVars>>

LastOf(s) == s[Len(s)]
Concat(seqs) ==
  LET flat[i \in 0 .. Len(seqs)] == IF i = 0 THEN <<>> ELSE flat[i - 1] \o seqs[i]
  IN  flat[Len(seqs)]

(* The elements of s at the positions in good, in their order: the loops   *)
(* that go through a buffer and push_back what they keep.                  *)
Kept(s, good) ==
  LET kept[i \in 0 .. Len(s)] ==
        IF i = 0 THEN <<>>
        ELSE IF i \in good THEN Append(kept[i - 1], s[i]) ELSE kept[i - 1]
  IN  kept[Len(s)]
Within(buffer, from, to) == Kept(buffer, {i \in DOMAIN buffer : from < buffer[i] /\ buffer[i] <= to})
After(buffer, to) == Kept(buffer, {i \in DOMAIN buffer : buffer[i] > to})

Times(points) == [i \in DOMAIN points |-> points[i].time]
NoMeasure == [time |-> 0, imu |-> <<>>, rtk |-> 0]
NoLio == [from |-> 0, to |-> 0, covered |-> {}, imus |-> 0, points |-> 0, first |-> 0, rtk |-> 0]

Init ==
  /\ lid_raw = <<>> /\ lid_header = <<>> /\ last_lidar = -1
  /\ img_time = <<>> /\ last_img = -1
  /\ imu_buffer = <<>> /\ last_imu_stamp = -1
  /\ rtk_buffer = <<>> /\ last_rtk = -1 /\ rtk_ini = FALSE
  /\ rewinds = 0
  /\ step = "spin" /\ lio_vio_flg = "WAIT" /\ meas = NoMeasure
  /\ pcl_cur = <<>> /\ pcl_next = <<>>
  /\ last_lio = -1 /\ keyframe_time = 0
  /\ imu_need_init = TRUE /\ init_iter_num = 1
  /\ last_imu = 0
  /\ last_prop_end \in {0, 1000}        (* never initialised by the code   *)
  /\ imu_pose = <<>>
  /\ cloud = 0 /\ published = [stamp |-> 0, cloud |-> 0, previous |-> 0]
  /\ lio = NoLio
  /\ delivered = {} /\ processed = <<>> /\ dropped = <<>>

(***************************************************************************)
(* Callbacks.  Each sensor's messages come in the order of their stamps,   *)
(* any of them may be lost, and sensors interleave freely.                 *)
(***************************************************************************)
ScanAt(head) ==
  [i \in DOMAIN Offsets |-> [time |-> head + Offsets[i], curvature |-> Offsets[i]]]

(* livox_pcl_cbk: a stamp earlier than the last clears the scans, though   *)
(* not their header times; an empty cloud is not stored.                   *)
LidarCallback ==
  /\ step = "spin"
  /\ \E head \in ScanTimes, empty \in BOOLEAN :
       /\ head # last_lidar
       /\ head < last_lidar => rewinds < MaxRewinds
       /\ rewinds' = IF head < last_lidar THEN rewinds + 1 ELSE rewinds
       /\ LET kept == IF head < last_lidar THEN <<>> ELSE lid_raw
          IN  IF empty
                THEN /\ lid_raw' = kept
                     /\ UNCHANGED <<lid_header, last_lidar, delivered>>
                ELSE /\ lid_raw' = Append(kept, ScanAt(head))
                     /\ lid_header' = Append(lid_header, head)
                     /\ last_lidar' = head
                     /\ delivered' = delivered \cup Range(Times(ScanAt(head)))
  /\ UNCHANGED <<img_time, last_img, imu_buffer, last_imu_stamp, rtk_buffer, last_rtk, rtk_ini,
                 syncVars, last_lio, imuVars, outVars>>

(* img_cbk: nothing before the first scan, nothing closer than the gap.    *)
ImageCallback ==
  /\ step = "spin"
  /\ last_lidar >= 0
  /\ \E stamp \in ImageTimes :
       /\ last_img >= 0 => stamp - last_img >= MinImageGap
       /\ img_time' = Append(img_time, stamp)
       /\ last_img' = stamp
  /\ UNCHANGED <<lid_raw, lid_header, last_lidar, imu_buffer, last_imu_stamp, rtk_buffer,
                 last_rtk, rtk_ini, rewinds, delivered, syncVars, last_lio, imuVars, outVars>>

(* imu_cbk: nothing before the first scan, no stamp that goes back; equal  *)
(* stamps, which the code lets pass, are left out.                         *)
ImuCallback ==
  /\ step = "spin"
  /\ last_lidar >= 0
  /\ \E stamp \in ImuTimes :
       /\ stamp > last_imu_stamp
       /\ imu_buffer' = Append(imu_buffer, stamp)
       /\ last_imu_stamp' = stamp
  /\ UNCHANGED <<lid_raw, lid_header, last_lidar, img_time, last_img, rtk_buffer, last_rtk,
                 rtk_ini, rewinds, delivered, syncVars, last_lio, imuVars, outVars>>

(* rtk_cbk with a valid fix; InitializeRTK may succeed once.               *)
RtkCallback ==
  /\ step = "spin"
  /\ \E stamp \in RtkTimes :
       /\ stamp > last_rtk
       /\ rtk_buffer' = Append(rtk_buffer, stamp)
       /\ last_rtk' = stamp
  /\ rtk_ini' \in {rtk_ini, TRUE}
  /\ UNCHANGED <<lid_raw, lid_header, last_lidar, img_time, last_img, imu_buffer,
                 last_imu_stamp, rewinds, delivered, syncVars, last_lio, imuVars, outVars>>

(***************************************************************************)
(* sync_packages                                                           *)
(***************************************************************************)
BuffersFilled == lid_raw # <<>> /\ img_time # <<>> /\ imu_buffer # <<>>
Capture == Head(img_time) + ExposureTime

From == IF last_lio < 0 THEN Head(lid_header) ELSE last_lio
LidNewest == LastOf(lid_header) + LastOf(LastOf(lid_raw)).curvature
DataReach(time) == time <= LidNewest /\ time <= LastOf(imu_buffer)

(* An image not later than the last update is thrown away.                 *)
ThrowImage ==
  /\ step = "spin" /\ lio_vio_flg # "LIO" /\ BuffersFilled
  /\ Capture <= From
  /\ img_time' = Tail(img_time)
  /\ keyframe_time' = Capture
  /\ last_lio' = From
  /\ UNCHANGED <<lid_raw, lid_header, last_lidar, last_img, imu_buffer, last_imu_stamp,
                 rtk_buffer, last_rtk, rtk_ini, rewinds, delivered,
                 step, lio_vio_flg, meas, pcl_cur, pcl_next, imuVars, outVars>>

(* LiDAR or IMU data do not reach the image yet: return false.             *)
WaitForData ==
  /\ step = "spin" /\ lio_vio_flg # "LIO" /\ BuffersFilled
  /\ Capture > From /\ ~DataReach(Capture)
  /\ keyframe_time' = Capture
  /\ last_lio' = From
  /\ UNCHANGED <<bufferVars, step, lio_vio_flg, meas, pcl_cur, pcl_next, imuVars, outVars>>

(* Scans that begin by the image time; the others stay buffered.           *)
ScansToCut == {i \in DOMAIN lid_raw : \A j \in 1 .. i : lid_header[j] <= Capture}

Shift(points, by) ==
  [i \in DOMAIN points |-> [points[i] EXCEPT !.curvature = @ + by]]

(* Mutant: the point at the image time belongs to both intervals.          *)
CutTwice(i) ==
  LET scan == lid_raw[i]
      early == {j \in DOMAIN scan : scan[j].curvature <= Capture - lid_header[i]}
      late == {j \in DOMAIN scan : scan[j].curvature >= Capture - lid_header[i]}
  IN  [early |-> Shift(Kept(scan, early), lid_header[i] - From),
       late |-> Shift(Kept(scan, late), lid_header[i] - Capture)]

(* Mutant: points cut off keep an offset relative to the old interval.     *)
CutWithOldOffset(i) ==
  LET scan == lid_raw[i]
      early == {j \in DOMAIN scan : scan[j].curvature < Capture - lid_header[i]}
  IN  [early |-> Shift(Kept(scan, early), lid_header[i] - From),
       late |-> Shift(Kept(scan, DOMAIN scan \ early), lid_header[i] - From)]

(* The points of a scan before and after the image, with offsets relative  *)
(* to the last update and to the image.                                    *)
Cut(i) ==
  LET scan == lid_raw[i]
      early == {j \in DOMAIN scan : scan[j].curvature < Capture - lid_header[i]}
  IN  [early |-> Shift(Kept(scan, early), lid_header[i] - From),
       late |-> Shift(Kept(scan, DOMAIN scan \ early), lid_header[i] - Capture)]

(* Mutant: the oldest fix of the interval is kept.                         *)
OldestRtk(buffer, from, to) ==
  LET inside == Within(buffer, from, to)
  IN  IF inside = <<>> THEN 0 ELSE inside[1]

(* The newest fix of the interval, 0 if there is none.                     *)
NewestRtk(buffer, from, to) ==
  LET inside == Within(buffer, from, to)
  IN  IF inside = <<>> THEN 0 ELSE LastOf(inside)

SyncLio ==
  /\ step = "spin" /\ lio_vio_flg # "LIO" /\ BuffersFilled
  /\ Capture > From /\ DataReach(Capture)
  /\ keyframe_time' = Capture
  /\ last_lio' = From
  /\ meas' = [time |-> Capture,
              imu |-> Within(imu_buffer, From, Capture),
              rtk |-> IF rtk_ini THEN NewestRtk(rtk_buffer, From, Capture) ELSE 0]
  /\ imu_buffer' = After(imu_buffer, Capture)
  /\ rtk_buffer' = IF rtk_ini THEN After(rtk_buffer, Capture) ELSE rtk_buffer
  /\ LET k == Cardinality(ScansToCut)
         cuts == [i \in 1 .. k |-> Cut(i)]
     IN  /\ pcl_cur' = pcl_next \o Concat([i \in 1 .. k |-> cuts[i].early])
         /\ pcl_next' = Concat([i \in 1 .. k |-> cuts[i].late])
         /\ lid_raw' = SubSeq(lid_raw, k + 1, Len(lid_raw))
         /\ lid_header' = SubSeq(lid_header, k + 1, Len(lid_header))
  /\ lio_vio_flg' = "LIO" /\ step' = "process"
  /\ UNCHANGED <<last_lidar, img_time, last_img, last_imu_stamp, last_rtk, rtk_ini, rewinds,
                 delivered, imuVars, outVars>>

(* After LIO the same image is handed to VIO, once the buffers are filled. *)
SyncVio ==
  /\ step = "spin" /\ lio_vio_flg = "LIO" /\ BuffersFilled
  /\ meas' = [NoMeasure EXCEPT !.time = Capture]
  /\ img_time' = Tail(img_time)
  /\ lio_vio_flg' = "VIO" /\ step' = "process"
  /\ UNCHANGED <<lid_raw, lid_header, last_lidar, last_img, imu_buffer, last_imu_stamp,
                 rtk_buffer, last_rtk, rtk_ini, rewinds, delivered,
                 pcl_cur, pcl_next, keyframe_time, last_lio, imuVars, outVars>>

(***************************************************************************)
(* processImu and stateEstimationAndMapping                                *)
(***************************************************************************)

(* Process2 during the initialisation counts IMU messages and returns; the *)
(* LIO and VIO handlers then find no points.                               *)
InitializeImu ==
  /\ step = "process" /\ imu_need_init
  /\ step' = "spin"
  /\ IF meas.imu = <<>>
       THEN UNCHANGED <<init_iter_num, imu_need_init, last_imu>>
       ELSE /\ init_iter_num' = init_iter_num + Len(meas.imu)
            /\ imu_need_init' = (init_iter_num' <= MaxIniCount)
            /\ last_imu' = LastOf(meas.imu)
  /\ dropped' = IF lio_vio_flg = "LIO" THEN dropped \o Times(pcl_cur) ELSE dropped
  /\ UNCHANGED <<bufferVars, lio_vio_flg, meas, pcl_cur, pcl_next, keyframe_time, last_lio,
                 last_prop_end, imu_pose, cloud, published, lio, processed>>

(***************************************************************************)
(* UndistortPcl: the IMU messages with the last one of the step before,    *)
(* paired as head and tail; each pair propagates an interval of its own.   *)
(***************************************************************************)
ImuSequence == <<last_imu>> \o meas.imu
Pairs == {i \in 1 .. Len(ImuSequence) - 1 : ImuSequence[i + 1] >= last_prop_end}
PairBegin(i) == IF ImuSequence[i] < last_prop_end THEN last_prop_end ELSE ImuSequence[i]

(* Mutant: every pair ends at its tail, the last one too.                  *)
PairEndAtTail(i) == ImuSequence[i + 1]

PairEnd(i) ==
  IF ImuSequence[i] < last_prop_end \/ i # Len(ImuSequence) - 1
    THEN ImuSequence[i + 1]
    ELSE meas.time

Covered == UNION {PairBegin(i) + 1 .. PairEnd(i) : i \in Pairs}
NewPoses ==
  LET n == Cardinality(Pairs)
      skipped == Len(ImuSequence) - 1 - n
  IN  [k \in 1 .. n |-> PairEnd(skipped + k) - last_prop_end]

(***************************************************************************)
(* Backward compensation: for each pose but the first, latest first, every *)
(* point later than the pose before it; the first point ends the inner     *)
(* loop without being left behind.  How often the first point is moved.    *)
(***************************************************************************)
TimesFirstCompensated(points, poses) ==
  LET Earlier(it, head) == {j \in 1 .. it : points[j].curvature <= head}
      back[k \in 0 .. Len(poses) - 1] ==
        IF k = 0 THEN [it |-> Len(points), first |-> 0]
        ELSE LET prev == back[k - 1]
                 head == poses[Len(poses) - k]
                 left == Earlier(prev.it, head)
             IN  IF left = {} THEN [it |-> 1, first |-> prev.first + 1]
                 ELSE [it |-> CHOOSE j \in left : \A m \in left : j >= m, first |-> prev.first]
  IN  back[Len(poses) - 1].first

RtkUsable == meas.rtk # 0 /\ meas.time - meas.rtk <= MaxRtkAge

(* A LIO step.  Without points it propagates the state and leaves its      *)
(* poses behind; with points it updates, and its cloud waits for VIO.      *)
ProcessLio ==
  /\ step = "process" /\ ~imu_need_init /\ lio_vio_flg = "LIO"
  /\ step' = "spin"
  /\ last_lio' = meas.time /\ last_prop_end' = meas.time
  /\ last_imu' = LastOf(ImuSequence)
  /\ LET poses == imu_pose \o <<0>> \o NewPoses
     IN  /\ imu_pose' = IF pcl_cur = <<>> THEN poses ELSE <<>>
         /\ cloud' = IF pcl_cur = <<>> THEN cloud ELSE meas.time
         /\ lio' = [from |-> last_prop_end, to |-> meas.time,
                    covered |-> Covered, imus |-> Len(meas.imu), points |-> Len(pcl_cur),
                    first |-> IF pcl_cur = <<>> THEN 0
                              ELSE TimesFirstCompensated(pcl_cur, poses),
                    rtk |-> IF pcl_cur # <<>> /\ RtkUsable THEN meas.rtk ELSE 0]
  /\ processed' = processed \o Times(pcl_cur)
  /\ UNCHANGED <<bufferVars, lio_vio_flg, meas, pcl_cur, pcl_next, keyframe_time,
                 imu_need_init, init_iter_num, published, dropped>>

(* Mutant: the cloud of a published keyframe is not cleared.               *)
KeepCloud ==
  /\ step = "process" /\ ~imu_need_init /\ lio_vio_flg = "VIO"
  /\ step' = "spin"
  /\ last_lio' = meas.time /\ last_prop_end' = meas.time
  /\ cloud' = cloud
  /\ published' = IF cloud = 0 THEN published
                  ELSE [stamp |-> keyframe_time, cloud |-> cloud, previous |-> published.stamp]
  /\ UNCHANGED <<bufferVars, lio_vio_flg, meas, pcl_cur, pcl_next, keyframe_time,
                 imu_need_init, init_iter_num, last_imu, imu_pose, lio, processed, dropped>>

(* A VIO step propagates over nothing and publishes odometry and cloud.    *)
ProcessVio ==
  /\ step = "process" /\ ~imu_need_init /\ lio_vio_flg = "VIO"
  /\ step' = "spin"
  /\ last_lio' = meas.time /\ last_prop_end' = meas.time
  /\ cloud' = 0
  /\ published' = IF cloud = 0 THEN published
                  ELSE [stamp |-> keyframe_time, cloud |-> cloud, previous |-> published.stamp]
  /\ UNCHANGED <<bufferVars, lio_vio_flg, meas, pcl_cur, pcl_next, keyframe_time,
                 imu_need_init, init_iter_num, last_imu, imu_pose, lio, processed, dropped>>

Next ==
  \/ LidarCallback \/ ImageCallback \/ ImuCallback \/ RtkCallback
  \/ ThrowImage \/ WaitForData \/ SyncLio \/ SyncVio
  \/ InitializeImu \/ ProcessLio \/ ProcessVio

Spec == Init /\ [][Next]_vars

(***************************************************************************)
(* Properties                                                              *)
(***************************************************************************)
LioPending == step = "process" /\ lio_vio_flg = "LIO"

(* Every point of a LIO step lies in the interval being processed, and its *)
(* offset from the last update is its true time: for points cut off an     *)
(* earlier scan as well, and after the initialisation, which holds back    *)
(* the update time.                                                        *)
PointTimesConsistent ==
  LioPending /\ ~imu_need_init =>
    \A i \in DOMAIN pcl_cur :
      /\ last_lio + pcl_cur[i].curvature = pcl_cur[i].time
      /\ last_lio <= pcl_cur[i].time /\ pcl_cur[i].time <= meas.time

(* No point is lost or processed twice: those received are the processed   *)
(* ones, those of the initialisation and those still buffered.             *)
PointsConserved ==
  LET buffered == Concat(lid_raw) \o pcl_next \o (IF LioPending THEN pcl_cur ELSE <<>>)
      all == processed \o dropped \o Times(buffered)
  IN  Range(all) = delivered /\ Cardinality(delivered) = Len(all)

(* A LIO step starts where the last one ended, and with two IMU messages   *)
(* its propagation covers the whole interval.                              *)
MotionCovered ==
  /\ LioPending /\ ~imu_need_init => last_prop_end = last_lio
  /\ lio.imus >= 2 => lio.covered = lio.from + 1 .. lio.to

(* Odometry and cloud of a published keyframe carry the time of the LIO    *)
(* step that made the cloud, and keyframes are published in time order:    *)
(* the back end pairs and orders them by these stamps.                     *)
KeyframesConsistent ==
  /\ published.stamp = published.cloud
  /\ published.stamp # 0 => published.previous < published.stamp

(* A LIO update uses the newest valid RTK fix received in its interval.    *)
NewestRtkUsed ==
  [][LioPending' /\ ~LioPending /\ rtk_ini =>
       \A i \in DOMAIN rtk_buffer :
         rtk_buffer[i] > last_lio' /\ rtk_buffer[i] <= meas'.time => rtk_buffer[i] <= meas'.rtk]_vars

(* The comment of sync_packages: LIO first, then VIO immediately.          *)
VioFollowsImmediately == step = "spin" /\ lio_vio_flg = "LIO" => BuffersFilled

(* "lidar loop back, clear buffer": a buffered scan stays paired with the  *)
(* header time it came with.                                               *)
BuffersPaired ==
  \A i \in DOMAIN lid_raw : lid_header[i] = lid_raw[i][1].time - lid_raw[i][1].curvature

(* "undistort each lidar point": no point is compensated twice.            *)
CompensatedOnce == lio.first <= 1
=============================================================================
