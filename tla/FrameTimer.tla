------------------------------ MODULE FrameTimer ------------------------------
(***************************************************************************)
(* PubHandler of the Livox driver: packets from the SDK's callback thread  *)
(* wait in raw_packet_queue_ until the processing thread converts them to  *)
(* points, accumulates them by lidar and cuts the stream into frames.      *)
(* With a synchronised clock a frame is cut where the stamps cross a fixed *)
(* axis of publish periods; without one, whenever the wall clock says so,  *)
(* for all lidars at once.  Which of the two is decided by a global flag   *)
(* that the callback of the newest packet wrote, not the packet at hand.   *)
(***************************************************************************)
EXTENDS Integers, Sequences, FiniteSets

CONSTANTS
  Lidars,           (* handles of the lidars sending packets               *)
  Interval,         (* publish_interval_                                   *)
  PointStep,        (* point_interval: the two points of a packet          *)
  Gaps,             (* time between the stamps of packets of a lidar       *)
  Kinds,            (* data types of packets (the last one of four known)  *)
  ConfiguredType,   (* pcl_data_type of the configuration                  *)
  SyncTypes,        (* whether packets come with a synchronised stamp      *)
  Translation,      (* configured extrinsic translation, mm                *)
  Position,         (* where the points are, in the lidar's frame, mm      *)
  MaxPackets,       (* packets of a lidar (bound)                          *)
  MaxQueue,         (* packets waiting (bound)                             *)
  MaxLag            (* wall clock behind its next frame (bound)            *)

(* What an instance of this module gives its constants.                    *)
FrameTimerAssumption ==
  /\ Interval \in Nat \ {0} /\ PointStep \in Nat
  /\ Gaps \subseteq Nat \ {0} /\ MaxLag \in Nat
  /\ SyncTypes \subseteq BOOLEAN /\ Translation \in Int /\ Position \in Int

VARIABLES
  sync,             (* is_timestamp_sync_                                  *)
  queue,            (* raw_packet_queue_                                   *)
  pc,               (* the processing thread                               *)
  raw,              (* raw_data, the packet it has taken, if any           *)
  cloud,            (* points_clouds_ of each LidarPubHandler              *)
  next_publish,     (* next_publish_timestamp_ns_                          *)
  first,            (* static first of CheckTimer                          *)
  lag,              (* wall clock minus last_pub_time_                     *)
  quit,             (* is_quit_                                            *)
  frames,           (* history: frames with points of each lidar           *)
  out,              (* history: stamps of the points published             *)
  sent,             (* history: stamps of the points received              *)
  packets,          (* packets received of each lidar, and the last stamp  *)
  unsynced          (* history: an unsynchronised packet has been seen     *)

timer == <<cloud, next_publish, first, lag>>
history == <<frames, out>>
vars == <<sync, queue, pc, raw, timer, quit, history, sent, packets, unsynced>>

Init ==
  /\ sync = FALSE /\ queue = <<>> /\ pc = "loop" /\ raw = <<>>
  /\ cloud = [l \in Lidars |-> <<>>]
  /\ next_publish = [l \in Lidars |-> 0]
  /\ first = TRUE /\ lag = 0 /\ quit = FALSE
  /\ frames = [l \in Lidars |-> 0]
  /\ out = [l \in Lidars |-> <<>>] /\ sent = [l \in Lidars |-> <<>>]
  /\ packets = [l \in Lidars |-> [count |-> 0, stamp |-> 0]]
  /\ unsynced = FALSE

-----------------------------------------------------------------------------
(* Conversion of points.  Lengths are in millimetres; a raw coordinate is  *)
(* in millimetres (High, Spherical depth) or in centimetres (Low).         *)

KnownKinds == {"High", "Low", "Spherical"}
RawUnit(kind) == IF kind = "Low" THEN 10 ELSE 1

(* InitLivoxLidar gives the translation in the unit of the configured      *)
(* type (a division of integers, towards zero).                            *)
ExtParam ==
  IF ConfiguredType # "Low" THEN Translation
  ELSE IF Translation >= 0 THEN Translation \div 10 ELSE -((-Translation) \div 10)

(* ProcessCartesianHighPoint, ProcessCartesianLowPoint and                 *)
(* ProcessSphericalPoint: raw coordinate plus translation, in the unit of  *)
(* the packet (spherical points are converted to metres first).            *)
Compensate(kind) == (Position \div RawUnit(kind) + ExtParam) * RawUnit(kind)

(* The points of a packet, in the order and with the stamps the three      *)
(* loops give them; an unknown type adds none.                             *)
PointsOf(p) ==
  IF p.kind \notin KnownKinds THEN <<>>
  ELSE [i \in 1 .. 2 |-> [time |-> p.stamp + (i - 1) * PointStep, x |-> Compensate(p.kind)]]

StampsOf(points) == [i \in DOMAIN points |-> points[i].time]

-----------------------------------------------------------------------------
(* OnLivoxLidarPointCloudCallback with a point packet, on the SDK's        *)
(* thread: the flag is written first.  Stamps come from StampNormalizer    *)
(* and increase.                                                           *)
OnPointCloud(l, gap, kind, synced) ==
  LET p == [lidar |-> l, stamp |-> packets[l].stamp + gap, kind |-> kind]
  IN /\ packets[l].count < MaxPackets /\ Len(queue) < MaxQueue
     /\ sync' = synced
     /\ queue' = Append(queue, p)
     /\ packets' = [packets EXCEPT ![l] = [count |-> @.count + 1, stamp |-> p.stamp]]
     /\ sent' = [sent EXCEPT ![l] = @ \o StampsOf(PointsOf(p))]
     /\ unsynced' = (unsynced \/ ~synced)
     /\ UNCHANGED <<pc, raw, timer, quit, history>>

(* An IMU packet goes to its own queue; it too writes the flag.            *)
OnImuData(synced) ==
  /\ sync' = synced
  /\ unsynced' = (unsynced \/ ~synced)
  /\ UNCHANGED <<queue, pc, raw, timer, quit, history, sent, packets>>

(* Uninit, RequestExit.                                                    *)
RequestExit ==
  /\ quit' = TRUE
  /\ UNCHANGED <<sync, queue, pc, raw, timer, history, sent, packets, unsynced>>

-----------------------------------------------------------------------------
(* RawDataProcess.                                                         *)

Idle == UNCHANGED <<sync, timer, quit, history, sent, packets, unsynced>>

Take ==
  /\ raw' = <<Head(queue)>> /\ queue' = Tail(queue) /\ pc' = "process"

LoopTest ==
  /\ pc = "loop"
  /\ IF quit THEN pc' = "done" /\ UNCHANGED <<raw, queue>>
     ELSE IF queue = <<>> THEN pc' = "waiting" /\ UNCHANGED <<raw, queue>>
     ELSE Take
  /\ Idle

(* wait_for returns on a packet, after 500 ms or for no reason, and the    *)
(* queue is tested again.                                                  *)
WaitFor ==
  /\ pc = "waiting"
  /\ IF queue = <<>> THEN pc' = "loop" /\ UNCHANGED <<raw, queue>> ELSE Take
  /\ Idle

BaseTime(points) == IF points = <<>> THEN 0 ELSE points[1].time
RecentTime(points) == IF points = <<>> THEN 0 ELSE points[Len(points)].time

(* The first boundary of the axis beyond a time.                           *)
Boundary(from, time) == from + Interval * ((time - from) \div Interval + 1)

(* Publishes the clouds of a set of lidars, leaving them empty; lidars     *)
(* without points are passed over.                                         *)
Publish(ready, clouds) ==
  LET full == {l \in ready : clouds[l] # <<>>}
  IN /\ frames' = [l \in Lidars |-> frames[l] + IF l \in full THEN 1 ELSE 0]
     /\ out' = [l \in Lidars |-> out[l] \o IF l \in full THEN StampsOf(clouds[l]) ELSE <<>>]
     /\ cloud' = [l \in Lidars |-> IF l \in ready THEN <<>> ELSE clouds[l]]

(* The axis starts one period after the first point.                       *)
AxisOf(l, points) ==
  IF next_publish[l] = 0 THEN BaseTime(points) + Interval ELSE next_publish[l]

(* CheckTimer with synchronisation: the lidar at hand, on its axis; a      *)
(* packet beyond several boundaries closes one frame.                      *)
CheckTimerSynced(l, clouds) ==
  LET recent == RecentTime(clouds[l])
      base == BaseTime(clouds[l])
      axis == AxisOf(l, clouds[l])
  IN IF recent = 0 \/ base = 0 \/ recent < base
     THEN /\ cloud' = clouds /\ UNCHANGED <<next_publish, history>>
     ELSE IF recent < axis
     THEN /\ next_publish' = [next_publish EXCEPT ![l] = axis]
          /\ cloud' = clouds /\ UNCHANGED history
     ELSE /\ Publish({l}, clouds)
          /\ next_publish' = [next_publish EXCEPT ![l] = Boundary(axis, recent)]

(* Mutant: the clouds are published but not taken.                         *)
UnsyncedKeepsClouds(clouds, elapsed) ==
  /\ UNCHANGED next_publish
  /\ IF first \/ lag + elapsed < Interval THEN UNCHANGED history
     ELSE /\ frames' = [l \in Lidars |-> frames[l] + 1]
          /\ out' = [l \in Lidars |-> out[l] \o StampsOf(clouds[l])]
  /\ cloud' = clouds
  /\ first' = FALSE
  /\ lag' = IF first THEN 0
            ELSE IF lag + elapsed < Interval THEN lag + elapsed ELSE lag + elapsed - Interval

(* CheckTimer without: every lidar, once the wall clock is a period past   *)
(* the last publication; the first call only starts the clock.             *)
CheckTimerUnsynced(clouds, elapsed) ==
  /\ UNCHANGED next_publish
  /\ IF first \/ lag + elapsed < Interval
     THEN cloud' = clouds /\ UNCHANGED history
     ELSE Publish(Lidars, clouds)
  /\ first' = FALSE
  /\ lag' = IF first THEN 0
            ELSE IF lag + elapsed < Interval THEN lag + elapsed ELSE lag + elapsed - Interval

(* PointCloudProcess and CheckTimer for the packet taken.                  *)
Process(elapsed) ==
  LET clouds == [cloud EXCEPT ![raw[1].lidar] = @ \o PointsOf(raw[1])]
  IN /\ pc = "process"
     /\ IF sync
        THEN CheckTimerSynced(raw[1].lidar, clouds) /\ UNCHANGED <<first, lag>>
        ELSE lag + elapsed <= MaxLag /\ CheckTimerUnsynced(clouds, elapsed)
     /\ raw' = <<>> /\ pc' = "loop"
     /\ UNCHANGED <<sync, queue, quit, sent, packets, unsynced>>

Thread == LoopTest \/ WaitFor \/ \E elapsed \in 0 .. MaxLag : Process(elapsed)

Next ==
  \/ \E l \in Lidars, gap \in Gaps, kind \in Kinds, synced \in SyncTypes :
       OnPointCloud(l, gap, kind, synced)
  \/ \E synced \in SyncTypes : OnImuData(synced)
  \/ RequestExit
  \/ Thread

Spec == Init /\ [][Next]_vars

-----------------------------------------------------------------------------
Packet == [lidar : Lidars, stamp : Nat, kind : Kinds]

TypeOK ==
  /\ sync \in BOOLEAN /\ quit \in BOOLEAN /\ first \in BOOLEAN
  /\ queue \in Seq(Packet)
  /\ pc \in {"loop", "waiting", "process", "done"}
  /\ (pc = "process") = (raw # <<>>)
  /\ lag \in 0 .. MaxLag
  /\ next_publish \in [Lidars -> Nat]

(* The packets on their way, and those among them that bring points of a  *)
(* lidar.                                                                  *)
UnderWay == raw \o queue
Bringing(ps, l) == {k \in DOMAIN ps : ps[k].lidar = l /\ ps[k].kind \in KnownKinds}
PointsBefore(ps, l, k) == 2 * Cardinality({j \in Bringing(ps, l) : j < k})

(* No point is lost, repeated or put out of order between the callback and *)
(* the frames, whatever the clocks and the flag do: what was received is   *)
(* what was published, then the cloud waiting, then the packets under way, *)
(* each at the place that the points before it leave.                      *)
PointsConserved ==
  \A l \in Lidars :
    LET done == Len(out[l]) + Len(cloud[l])
    IN /\ Len(sent[l]) = done + 2 * Cardinality(Bringing(UnderWay, l))
       /\ \A i \in DOMAIN out[l] : sent[l][i] = out[l][i]
       /\ \A i \in DOMAIN cloud[l] : sent[l][Len(out[l]) + i] = cloud[l][i].time
       /\ \A k \in Bringing(UnderWay, l), i \in 1 .. 2 :
            sent[l][done + PointsBefore(UnderWay, l, k) + i] = PointsOf(UnderWay[k])[i].time

(* The fixed axis: with synchronised stamps throughout, the boundary ahead *)
(* is a whole number of periods after the first point of the lidar, every  *)
(* point waiting is before it, and no more frames have been published than *)
(* periods have passed: the frame rate does not drift.                     *)
FixedAxis ==
  ~unsynced => \A l \in Lidars : next_publish[l] # 0 =>
    LET start == Head(sent[l])
    IN /\ (next_publish[l] - start) % Interval = 0
       /\ \A i \in DOMAIN cloud[l] : cloud[l][i].time < next_publish[l]
       /\ frames[l] * Interval < next_publish[l] - start

(* The translation of a configured lidar is applied in the unit of its     *)
(* points when packets have the configured type: the raw coordinate and    *)
(* the translation are each off by less than a centimetre.                 *)
TranslationInUnit ==
  Kinds \intersect KnownKinds \subseteq {ConfiguredType} =>
    \A l \in Lidars : \A i \in DOMAIN cloud[l] :
      LET off == cloud[l][i].x - (Position + Translation) IN -20 < off /\ off < 20

=============================================================================
