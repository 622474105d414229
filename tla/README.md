# TLA+ models of FAST-LIVO-RTK

This directory holds a formal model of FAST-LIVO-RTK: the sensor drivers, the
nodes that carry their data, the odometry with its maps, the global back end and
the real-time global filter. TLC checks every model on small instances; TLAPS
proves, for every value of their parameters, the safety properties of the back end,
the filter, the front end in all its modes, the preprocessing, the LiDAR and the
visual update, the visual map and its patches, the LiDAR driver's stamps, frames, rings
and configuration, the camera driver, the stamp both drivers share, the receiver's
connectors, login and protocol nodes, and the point cloud converters.

Paths below are relative to `src/src/` unless they start with `src/`.
Definitions keep the names of the C++ members and functions they stand for;
`PROJECT.json` maps each of them to its lines.

## 1. The system

A vehicle carries a Livox LiDAR with its IMU, an industrial camera and a CHCNAV
RTK receiver. One ROS 2 node per device publishes its data, the node `fast_livo`
estimates the trajectory and builds the map.

| Part | State it keeps | Operations | Hard behaviour |
|---|---|---|---|
| Front end, `fast_livo/src/LIVMapper.cpp` | buffers of scans, header times, images, IMU messages and RTK fixes; the LIO/VIO flag; the cloud being processed and the one cut off | sensor callbacks, `sync_packages`, `processImu`, `handleLIO`, `handleVIO` | sensors interleave freely; a scan is cut at the image time and its halves belong to different updates |
| IMU processing, `IMU_Processing.cpp` | initialisation count, last IMU message, end of the last propagation, `IMUpose` | `Process2`, `UndistortPcl`, `Forward_without_imu` | intervals must join across updates; backward walk over poses and points |
| Preprocessing, `preprocess.cpp` | the cloud at hand, per-ring yaw and time | one handler per LiDAR | times computed from angles, points out of order |
| Voxel map and LiDAR update, `voxel_map.cpp` | octrees in a hash map, the sliding window, the iterated filter | `BuildVoxelMap`, `UpdateVoxelMap`, `mapSliding`, `StateEstimation` | nodes that are fitted, divided and frozen; a parallel search with shared bits |
| Visual odometry, `vio.cpp`, `visual_point.cpp` | sparse map of points with their patches, grid of the image, pyramid state | `processFrame` and the ten steps it calls | pointers to features that are deleted; a state that goes back when the error grows |
| Global back end, `optimization.cpp` | keyframe queue, RTK queue, factor graph, `map`-to-`odom` correction, stop and save flags | `syncedCallback`, `gpsHandler`, `localOdometryCallback`, `saveMapService`, the destructor; `backendWorker` | a second thread, a condition variable with two atomic flags outside its mutex, a bounded queue that drops, RTK out of order |
| Real-time global filter, `global_esikf.cpp` | RTK queue, last local pose, global pose and covariance | `pushRtk`, `processLivo` | gaps, jumps back, late observations, a gate that refuses measurements |
| LiDAR driver, `livox_ros_driver2` | timelines of the devices, raw packet queue, frames, rings, semaphores, index table, mapped time stamp | SDK callbacks, packet thread, poll threads, shutdown | several threads, volatile indices without a lock, commands that time out |
| Camera driver, `mvs_ros2_driver` | device state, frame counter, mapped time stamp | set-up, triggered grabbing, reading of the LiDAR's stamp, shutdown | two processes share a sequence-locked record; a counter that turns over |
| RTK driver, `chcnav` | parser state and token, connection, NTRIP session, leap seconds | byte-wise parsing, connect and read, login, checksum, conversion | resynchronisation in a damaged stream, reconnection, callbacks of an earlier session |
| Adapters, `chcnav_gnss_adapter`, `livox_pointcloud_converter`, `pointcloud2_to_custom` | none between messages | choice of solutions, walk over the bytes of a cloud | layouts and row lengths that disagree with the data |

How they interact:

* the drivers publish ROS messages; `main.cpp` puts `LIVMapper` and
  `optimization` on one node. `LIVMapper::run` alternates `rclcpp::spin_some`,
  which runs the callbacks of both classes, with one pass of the front end's
  loop: all callbacks, the front end and finally the back end's destructor run
  on one thread, called the ROS thread here;
* `optimization` owns one more thread, `backend_thread_`, which runs
  `backendWorker`. Keyframes pass through a queue under `queue_mutex_` and
  `queue_cv_`; RTK, graph and correction each have a mutex of their own; the stop
  and save flags are atomics written without any of them;
* the LiDAR driver writes the time of its newest scan to a mapped file which the
  camera driver reads to stamp its images. This is the only memory two processes
  share; everything else passes as messages;
* inside the LiDAR driver the SDK's thread, the packet thread and two poll threads
  form a pipeline: `raw_packet_queue_`, frames, one ring and one list per LiDAR.

What makes each part correct, and where it stands:

| Part | It is correct when | Status |
|---|---|---|
| Back end | the graph is in time order, no keyframe is lost but the oldest of a full queue, RTK is used once and nearest in time, the final map holds every node, stop and save requests are served | checked, safety proved |
| Global filter | an observation is applied once, the nearest is taken, the anchored pose stays within the matching error, the gate cannot stay shut | checked (position only), proved |
| Front end, IMU | points keep their times and are neither lost nor doubled, propagation leaves no gap, keyframes are consistent, the newest fix is used | checked and proved in all three modes |
| Preprocessing | the last point is the latest, times from the yaw are those of the rotor | checked and proved without feature extraction |
| Voxel map | a point is kept and found in the cube that contains it, nodes stay within their limits, the window follows the vehicle | checked on one axis |
| LiDAR update | no match is lost between threads, the covariance belongs to the state | checked and proved |
| Visual odometry | a reference patch exists, the kept state is the best, no pixel outside the image is read | checked and proved |
| Livox driver | stamps of a device increase and stay together, no point is lost before the rings, a packet read is whole, a consumer is never left asleep with work, a device samples only as configured, shutdown returns | checked; stamps, rings and configuration proved |
| Shared time stamp | a reader never returns a torn stamp and finds the file again after a restart | checked, no torn read proved |
| Camera driver | losses are counted over the turn of the counter, the device is used only while open, `main` returns | checked, safety proved |
| CHCNAV nodes, adapters | every intact frame is published as sent, damaged ones are refused, connections and logins come back, each solution reaches its readers | checked; sessions, descriptors, clocks and converters proved |
| Message packages, launch files, vendored code | | not modelled, section 8 |

`PROJECT.json` lists under `hazards` what can go wrong in this code that a test
would hardly reach, at the line where it bites, with the properties that cover it.
Where the code does go wrong and no property can say otherwise, the hazard has a note:
the scan of one point that blocks ONLY_LIO (`LIVMapper.cpp:1349`) and the empty cloud that
only the Livox callback drops (line 878) are covered by none; the join of the LiDAR
driver without further packets (`driver_node.cpp:35`) and the session lost while
`swas_status` is about to be set are conditions of `ShutdownEnds` and `ConnectsAgain`.

## 2. Modules

| Module | Models | Extends / instantiates |
|---|---|---|
| `RtkTimeQueue` | the ordered, bounded queue of RTK observations that back end and filter both keep, and the searches in it | community modules |
| `KeyframeChannel` | abstract promise of the keyframe hand-off: a bounded channel that evicts its oldest element, can be closed, and delivers what is neither evicted nor unread | |
| `Backend` | class `optimization` and its worker thread | `RtkTimeQueue`; instance of `KeyframeChannel` |
| `Esikf` | class `RealtimeGlobalEsikf` | `RtkTimeQueue` |
| `FrontEnd` | `LIVMapper` and `ImuProcess` in LIVO mode | |
| `FrontEndModes` | the same classes in `ONLY_LIO` and `ONLY_LO` | |
| `Preprocess` | class `Preprocess` | |
| `VoxelMap`, `LidarUpdate` | `VoxelOctoTree` and the map; `StateEstimation` | |
| `VisualMap`, `VisualUpdate`, `PatchWindow` | `VIOManager`: map and references; the pyramid update; image geometry | |
| `StampNormalizer` | `PubHandler::NormalizeTimestamp` | |
| `FrameTimer` | the packet queue and the frames of `PubHandler` | |
| `LivoxQueues` | rings, lists, semaphore, poll thread, destructor (`ldq.cpp`, `lds.cpp`, `lddc.cpp`, `semaphore.cpp`, `driver_node.cpp`) | |
| `LidarSession` | configuration file, `CacheIndex`, the callbacks that configure a device | |
| `SharedStamp` | the mapped time stamp, both processes | |
| `CameraDriver` | `grab_trigger.cc` but for that stamp | |
| `HcParser`, `HcCrc`, `CanDecoder` | the receiver's frames, checksum, CAN fields | |
| `Connector` | the five device connectors of the parser node | |
| `NtripClient` | the NTRIP client with its SDK thread | |
| `GnssChain` | protocol node and GNSS adapter | |
| `PointConverter` | the two point cloud converters | |
| `DriversMC`, `ProgressMC`, `OdometryMC` | compositions of parts for TLC | `StampNormalizer`; `SharedStamp`; `VisualUpdate`; instances of the others |
| `EsikfMC`, `FrontEndMC` | the constants of the runs | the module they are named for |
| `RtkTimeQueueProofs` | lemmas about the queue, and the two that stand for induction on it | `RtkTimeQueue`, `TLAPS` and its libraries |
| `BackendProofs`, `EsikfProofs`, `FrontEndProofs` | theorems about the module each is named for | that module, `RtkTimeQueueProofs` |
| `VisualUpdateProofs` | theorem about the visual update | `VisualUpdate` |
| `DriversProofs`, `ProgressProofs`, `OdometryProofs` | theorems about parts of the compositions | `DriversMC`, `ProgressMC`, `OdometryMC` |

### RtkTimeQueue

An observation is its stamp. `PushRtk` is the insertion at `upper_bound` followed
by dropping the oldest stamps beyond the bound (`optimization.cpp:476-486`,
`global_esikf.cpp:36-42`); `Expire` the purge of a prefix; `NearestIndex` the back
end's search, which leaves early once the distance grows and so relies on a
sorted queue; `NearestWithin` the filter's search, which only accepts candidates
within the tolerance. The searches are recursive functions, not `RECURSIVE`
operators, so that modules with theorems can use them.

### Backend

Two program counters, `main` and `worker`. The steps are those between which
another thread can interfere:

* `SkipSynced`, `EnqueueSynced`: `syncedCallback`, returning early or to the end.
  The critical section on `queue_mutex_` is one step, guarded by `QueueMutexFree`.
* `AcceptRtk`, `LocalOdometryCallback`: the other callbacks.
* `RequestSave`/`NotifySave` and `RequestStop`/`NotifyStop`/`Join`/
  `FinalReconstruct`: the save service and the destructor. Storing an atomic flag
  and notifying are two steps because the code takes no mutex for either.
* `EvaluatePredicate`, `Block`: the two halves of `queue_cv_.wait`. The worker
  holds the mutex from the evaluation until it sleeps, which keeps `EnqueueSynced`
  out of the gap but not the notifications that take no mutex.
  `SpuriousWakeup` is allowed as the standard allows it.
* `TakeKeyframe`, `TakeNothing`, `RejectKeyframe`, `FindNearestRtk`,
  `CommitKeyframe`, `UpdateGlobalCorrection`, `ExchangeSave`, `RebuildMap`: one
  pass of `backendWorker`, cut where it releases a mutex.

Abstracted: a pose is a position on a line and one threshold stands for distance
and angle. The correction is a shift along that line: `UpdateGlobalCorrection` sets its
target to any of `Corrections`, as the optimiser may make anything of it, and
`LocalOdometryCallback` takes the smoothing step towards it. The smoothing parameter
counts thousandths and is clamped as in the constructor; double precision is a grid on
which the step rounds down; the rotation, which `Expmap` and `Logmap` scale by the same
parameter, is left out. Whether a loop is accepted is a free choice among the candidates
the code allows; the map is the list of stamps written.

### Esikf

The filter on a line: `global_pose` with its `variance`. `Prior` is the handling of
the reference and `predict`, `NoMatch` and `Matches` the rest of `processLivo`:
anchoring by the first match, gated update, refusal. Both sensors are exact and the
true motion is one of `Tracks`, so that the error of the anchored pose is the
filter's own. Division is integer division towards zero. Attitude and velocity
updates are left out; they correct other components by the same gated step. Each
call holds the filter's mutex throughout and is one action.

### FrontEnd

`step` says whether the ROS thread is at the top of the loop ("spin": callbacks and
`sync_packages`) or past a successful `sync_packages` ("process"). A point carries
its true `time` next to the `curvature` the code stores, so that a wrong offset is
visible. `ThrowImage`, `WaitForData`, `SyncLio` and `SyncVio` are the ways out of
`sync_packages`; `InitializeImu`, `ProcessLio` and `ProcessVio` are `processImu`
with the handler after it. `Cut` is the inner loop on one scan, `Pairs`,
`PairBegin` and `PairEnd` say which interval each pair of IMU messages propagates,
`TimesFirstCompensated` follows the backward walk for the first point.
`last_prop_end_time` is not initialised by the constructor and starts with one of
two values. Messages of one sensor arrive in the order of their stamps (LiDAR
stamps may jump back `MaxRewinds` times), any message may be lost, sensors
interleave freely. Sanitising, ring sizes and estimates are left out; success of the
RTK alignment is a free choice.

### FrontEndModes

The callbacks, `sync_packages` and `processImu` when no camera takes part: a scan is
handed over whole (`SyncLio`, `SyncLo`), `WaitImu` is the return of `sync_packages`
when the IMU has not passed the scan's end. A scan is its first point's time, its
size and its last offset. Sizes 0 and 1 are kept because the code treats them
apart: a scan of one point or fewer is left at the head of the buffer in ONLY_LIO
(`LIVMapper.cpp:1349`).

### Preprocess

One action per handler takes the next point of a cloud; `given_offset_time`, the
thinning by `point_filter_num`, the per-ring yaw of `velodyne_handler` and the final
sort are kept, geometry is left out. `std::sort` is not stable, so points of one time
come in any order. Time counts 1/240 ms, so that the handlers' unit conversions are
exact.

### VoxelMap, LidarUpdate

Every rule of the octree is applied alike to x, y and z, so the model has one axis
and a node has two leaves. A node is a path from its root. `BuildVoxelMap`,
`UpdateVoxelMap`, `mapSliding` and `NextScan` are the operations; whether the points
of a node form a plane is left open, which reaches every combination of fit,
division and freeze. `LidarUpdate` has one process per OpenMP thread: the flags of
`vector<bool>` share a word, which a thread reads and writes back whole, and the
mutex around the store is a variable. The rest of an iteration (rows, gate, solve,
rematch, end) is one step each.

### VisualMap, VisualUpdate, PatchWindow

`VisualMap` follows `processFrame` in order: projection of the scan's voxels, grid
competition, ray casting, choice of the reference, update, new points, feature
lists, reference update. A view says in which cell a position is seen, how far it
is and whether it is in front. Photometric tests, scores and normals are left open.
`VisualUpdate` names states by numbers and leaves errors open, so that "goes back to
the best" can be said. `PatchWindow` is exact integer geometry: which pixels are
read around a point on each pyramid level. Only `Retrieve` asks `isInFrame`; after it
every `Iterate` projects the point anew with the state it has moved (`Reproject`, by any
of `Moves`), and `updateVisualMapPoints` reads a patch at the last projection, both
unchecked as in the code. `precomputeReferencePatches`, which reads the reference's own
image around the pixel stored with the feature, is left out.

### StampNormalizer

One call is one step, as the mutex makes it. The device's clock gives any raw time
to any packet of either stream; the host's steady clock advances.

### FrameTimer

Three actors: the SDK's callback, the packet thread with a program counter between
its critical sections, and the exit. The global flag that says whether stamps are
synchronised is written by the callback and read later by the thread, as in the
code. A point is its stamp and one coordinate; conversion of units and the extrinsic
translation, which a division of integers cuts to centimetres, are kept because a
property is about them.

### LivoxQueues

Ring indices are plain volatile words. The producer's store of `wr` becomes visible
at a `Drain` step of its own (the x86 store buffer); loads are in order. Index
arithmetic is modulo `IndexMod` in place of 2^32. `Semaphore` is its count; waits
block when it is not positive. The producer reads the count without the mutex, as
`lds.cpp` does. Lists for IMU data, lazily created publishers, the three message
formats and the destructor's joins are actions of the same module.

### LidarSession

`InitLdsLidar` reads the file and starts the SDK; `AddConfigured` takes one entry of
the file a step, and after the last the callback that `InfoChange` is gets
installed. `InfoChange` announces a device; every command sent is pending until `SettingSucceeds`, `OtherSucceeds`,
`TimesOut` (sent again) or `Fails` (not sent again), one action per callback.

### SharedStamp

Every load and store of the two words, `open`, `ftruncate`, `mmap` and their
failures are steps of one of two processes. A file is an inode that survives its
name. The driver may end at any step and start again; the camera polls, waits with
a deadline, and maps the file anew after enough timeouts.

### CameraDriver

`main`, `WorkThread` and the camera. Each SDK call of the set-up may fail, with the
way down the code takes from there. Frame numbers turn over at `FrameMax`. The
calibration is kept as numbers: sizes, matrices and the scaling are what
`InfoFitsImage` is about. The doubles of the code are fractions, compared by cross
multiplication, so that a scaled value is exact for every image size.

### HcParser, HcCrc, CanDecoder

`HcParser` keeps the handlers of the parser's states and bytes with their values,
cut by reads of any size. `HcCrc` computes the checksum byte by byte as the code
does and compares it with the remainder of the polynomial division that CRC-32 is.
`CanDecoder` compares the code's shifts and masks with fields laid out bit by bit.

### Connector, NtripClient, GnssChain, PointConverter

`Connector` has the parser's loop, the device that comes and goes, and a limited
number of descriptors; `address` is what a UDP or CAN socket is bound to. `NtripClient` is the executor, which polls four flags, and
the SDK's thread, which sets them; a callback carries the session it belongs to.
`GnssChain` has both nodes' executors with bounded topics. `PointConverter` walks a
cloud's bytes by offsets and steps and keeps the rounding of times to a double.

### DriversMC, ProgressMC, OdometryMC

Parts that share no memory cannot disturb one another, so what a part does is
decided by the behaviours in which it alone moves. A composite's state is that of
all its parts; `part` names the one that moves, the others stay in an initial
state, and the behaviours of the composite are the union of those of its parts. A
property of a composite says for each part what must hold when it moves. A part
can occur with several sets of constants (`Tree`, `Build` and `Travel`; synchronised and
mixed clocks; ...), so that each set can be small and aim at a case of its own.

What is proved about a part needs its constants to be open. Where a part runs with
several sets of constants, it is one instance with a parameter: the constants of
`Queues(p)` are the record `RingSettings[p]`, those of `Frames(p)` are `FrameSettings[p]`,
those of `Front(p)`, `Cloud(p)`,
`Window(p)` and `Visual(p)` come from `ModeSettings`, `CloudSettings`, `WindowSettings`
and `MapSettings`, and the configuration gives the tested settings, which the composite
defines next to the instance. A part with one set leaves its constants to the
configuration directly: the session and the converters in `DriversMC`, the camera and
the receiver's nodes in `ProgressMC`, the LiDAR update in `OdometryMC`. Each composite extends one part directly, whose
properties are stated without `part`: `StampNormalizer`, `SharedStamp`, `VisualUpdate`.

## 3. Runs

| Run | Question | Result |
|---|---|---|
| `backend_safety` | Do queue bounds, time order, single and nearest use of RTK, the two keyframe gates and the final map hold in every interleaving? | holds, 3.4 million states |
| `backend_live` | Does the hand-off implement `KeyframeChannel` including delivery? Are stop and save served when notified outside the window between a false predicate and the wait? Is the correction broadcast eased towards its target in every order of broadcasts and new targets? | holds, 667 thousand states |
| `backend_stop` | Does the destructor always return? | violated, see finding 1 |
| `esikf_safety` | Applied once, nearest taken, error bounded, gate reopens | holds, 231 thousand states |
| `esikf_order` | Are observations matched in increasing time even when received out of order? | violated, finding 2 |
| `frontend_livo` | Point times and conservation, joined propagation, keyframe stamps, newest fix | holds, 305 thousand states |
| `frontend_vio` | Does VIO follow LIO immediately? | violated, finding 3 |
| `frontend_rewind` | Do scans keep their header times when the LiDAR clock goes back? | violated, finding 4 |
| `frontend_undistort` | Is a point compensated at most once? | violated, finding 5 |
| `drivers` | From the sensors to the topics: are stamps, frames, packets, settings, receiver frames and converted clouds what was sent? | holds, 924 thousand states |
| `progress` | What must happen in the end: mapping found again, shutdowns, reconnection and login, every packet, solution and scan taken up | holds, 98 thousand states |
| `odometry` | Point times, scans without camera, voxel map, LiDAR update, visual map and visual update | holds, 562 thousand states |

What the properties of the passing runs say:

* `GraphInTimeOrder`: nodes, the keyframe in hand and those queued have strictly
  increasing stamps, so an odometry factor never spans a negative interval.
* `SecondGateOnlyAfterLoss`: the callback compares with the last frame enqueued,
  the worker with the last node; the worker refuses a frame only if an earlier one
  was evicted.
* `RtkSingleUse`, `RtkOrderFollowsNodes`, `RtkQueueSorted`, `NearestChosen`: no
  observation constrains two nodes; observations of nodes further apart than twice
  the tolerance are in the nodes' order; the queue the search relies on is sorted;
  the nearest is chosen and none is passed over.
* `FinalMapComplete`: when the destructor has returned, everything taken from the
  queue is in the map or was refused by the second gate, and nothing is left queued.
* `CorrectionEased`: the worker sets new targets between the broadcasts of the ROS
  thread. Once there is a target, what is broadcast lies between targets there have been,
  so that it neither overshoots nor drifts in from the identity it showed before, and it
  moves from one broadcast to the next by no more than the clamped part of the distance
  of two of them, also when the parameter is out of range.
* `ImplementsChannel`, `StopOutsideWindowReturns`, `SaveOutsideWindowServed`: the
  refinement and the liveness that does hold.
* `AppliedOnce`, `NearestInTolerance`, `AnchorErrorBounded`, `GateReopens`: the
  filter's counterparts; the last two say that the error of unbroken increments is
  at most the motion within the tolerance, and that a refusal is explained by the
  uncertainty accumulated since the last update.
* `PointTimesConsistent`, `PointsConserved`: every point of a LIO step lies in its
  interval with the right offset, and the points received are exactly those
  processed, dropped by the initialisation, or buffered.
* `MotionCovered`: a step starts where the last one ended and, with two or more IMU
  messages, propagates its whole interval.
* `KeyframesConsistent`, `NewestRtkUsed`: a published keyframe carries the time of
  the LIO step that made its cloud, in increasing order; the newest fix is used.
* `TimelineHeld`: whatever a device's clock does, its stamps stay within the
  threshold of one timeline for LiDAR and IMU together.
* `FramesOnAxis`: no point is lost, repeated or put out of order between the callback
  and the frames; with synchronised stamps frames are cut on a fixed axis, so their
  rate does not drift; the translation is applied in the unit of the points, if packets
  have the configured type.
* `QueuesSound`: the packet copied out of a ring is the oldest accepted and whole;
  when the poll thread sleeps with no signal on its way, no packet it has looked for
  waits, but the newest that may still be in the producer's store buffer.
* `SamplingConfigured`: a device samples only after each setting of its last entry
  has been acknowledged with that entry's value, at an index of its own. It does not
  follow from the order of one callback: entries overwrite one another, a device may be
  announced again while answers are under way, and the table may be full.
* `ReceivedAsSent`: what the parser publishes is a stretch of the wire, a frame is
  lost only to a false header or `$` in the noise before it, however reads cut the
  wire; a frame with an error within 32 bits is refused and an intact one accepted;
  CAN fields are the numbers the device put in.
* `ConvertersAgree`: both converters read inside the cloud, keep its order and agree
  on times.
* `ReadIsSnapshot`: a pair of version and stamp the camera accepts stood in the file
  at one moment, unless a start of the driver cleared the words meanwhile.
  `StampsServed`: no frame gets the stamp of an earlier one or an older one, across
  restarts, half written and deleted files and new mappings, and the camera always
  finds its way back to the file the driver writes.
* `CameraConsistent`: frames reported as missed are those lost, over the turn of the
  counter; the thread uses the device only while it is open and grabbing; the
  `CameraInfo` published has the size of the image.
* `ReceiverConsistent`: the NTRIP client takes no callback of an earlier session for
  its own; descriptors are accounted for; IMU data and solutions carry one clock; a
  solution handed on as fixed is a fix in the standard message too.
* `ShutdownEnds`, `ConnectsAgain`, `DataTakenUp`: both drivers stop while packets come; a
  connector is connected again while descriptors are left, and the NTRIP client logs in
  after finitely many failures and lost sessions, unless a loss falls into the gap
  `LostUnnoticed` names (section 4) and stays there; packets, solutions and scans of two
  points or more are taken up.
* `VoxelsSound`, `MeasurementComplete`: the map and the LiDAR update of the table in
  section 1.
* `ReferencesAlive`: a reference patch is a feature its point still has (the code
  deletes features in three places), a point of the submap has what the update
  reads, a cell holds the nearest of its points.
* `VisualStateKept`: a level leaves the best state it evaluated, and the covariance
  belongs to the state that is kept. `PatchesInside`: an accepted pixel falls into a cell
  of its own column and its patch is inside the image; a window read later, in any
  iteration of any level or by the revision of the map, is inside while the point has
  moved by no more than the border leaves over for the window's scale. The code checks
  neither the movement nor the scale, see section 4.
* `PointTimesTrue`, `ScansSynchronised`: preprocessing and synchronisation without
  camera. The last point of a cloud is the latest, and a time computed from the yaw is
  that of the rotor. One scan per call, in order, with its own begin, the IMU messages up to its
  end and the motion they cover; a callback that drops small clouds, as the Livox one
  does, leaves no empty one to be read.

Each property of a passing run has one mutant or more in `PROJECT.json`: a plausible bug
in one definition that makes TLC find it violated. The mutated operators stand in the
modules just before the definition they replace and are used by nothing else. A
property of a composite is a conjunction over its parts, and its mutant breaks one of
them; where the parts differ most, a second mutant breaks another. The type invariants of `Backend` and `Esikf` are proved and not run.

### Findings

1. Lost wake-up on stop (`optimization.cpp:302`, save request at 960): flag and
   notification both fall between the worker's false predicate and its wait. The
   worker sleeps for ever and `join` with it; no final map is written.
2. `global_esikf.cpp:38` says out-of-order messages are still matched in increasing
   time. A newer observation can be matched to a frame and an older, late one to
   the next frame.
3. `LIVMapper.cpp:1393` says VIO follows LIO immediately. The early returns at
   1336-1338 make it wait for the next scan and IMU message.
4. A LiDAR stamp that goes back clears `lid_raw_data_buffer` but not
   `lid_header_time_buffer`; all later scans are read with wrong header times.
5. The backward compensation leaves its inner loop at the first point by `break`
   and so compensates that point again for each earlier pose.

## 4. Divergences seen while modelling

Found while reading the code for the models, not stated as runs: the models contain
the code's behaviour, their properties are stated so that they hold with it.

* Shared stamp: a restarted LiDAR driver sets the version back to 0
  (`livox_ros_driver2/src/lddc.cpp:190`), so versions do not name stamps across a
  restart. Only the camera maps the file anew; a driver whose file is deleted writes
  to the nameless one until it restarts (`lddc.cpp:201`,
  `mvs_ros2_driver/src/grab_trigger.cc:60`).
* Livox driver: the correction is also renewed when only the other stream has split
  off (`comm/pub_handler.cpp:356-363`). Offsets of points are `uint32_t`
  nanoseconds and wrap after 4.29 s of silence in a frame (`lddc.cpp:579`).
  Defaults that `livox_ros_driver2/README.md:247-251` states are not applied when a
  field is missing, and a LiDAR with an address only never samples
  (`parse_cfg_file/parse_livox_lidar_cfg.cpp:75`). `blind_spot_set` passes through
  `int8_t` (line 88) although the README allows up to 200. The list of IMU data has
  no bound (`lds.cpp:117`).
* Connectors: a failed TCP connect leaves its socket open (`tcp_common.hpp:48`); the CAN
  connector does not check the `ioctl` that looks for its interface (`can_common.hpp:147`)
  and binds to all interfaces while none was ever found; the UDP connector's address is overwritten by the sender's (`udp_common.hpp:87`); the
  serial connector's constructor lets an exception through (`serial_common.hpp:148-152`)
  and swaps odd and even parity (line 118).
* CHCNAV nodes: the parser node's executor never spins, so no write is served
  (`hc_msg_parser.hpp:159-160`); `frame_id` is overwritten
  (`NtripServerLaunchNode.cpp:242`), and ITRF14 and WGS84 are swapped with respect to
  `swas_sdk.h:124` (line 271). A session lost after the login's wait has seen it come up
  and before `swas_status` is set (`swas_server.cpp:118-136`) leaves `swas_status` TRUE
  with the session out, and the client never logs in again: `ConnectsAgain` excludes it by
  name, and without that condition TLC shows it. No text of the repository promises
  otherwise, so it is no finding.
* Voxel map: a node that loses its plane in a later fit (`voxel_map.cpp:241`) keeps
  `octo_state_` 0, "end of tree" (`voxel_map.h:139`), and then gets leaves.
* Visual odometry: points behind the camera become map points (`vio.cpp:816`,
  `visual_point.h:32`). Whether a point is in the frame is asked once, when it is
  retrieved; the iterations project it again and read a window there unchecked
  (`vio.cpp:1573-1583`, `vio.cpp:1446-1452`), and so does the revision of the map
  (`vio.cpp:924-928`): a state that moves a point by more than the border leaves over
  reads other rows or beyond the image. For a search level of 1 on the coarsest level
  nothing is left over, and for 2, which `getBestSearchLevel` reaches (`vio.cpp:714`),
  the border is too small (`vio.cpp:154`). With cells wider than the border a pixel beyond the last whole column
  counts into the next row (`vio.cpp:471`); keys of negative coordinates are rounded differently when points
  are added and looked up (`vio.cpp:395`); `ref_mean` is read before it is set
  (`vio.cpp:1054`).
* Preprocessing: a gap of 1 ms or more rewrites all later times of the scan
  (`preprocess.cpp:185`); a point of an unknown line is skipped and the next is compared
  with its time, which stays 0 (line 168); with one time kept per ring a third turn of the rotor is taken for the second
  (line 421); the first point of an empty cloud is read (line 523), and an empty cloud
  that is not dropped stops the synchronisation (`LIVMapper.cpp:878`).
* Front end: with one IMU message in an interval the propagation stops at it
  (`IMU_Processing.cpp:355`, `LIVMapper.cpp:1358-1360`); after a lost scan the pose
  offsets in ONLY_LIO are not those of `types.h:31` (`IMU_Processing.cpp:359`);
  `last_prop_end_time` is uninitialised at the first LIO step (`IMU_Processing.h:81`);
  ONLY_LO keyframes are stamped 0 (`LIVMapper.cpp:1580`); `measures` grows without
  bound in both modes without camera (line 1382); with two images within one scan
  points stay in the earlier interval (line 1473); the IMU-rate timer passes over
  messages (line 751).

## 5. Bounds

* `backend_safety`: frames with stamps 1 to 4 and two poses, so that frames pass
  and fail the gates by motion and by time; a keyframe queue of two, which
  overflows while the worker is busy; an RTK queue of two for three observations,
  so that insertion in the middle, overflow, expiry and matching all occur; the
  purge horizon is larger than the tolerance, as in the code. `MaxStamp` bounds the
  only unbounded counter, and one target and one parameter keep the correction small.
* `backend_live`: four frames and the same queue, no RTK, which the hand-off does not
  depend on; two targets that replace one another while the smoothing is under way, with a
  smoothing parameter below, in and above its range.
* `esikf_safety`: four frames with any stamps in 0 to 5, repeated and decreasing ones
  included, four observations, a queue of three, four true motions; the gap bound
  of two makes dropouts reachable.
* `frontend_livo`: four scans of two points, three images (one on the time of a
  point), six IMU messages, two fixes in one image interval. Steps without
  points, one image thrown away, a missing scan, waiting for LiDAR and for IMU
  and an interval with none, one or several IMU messages all occur. The images
  are at least two ticks apart, and a scan spans two: with two images inside
  one scan's span the code leaves points beyond the update time in the earlier
  interval, which the hardware trigger excludes.
* `drivers`: two streams with raw times that jump by less and by more than the
  threshold; two LiDARs and two packets each, whose gaps stay within a frame, cross
  one boundary and cross two; rings of one and two packets whose indices turn over
  within a few packets; a configuration file with a LiDAR entered twice, one
  without address and one not in it, one failure; wires of up to three pieces with
  noise that breaks a header at each of its bytes, reads of 1, 3, 7 and 32; error
  bursts at every place of three frames; both byte orders and the ends of every CAN
  field; layouts with missing fields and short rows. The rings of the
  two-LiDAR instance are `Paced`: no frame is cut while the consumer publishes, as
  publishing takes less than a period; the other instances overflow freely.
* `progress`: one crash of the driver at any step and two files, so that a mapping of
  a file without name occurs; seven frames over a counter of three; every connector
  with two outages and four descriptors; two timeouts, one refusal of the login and one session lost after it (`MaxKicks`);
  three seconds of solutions, and topics as deep as that, so that none is dropped in
  `DataTakenUp` (that the node's own topic stays short is a part of
  `ReceiverConsistent`, `OwnTopicBounded`); three scans of none, one and two points from the Livox callback.
* `odometry`: three points of one voxel divided twice, a first scan that fills a node to
  its limit, positions on both sides of the origin; two threads that share a word;
  five frames of one point (more observations than `MaxObs`) with and without
  normals, and several points in two cells; three levels of three iterations; images
  that the cells do not divide, patches searched up to two levels up, points that do not
  move, move by as much as the border leaves over and by more; clouds of four points with gaps back, none, small and
  beyond `Jump`.
* Runs in which the supply of messages, frames or scans is finite do not check for
  deadlock or name the parts that may rest in `Rests`; the others are checked for it.
  The back end's only final state is the end of the process.

TLC's actions all fire in the passing runs.

## 6. Fairness

`Backend`: `WF_vars(WorkerSteps)`, as the worker is a thread of its own that the
operating system schedules, and no step of it waits for anything but the condition
variable, whose wake-up is part of the model. `WF_vars(MainContinues)`: once a service
call or the destructor has begun, the ROS thread goes on. Callbacks, the decision to
stop and spurious wake-ups get no fairness: they are up to the environment, and a
spurious wake-up that the code may not count on must not rescue it.

`ProgressMC` states the fairness of each part, guarded by the part that moves:

* shared stamp: both processes take their next step, as the launch file keeps them
  running; `open`, `ftruncate` and `mmap`, which the code retries, and the passing of a
  deadline are strongly fair, that is a call tried for ever succeeds at some time.
  Crashes and deletion get none;
* camera: both threads go on while they can. Exposures and SIGINT get none;
* queues: the threads run and the store buffer drains; a LiDAR that samples goes on
  sending while the node exists (strong fairness of a new frame), and a destructor
  that has been entered goes on;
* connector: the parser's loop never rests; nothing is assumed of the device;
* NTRIP client: executor and SDK thread run, the receiver sends a sentence every second
  and the SDK answers in the end; timeouts and refusals are finite in number;
* GNSS chain: the executors serve what is ready;
* odometry without camera: the loop of `run()` goes on and the IMU keeps sending.

## 7. Proofs

Eight modules hold 38 theorems. Each is about a specification a run checks, for all
constants that satisfy the `ASSUME` of the module that declares them, or of the
composite for those of its instances; TLC evaluates those on every run. No proof uses
fairness.

| Module | Theorem | Property |
|---|---|---|
| `BackendProofs` | `TypeCorrect` | `TypeOK` |
| | `GraphOrdered` | `GraphInTimeOrder` |
| | `RtkUsedOnce`, `RtkSorted`, `RtkOrdered` | `RtkSingleUse`, `RtkQueueSorted`, `RtkOrderFollowsNodes` |
| | `CorrectionIsEased` | `CorrectionEased` |
| | `ChannelRefined` | the step part of `ImplementsChannel` |
| | `FinalMapIsComplete` | `FinalMapComplete` |
| | `SecondGateJustified` | `SecondGateOnlyAfterLoss` |
| | `NearestIsChosen` | `NearestChosen`, if `RtkTolerance <= RtkHorizon` |
| `EsikfProofs` | `FilterTypeCorrect` | `TypeOK` |
| | `FilterAppliesOnce` | `AppliedOnce` |
| | `NearestIsTaken` | `NearestInTolerance` |
| | `AnchorErrorStaysBounded` | `AnchorErrorBounded` |
| | `RefusalsJustified` | `GateReopens` |
| `FrontEndProofs` | `FrontEndTypeCorrect` | types, sorted buffers |
| | `RtkIsNewest` | `NewestRtkUsed` |
| | `KeyframesAreConsistent` | `KeyframesConsistent` |
| | `MotionIsCovered` | `MotionCovered` |
| | `PointTimesAreConsistent` | `PointTimesConsistent`, if `ScansFollow` and `ImagesApart` |
| | `PointsAreConserved` | `PointsConserved`, if `ScansApart` |
| `VisualUpdateProofs` | `VisualStateIsKept` | `VisualStateKept` |
| `OdometryProofs` | `MeasurementIsComplete` | `MeasurementComplete` |
| | `ScansAreSynchronised` | `ScansSynchronised` |
| | `PointTimesAreTrue` | `PointTimesTrue` |
| | `PatchesAreInside` | `PatchesInside` |
| | `ReferencesStayAlive` | `ReferencesAlive` |
| `DriversProofs` | `NormalizerTypeCorrect`, `StreamsStayTogether` | `TypeOK`, `TimelineHeld` |
| | `NormalizedStampsIncrease` | the stamps of a stream strictly increase |
| | `FramesAreOnAxis` | `FramesOnAxis` |
| | `QueuesAreSound` | `QueuesSound` |
| | `SamplingIsConfigured` | `SamplingConfigured` |
| | `ConvertersDoAgree` | `ConvertersAgree` |
| `ProgressProofs` | `ShareTypeCorrect`, `ReadsAreSnapshots` | `TypeOK`, `ReadIsSnapshot` |
| | `CameraIsConsistent` | `CameraConsistent` |
| | `ReceiverIsConsistent` | `ReceiverConsistent` |

### Hypotheses

Most theorems have none beyond the assumptions on the constants. The others:

* `RtkTolerance <= RtkHorizon` (`NearestIsChosen`): the code matches within 0.10 s and
  purges what is 5 s old. With the reverse an observation could be purged while it
  is still the nearest.
* `ScansFollow`: the LiDAR clock does not jump back (`MaxRewinds = 0`) and a scan does
  not begin before the last point of the one before; `ScansApart` has it begin
  later. A LiDAR stamps consecutive stretches of one clock. A clock that jumps back
  breaks the pairing of scans and header times, which is finding 4, so no theorem about
  point times can hold with rewinds. The points are told apart by their times, which
  is why `PointsAreConserved` takes the strict form.
* `ImagesApart`: two images are at least the span of a scan apart. The camera is
  triggered once per scan; with two images inside a scan the code leaves points in
  the earlier interval (section 4).
* `LidarUpdateAssumption`, `CameraAssumption` and the other assumptions on instances say
  what the code's types say. That `Size`, the modulus of a ring, is at least 1, and that
  `Shift` doubles from one level to the next, are assumptions TLC evaluates, because the
  prover does not compute powers of two.
* Some assumptions on an instance say more than a type. `MapSettings` have
  `max_obs > conv_obs >= ref_obs >= 1`: the code has 30, 10 and 5. `WindowSettings` have
  patches of even size, which `warpAffine` halves, and images with as many rows as the
  grid, since `initializeVIO` divides by the quotient. Values of the configuration file
  fit an `int8_t` (`SessionAssumption`; section 4 has the one that may not). The points of a
  cloud have a time each, and their times are in order (`PointConverterAssumption`).

Some properties carry conditions of their own. They are part of the property TLC checks,
too; section 4 lists what happens without them:

* `PointTimesTrue`: the lines of an AVIA are all configured (`LinesConfigured`), and a
  rotor without times has turned less than twice since the scan began. With one time
  kept per ring the code cannot tell a third turn.
* `PatchesInside`: a cell of the grid is at most one wider than the border (`GridFits`:
  otherwise a pixel beyond the last whole column counts into the next row); a point has
  moved since `isInFrame` was asked by no more than `Slack`, half a patch and one pixel as
  many times as the window's scale is below that of the border. It is nothing for the
  coarsest level searched one level up, and no movement satisfies it two levels up.
* `PointTimesTrue` also takes the points of an XT32 and of a Velodyne in the order of
  their times, as the handlers do which take the last point for the end of the scan.
* `ConnectsAgain`: from some time on no session is lost unnoticed (`LostUnnoticed`).
  `ShutdownEnds`: packets keep coming.

The constants of every run satisfy them, but for the rewinds of `frontend_rewind`.

### How they go

* `Step` lists the disjuncts of `[Next]_vars` in `BackendProofs`; each invariant has one
  lemma per action that can disturb it, and the actions that leave its variables alone
  are dispatched together. `TypeOK` is proved by its five named parts in turn.
* `GraphInTimeOrder` is not inductive alone: a new frame must be later than
  everything older. `UpToSynced` adds that all stamps are at most `synced_stamp`.
* `RtkSingleUse` needs `OnlyReceived` (an observation used, matched or queued has
  been received, so a new one is none of them) and the sorted queue, whose erased
  prefix ends at the match. `RtkOrderFollowsNodes` follows from `MatchesAreNear`:
  each node's observation lies within the tolerance of its stamp, and nodes are in
  time order.
* `FinalMapComplete` needs `DrainedBeforeDone` (the worker ends only with an empty
  queue after a stop request, and nothing is queued afterwards: `StopIsLast`),
  `MapFollows` (after the final reconstruction the map lists the graph) and
  `EveryTakenAccounted` (popped frames are nodes, refused, or in hand).
* `CorrectionEased`: `CorrectionInv` holds that target and smoothed correction lie between
  targets there have been and that the broadcast is the smoothed one. Both then lie between
  the same two (`CommonHull`), and a step of a clamped part towards the target stays there
  and is no longer than that part of their distance. That the first target takes effect at
  once is what makes the smoothed correction lie between targets at all.
* `ChannelRefined` maps initial states and steps of the back end to those of the
  channel; the channel is closed when `stop_requested` is set.
* `SecondGateOnlyAfterLoss`: `GateInv` says of each place a frame can be in (`QueueLinked`,
  `HeadLinked`, `InputLinked`, `LastEnqueuedKnown`) that it is due with respect to the
  frame before it, or that one older than it was evicted. Node, frame in hand and
  queue form a chain, and only an eviction breaks a link.
* `NearestChosen` and `NearestInTolerance` rest on what the searches return. The back end's
  stops as soon as the distance grows, which is right on a sorted queue: distances to
  a stamp fall and then rise along it. The lemmas of `RtkTimeQueueProofs` say so
  (`NearestIndexIsNearest`, `NearestWithinIsNearest`). A loop over a prefix needs
  induction; `LoopExists` and `LeastMember` replace it by the least index that fails.
* `AppliedOnce` is strengthened by the filter's own `OnlyReceived` (queue and history
  hold received observations, the queue no doubles). `ProcessDrops` says what any
  frame does: it drops a prefix of the queue and a match is the last stamp dropped,
  so nothing left in the queue has been matched.
* `AnchorErrorBounded` adds `ReferenceTrue`: while the increments are unbroken, the
  reference is the true position at the last frame. An increment keeps the error, an
  anchor puts it within what the vehicle moves in the tolerance, and a gated update is a
  step of at most the innovation towards an observation with that same bound.
  `GateReopens` needs that the variance grows with each frame that coasts.
* `FrontEnd`: `KeyframeInv` ties the keyframe time to the LIO step before it and orders
  what was published. `MotionInv` adds that the propagation ended at the last LIO step
  and resumes from an IMU message not later than that. For the point times `ScansInv`
  keeps scans in order and with their header times, `ImagesInv` says that buffered
  images are in order and after the one processed, and `CutInv` that the time of the
  measurement is that of the last cut, with the points cut off and the buffered scans
  not earlier. Conservation counts by sets: `RawTimes` and `HeldTimes` are the points buffered
  and held, and `ConservedInv` says that the held ones are those delivered and that their
  number is the number of points counted. The bulk of the module is what the filters and the concatenation
  of `Cut` do to sequences, since the prover has no induction on them.
* `VisualStateKept`: `VisualInv` says in every state of the loop that the old state is the
  best evaluated (`OldIsBest`), that the gain was computed at it (`GainAtOld`) and from the
  Jacobian of this level (`GainBelongs`, `CacheOfLevel`).
* `MeasurementComplete`: one thread at most is between reading and writing the word of
  flags (`OneHolder`), and what it read is still there (`WordCurrent`); so every point a
  thread has passed is settled (`PointSettled`), and all are when the threads have ended.
* `NormalizerInv` is `TypeOK` with `InThePast`: arrivals and the origin are not in the
  future, and the first packet of any stream sets the origin. `FirstFacts` and
  `NextFacts` say what a first and a later packet of a stream are given; increase and
  nearness to the timeline follow from them by linear arithmetic.
* `FramesOnAxis`: a packet under way knows the place of its points in the history: after
  what is published, what waits in the cloud and two for each packet before it that
  brings points (`Conserved`). Appending a packet, converting the one at the head and
  publishing a cloud each keep that, whichever branch of `CheckTimer` is taken; the counts
  are cardinalities of sets of places, so no list is flattened. `Rising` keeps the stamps
  of a lidar in order from its cloud to the end of the queue, so that with synchronised
  stamps a packet never looks as if it were before its own cloud, and `OnAxis` has the boundary
  some number of periods after the first point with fewer frames before it. It holds while
  `~unsynced`, when the flag is set for every packet under way.
* `QueuesSound`: `RingInv` says that a ring holds the packets accepted and not taken, in
  order, from the read index to the index stored last (`RingKept`), with the newest
  possibly in the store buffer, and `AllAnnounced` that a sleeping poll thread has a
  signal coming for any packet it has looked past. All of it is modular arithmetic on
  indices that turn over; `Sub` and `Pos` are its two operations. The theorem is about
  every setting of the parametrized instance at once.
* `SharedStamp`: that a read is a snapshot is inductive only with what the words mean
  at every step of the writer. `SnapshotInv` adds `Writing` (between its two version stores
  the driver's file shows an odd version, the one after the version it read),
  `VersionHeld` (a camera in the middle of a read holds an even version above zero) and
  `StampHeld` (unless a start cleared the file, its version is not below the camera's,
  and while they are equal so are the stamps). The driver's end at any step keeps all
  of them because it changes no word.
* `CameraConsistent`: the accounting of lost frames is inductive with `Chained`: every frame
  in the SDK's buffer continues the numbers of the one before it over the frames lost
  between them, the oldest those of the frame received last. `NumberAfter` and
  `MissedAreLost` are the arithmetic of the counter's turn, from 1 again and not from 0.
  `DeviceKept` follows the order of the set-up and the way down; `InfoBuilt` keeps that
  the `CameraInfo` published is the loaded calibration scaled.
* `ReceiverConsistent`: for the login, `auth_flag` is of the current session or cleared; for
  the connectors, `Descriptors` is kept by every path through connect and disconnect.
  For the protocol node `GnssInv` holds that queued sentences are in order and later than
  anything published (`SentencesAhead`), that both stamps use the leap seconds of the last
  solution (`OneClock`), that a served sentence finds the node's own queue empty
  (`Served`), and that every fix and every solution is a verdict on one published
  solution of its second (`FixesStem`, `SolutionsStem`, `PvtsDistinct`).
* `ScansSynchronised`: `FrontInv` keeps scans with their headers and both buffers in order
  (`ScansInOrder`, `ImusInOrder`), a scan that waits for the IMU at the head of its buffer
  (`ScanWaits`) and what `sync_packages` promised of the one in work (`ScanInWork`). That
  the motion is covered without gap needs that the propagation has used no message after
  the end of any scan still to come (`ImuBehind`) and that those still to come follow its
  own end (`Propagated`). The ticks covered are a union of intervals, one for each pair of
  messages; `Propagation` and its lemmas say that consecutive intervals join.
* `PointTimesTrue`: the order is kept because no kept point is later than `Latest`, which
  is the last offset for a LiDAR with times and `full` for a Livox one, whose repaired times
  run on but never ahead of the clock (`ClockAhead`). For the yaw, `RingTrue` says that a
  ring knows the yaw of its first point and the true time of its last; that the angle
  swept, reduced by a turn, then gives the true time is arithmetic modulo `Turn`.
* `PatchesInside`: `GridMade` keeps the quotients of `initializeVIO` and `PixelAccepted` the
  border around the pixel that was retrieved. The rest is geometry: the first and the last
  pixel of a window are within half a patch and one pixel of the projection, times the
  scale (`PixelsInside`), and a point that moves by no more than the slack keeps that
  distance from the edge (`SlackKeepsAway`); the columns need that a multiple of the cell's
  size fits between pixel and image edge.
* `ReferencesAlive`: `MapInv` keeps every point sound (`Sound`: its reference is a feature it
  has, features are of different frames and within the limit), features older than the
  frame in hand until that frame adds its own (`FramesBefore`), and a submap in which a
  point occurs once (`SubmapPassed`). That a point gets one feature of a frame at most rests
  on the last. `CellTrue` and `NearestTrue` are the loop invariant of the competition for the
  cells. The three places that delete features keep the order of the others, which is
  stated by ranks instead of by recursion (`Without`).
* `SamplingConfigured`: `SlotConfigured` says that a device's slot holds its last entry
  among those read so far (`LastPast`), and that a device of the file has no slot only
  when none is left; `IndexOwned` that nobody shares a slot and a slot nobody has was never
  used. `SlotAcknowledged` is the heart: as long as the answer to a setting may still
  come, each setting given is acknowledged or marked as to be acknowledged, so that the
  last bit to be cleared is the last setting. A timeout and a second announcement keep it.
* `ConvertersAgree`: `Made` says what each node computes from the times. Rounding to a double
  keeps the order of times, so offsets do not go back, and both nodes' subtractions are
  of the same rounded numbers; the bytes read end within the last row.
* In a composite the part that moves takes a step of its module and the others stutter,
  so the theorem follows from the part's invariant guarded by `part` (`StepOfPart`).

### Only model-checked

* All liveness: the prover has no fairness reasoning. That is `StopOutsideWindowReturns`,
  `SaveOutsideWindowServed`, the delivery half of `ImplementsChannel`, `StampsServed`,
  `ShutdownEnds`, `ConnectsAgain`, `DataTakenUp`.
* `ReceivedAsSent`: `HcCrc`, `CanDecoder` and `HcParser` compute over bytes by recursion and
  folds, which needs induction over data.
* `VoxelsSound`: sizes are sums over bags by a fold, the centre of a node is a sum over its
  path with powers of two, and that both descents end in one node is an induction on the
  layers.

## 8. What is not modelled

* Numerical cores: plane fitting and the algebra of the iterated Kalman filters, the
  photometric error and its Jacobians, GTSAM, Scan Context and GICP scores, coordinate
  transforms. Models contain the decisions taken on their results, left open where the
  result is.
* Voxel map and visual map have one axis; the visual map's coordinates are such that
  both of its roundings agree (section 4). The x86 memory model is assumed for the
  rings; a weaker one would also reorder the copy of a packet and the index.
* Feature extraction of `preprocess.cpp`, which no configuration turns on; rewinds of
  the LiDAR clock in `FrontEndModes` (`frontend_rewind` has them); the IMU-rate timer
  `imu_prop_callback`; `handleRTK` and `VoxelMapManager::Insert`, which have no
  caller; drawing and dumping functions of `vio.cpp`; the states S11, S17, S23, S24 of
  the parser, which no handler enters; the two CAN fields of 64 bits.
* File output, colouring, logging, message layout, ROS 1 branches, the CHCNAV demo
  nodes, `tf2_geometry_msgs.hpp`, FastDTW, `spline.h`, the vendored serial library
  (`unix.cc`, `win.cc`, `list_ports_*`), message packages, vendor SDKs and the two
  unbuilt copies of the camera driver.
* Floating point: times are integer ticks (`PointConverter` keeps the rounding to a
  double), and the tolerance of 10 microseconds against an image at the time of the
  last update is the tick itself.

## 9. Plan

What is left, the most valuable first:

1. `VoxelsSound`: sizes as cardinalities of sets of points, and the centre of a node by its
   layer, so that the two descents can be compared without induction over a fold.
2. `GlobalFusion`: front end keyframes, back end and filter composed, with keyframes
   lost between them.
