------------------------------ MODULE OdometryMC ------------------------------
(***************************************************************************)
(* The steps of the odometry behind the buffers, for TLC: preprocessing,   *)
(* the synchronisation without camera, the voxel map and the LiDAR update, *)
(* the visual map, its patches and the visual update.  As in DriversMC     *)
(* `part' names the one that moves, with the constants of its instance;    *)
(* the others stay in an initial state.  The visual update is extended     *)
(* rather than instantiated, so that its proofs are about the property     *)
(* checked here.                                                           *)
(***************************************************************************)
EXTENDS VisualUpdate

CONSTANTS Threads, Work, LidarIterations, RtkGood                     (* LidarUpdate *)

(* The constants of each VisualMap, PatchWindow, Preprocess and            *)
(* FrontEndModes that is run, by the name of the part.                     *)
CONSTANTS MapSettings, WindowSettings, CloudSettings, ModeSettings

VARIABLES
  part,
  tree, phase, scan, position_last_, last_slide_position, last, scans,   (* VoxelMap *)
  lidarPc, iterCount, rematch_num, at, threadStep, word, mylock, useful_ptpl, matched,
  ptpl_list, use_rtk, effct_feat_num, rows, inState, inCov, covUpdates,  (* LidarUpdate *)
  mapPc, mapIndex, frame, view, pg, pts, grid_num, map_dist, retrieve, sub_feat_map,
  fromPlanes, submap, update_flag,                                       (* VisualMap *)
  windowPc, width, height, grid_size, grid_n_width, grid_n_height, inverse_composition_en,
  px, projection, search_level, windowLevel,                             (* PatchWindow *)
  preprocessPc, lidar, pointIndex, now, given_offset_time, valid_num, full, ring, start,
  pl_surf,                                                               (* Preprocess *)
  lid_raw, lid_header, last_lidar, imu_buffer, last_imu_stamp, lidar_pushed, meas, step,
  imu_need_init, init_iter_num, last_imu, last_prop_end, time_last_scan, keyframe_time,
  published, lio, delivered, handled                                     (* FrontEndModes *)

voxelVars == <<tree, phase, scan, position_last_, last_slide_position, last, scans>>
lidarVars == <<lidarPc, iterCount, rematch_num, at, threadStep, word, mylock, useful_ptpl,
               matched, ptpl_list, use_rtk, effct_feat_num, rows, inState, inCov, covUpdates>>
visualMapVars == <<mapPc, mapIndex, frame, view, pg, pts, grid_num, map_dist, retrieve,
                   sub_feat_map, fromPlanes, submap, update_flag>>
windowVars == <<windowPc, width, height, grid_size, grid_n_width, grid_n_height,
                inverse_composition_en, px, projection, search_level, windowLevel>>
preprocessVars == <<preprocessPc, lidar, pointIndex, now, given_offset_time, valid_num,
                    full, ring, start, pl_surf>>
modeVars == <<lid_raw, lid_header, last_lidar, imu_buffer, last_imu_stamp, lidar_pushed,
              meas, step, imu_need_init, init_iter_num, last_imu, last_prop_end,
              time_last_scan, keyframe_time, published, lio, delivered, handled>>
allVars == <<part, voxelVars, lidarVars, visualMapVars, vars, windowVars,
             preprocessVars, modeVars>>

-----------------------------------------------------------------------------
(* Voxel map: three points of one voxel whose nodes are divided twice; a   *)
(* first scan large enough to fill a node to its limit; a vehicle that     *)
(* travels to both sides of the origin.                                    *)
Tree == INSTANCE VoxelMap WITH
  Points <- {1, 3, 6}, Positions <- {0}, Reach <- 20, VoxelSize <- 8, MaxLayer <- 2,
  LayerInitNum <- <<1, 1, 1>>, UpdateThreshold <- 1, MaxPointsNum <- 4, HalfMapSize <- 1,
  SlidingThresh <- 1, FirstScan <- 2, ScanSize <- 2, MaxScans <- 3
Build == INSTANCE VoxelMap WITH
  Points <- {1, 6}, Positions <- {0}, Reach <- 20, VoxelSize <- 8, MaxLayer <- 2,
  LayerInitNum <- <<1, 1, 1>>, UpdateThreshold <- 1, MaxPointsNum <- 5, HalfMapSize <- 1,
  SlidingThresh <- 1, FirstScan <- 7, ScanSize <- 2, MaxScans <- 1
Travel == INSTANCE VoxelMap WITH
  Points <- {-17, -16, -8, -1, 0, 12, 20}, Positions <- {-16, -8, 0, 5, 12}, Reach <- 8,
  VoxelSize <- 8, MaxLayer <- 1, LayerInitNum <- <<1, 1, 1>>, UpdateThreshold <- 1,
  MaxPointsNum <- 3, HalfMapSize <- 1, SlidingThresh <- 5, FirstScan <- 1, ScanSize <- 1,
  MaxScans <- 4

(* LiDAR update: threads that share a word of useful_ptpl.                 *)
Match == INSTANCE LidarUpdate WITH
  pc <- lidarPc, step <- threadStep,
  MaxIterations <- LidarIterations

ASSUME LidarAssumption ==
  /\ Tree!VoxelMapAssumption /\ Build!VoxelMapAssumption /\ Travel!VoxelMapAssumption
  /\ Match!LidarUpdateAssumption

(* In the run two threads search three points.                             *)
TwoThreads == <<<<1, 2>>, <<3>>>>

-----------------------------------------------------------------------------
(* Visual map: one point seen in many frames, with and without normals;    *)
(* then several points, rays and planes in two cells.                      *)
Places == {-1, 0, 1, 3}
Pose(cells, dists) ==
  [cell |-> [x \in Places |-> cells[x + 2]], dist |-> [x \in Places |-> dists[x + 2]],
   front |-> [x \in Places |-> x >= 0]]
Near   == Pose(<<0, 1, 1, 0, 2>>, <<1, 2, 1, 9, 3>>)
Turned == Pose(<<1, 2, 1, 0, 0>>, <<3, 1, 2, 9, 1>>)
OnePlane == [k \in -3..3 |-> IF k = 0 THEN {1} ELSE {}]
Visual(p) == INSTANCE VisualMap WITH
  pc <- mapPc, i <- mapIndex,
  Positions <- MapSettings[p].positions, VoxelSize <- MapSettings[p].voxel_size,
  Cells <- MapSettings[p].cells, Views <- MapSettings[p].views, Scans <- MapSettings[p].scans,
  MinScan <- MapSettings[p].min_scan, Rays <- MapSettings[p].rays,
  PlaneCenter <- MapSettings[p].planes, MaxObs <- MapSettings[p].max_obs,
  RefObs <- MapSettings[p].ref_obs, ConvObs <- MapSettings[p].conv_obs,
  Scores <- MapSettings[p].scores, NaN <- MapSettings[p].nan,
  NormalEn <- MapSettings[p].normal_en, MaxFrames <- MapSettings[p].max_frames,
  MaxPoints <- MapSettings[p].max_points
Maps == DOMAIN MapSettings

TrackedPoint ==
  [positions |-> Places, voxel_size |-> 2, cells |-> {1, 2}, views |-> {Near, Turned},
   scans |-> {{0, 1}, {1}}, min_scan |-> 0, rays |-> <<<<>>, <<>>>>, planes |-> OnePlane,
   max_obs |-> 3, ref_obs |-> 1, conv_obs |-> 2, scores |-> {0, 1}, nan |-> -1,
   normal_en |-> TRUE, max_frames |-> 5, max_points |-> 1]
TestedMaps ==
  [p \in {"track", "no normals", "cells"} |->
     CASE p = "track" -> TrackedPoint
       [] p = "no normals" -> [TrackedPoint EXCEPT !.normal_en = FALSE]
       [] OTHER -> [TrackedPoint EXCEPT !.scans = {{0, 1, 3}, {-1, 3}}, !.min_scan = 1,
                      !.rays = <<<<-1, 0>>, <<1, 3>>>>, !.scores = {0}, !.max_frames = 3,
                      !.max_points = 2]]

(* Patches: at and around the border of images that the cells do not       *)
(* divide; points that move as far as each scale leaves room, and further. *)
Window(p) == INSTANCE PatchWindow WITH
  pc <- windowPc, level <- windowLevel,
  Images <- WindowSettings[p].images, GridSizes <- WindowSettings[p].grid_sizes,
  GridHeights <- WindowSettings[p].grid_heights, GridMin <- WindowSettings[p].grid_min,
  PatchSize <- WindowSettings[p].patch_size, Levels <- WindowSettings[p].levels,
  MaxSearch <- WindowSettings[p].max_search, Moves <- WindowSettings[p].moves
Windows == DOMAIN WindowSettings

TestedWindows ==
  [window |-> [images |-> {<<30, 26>>, <<33, 29>>, <<40, 27>>}, grid_sizes |-> {2, 5, 7},
               grid_heights |-> {4, 5}, grid_min |-> 3, patch_size |-> 4, levels |-> 2,
               max_search |-> 2,
               moves |-> {<<0, 0>>, <<6, -6>>, <<-6, 6>>, <<9, -9>>, <<-9, 9>>, <<-20, 10>>}]]

ASSUME VisualAssumption ==
  /\ Maps # {} /\ \A p \in Maps : Visual(p)!VisualMapAssumption
  /\ Windows # {} /\ \A p \in Windows : Window(p)!PatchWindowAssumption

-----------------------------------------------------------------------------
(* Preprocessing: clouds of every LiDAR with their times in any order,     *)
(* thinned by two; a rotor without times, which starts anywhere and misses *)
(* echoes.                                                                 *)
Cloud(p) == INSTANCE Preprocess WITH
  pc <- preprocessPc, i <- pointIndex,
  Lidars <- CloudSettings[p].lidars, Lines <- CloudSettings[p].lines,
  N_SCANS <- CloudSettings[p].n_scans, point_filter_num <- CloudSettings[p].filter,
  Gaps <- CloudSettings[p].gaps, Jump <- CloudSettings[p].jump, Turn <- CloudSettings[p].turn,
  Starts <- CloudSettings[p].starts, MaxPoints <- CloudSettings[p].max_points
Clouds == DOMAIN CloudSettings

TestedClouds ==
  [stamped |->
     [lidars |-> {"AVIA", "L515", "OUST64", "PANDAR128", "ROBOSENSE", "XT32", "VELO16"},
      lines |-> {0, 1}, n_scans |-> 2, filter |-> 2, gaps |-> {-2, 0, 1, 5}, jump |-> 4,
      turn |-> 8, starts |-> {0}, max_points |-> 4],
   rotor |->
     [lidars |-> {"VELO16", "AVIA"}, lines |-> {0, 1}, n_scans |-> 1, filter |-> 1,
      gaps |-> {0, 2, 3}, jump |-> 4, turn |-> 6, starts |-> {-3, -1, 0, 2}, max_points |-> 4]]

(* Synchronisation with an IMU and without: scans of no point, one, two.   *)
Front(p) == INSTANCE FrontEndModes WITH
  Mode <- ModeSettings[p].mode, ScanTimes <- ModeSettings[p].scans,
  Sizes <- ModeSettings[p].sizes, Span <- ModeSettings[p].span,
  ImuTimes <- ModeSettings[p].imus, MaxIniCount <- ModeSettings[p].ini_count,
  StoresEmpty <- ModeSettings[p].stores_empty
Modes == DOMAIN ModeSettings

TestedModes ==
  [lio |-> [mode |-> "ONLY_LIO", scans |-> {1, 4, 7}, sizes |-> {0, 1, 2}, span |-> 2,
            imus |-> {1, 2, 3, 4, 6, 7, 9, 10}, ini_count |-> 1, stores_empty |-> FALSE],
   lo |-> [mode |-> "ONLY_LO", scans |-> 1..8, sizes |-> {0, 1, 2}, span |-> 2,
           imus |-> {}, ini_count |-> 1, stores_empty |-> FALSE]]

ASSUME InputsAssumption ==
  /\ Clouds # {} /\ \A p \in Clouds : Cloud(p)!PreprocessAssumption
  /\ Modes # {} /\ \A p \in Modes : Front(p)!FrontEndModesAssumption

-----------------------------------------------------------------------------
Parts ==
  Maps \union Windows \union Clouds \union Modes
    \union {"tree", "build", "travel", "match", "align"}

(* The settings of the part that moves, or any if another one does.        *)
OneOf(S) == IF part \in S THEN part ELSE CHOOSE p \in S : TRUE

(* A part that does not move stays in one of its initial states.           *)
Any(S) == CHOOSE x \in S : TRUE
Resting ==
  /\ part \in Maps \/ view = Any(MapSettings[OneOf(Maps)].views)
  /\ part = "align" \/ (total_points = 0 /\ ~inverse)
  /\ \/ part \in Windows
     \/ LET settings == WindowSettings[OneOf(Windows)]
        IN  /\ <<width, height>> = Any(settings.images)
            /\ grid_size = Any(settings.grid_sizes) /\ grid_n_height = Any(settings.grid_heights)
            /\ ~inverse_composition_en
  /\ \/ part \in Clouds
     \/ LET settings == CloudSettings[OneOf(Clouds)]
        IN  lidar = Any(settings.lidars) /\ start = Any(settings.starts) /\ given_offset_time
  /\ part \in Modes \/ last_prop_end = 0

OdometryInit ==
  /\ part \in Parts
  /\ CASE part = "travel" -> Travel!Init [] part = "build" -> Build!Init
       [] OTHER -> Tree!Init
  /\ Match!Init
  /\ \E p \in Maps : p = OneOf(Maps) /\ Visual(p)!Init
  /\ Init
  /\ \E p \in Windows : p = OneOf(Windows) /\ Window(p)!Init
  /\ \E p \in Clouds : p = OneOf(Clouds) /\ Cloud(p)!Init
  /\ \E p \in Modes : p = OneOf(Modes) /\ Front(p)!Init
  /\ Resting

Groups == {"voxels", "lidar", "map", "visual", "window", "preprocess", "modes"}

Still(g) ==
  CASE g = "voxels" -> UNCHANGED voxelVars
    [] g = "lidar" -> UNCHANGED lidarVars
    [] g = "map" -> UNCHANGED visualMapVars
    [] g = "visual" -> UNCHANGED vars
    [] g = "window" -> UNCHANGED windowVars
    [] g = "preprocess" -> UNCHANGED preprocessVars
    [] g = "modes" -> UNCHANGED modeVars

(* Nothing but this group of variables changes.                            *)
Only(g) == UNCHANGED part /\ \A h \in Groups \ {g} : Still(h)

(* The bounds on scans, frames and messages are reached; the two updates   *)
(* and a cloud rest only when they are done.                               *)
Rests ==
  /\ \/ part \in {"tree", "build", "travel"} \union Modes
     \/ part \in Maps /\ mapPc = "idle"
     \/ part = "match" /\ lidarPc = "done"
     \/ part = "align" /\ pc = "done"
     \/ part \in Clouds /\ preprocessPc = "done"
  /\ UNCHANGED allVars

OdometryNext ==
  \/ part = "tree" /\ Tree!Next /\ Only("voxels")
  \/ part = "build" /\ Build!Next /\ Only("voxels")
  \/ part = "travel" /\ Travel!Next /\ Only("voxels")
  \/ part = "match" /\ Match!Next /\ Only("lidar")
  \/ \E p \in Maps : part = p /\ Visual(p)!Next /\ Only("map")
  \/ part = "align" /\ Next /\ Only("visual")
  \/ \E p \in Windows : part = p /\ Window(p)!Next /\ Only("window")
  \/ \E p \in Clouds : part = p /\ Cloud(p)!Next /\ Only("preprocess")
  \/ \E p \in Modes : part = p /\ Front(p)!Next /\ Only("modes")
  \/ Rests

OdometrySpec == OdometryInit /\ [][OdometryNext]_allVars

-----------------------------------------------------------------------------
(* UpdateOctoTree, find_correspond, mapSliding: a point is kept in a node  *)
(* whose cube contains it and is found where it was added, no leaf hides   *)
(* below a plane, a node fits only as many points as it may, and the map   *)
(* has no root outside the cube around the vehicle.                        *)
VoxelsSound ==
  /\ part = "tree" => Tree!PointsInTheirCube /\ Tree!FoundWhereAdded /\ Tree!NoHiddenLeaves
  /\ part = "build" => Build!PlanesBounded
  /\ part = "travel" => Travel!PointsInTheirCube /\ Travel!MapAroundVehicle

(* StateEstimation: no match is lost between the threads, every row of the *)
(* measurement is filled once, and the covariance is updated once, with    *)
(* the measurement the state was.                                          *)
MeasurementComplete ==
  part = "match" => Match!MatchesKept /\ Match!RowsFilled /\ Match!CovarianceOnce

(* retrieveFromVisualSparseMap, updateVisualMapPoints and                  *)
(* updateReferencePatch: a reference patch is a feature its point still    *)
(* has, a point of the submap has what the update reads of it, and a cell  *)
(* holds the nearest of its points.                                        *)
ReferencesAlive ==
  \A p \in Maps : part = p =>
    /\ Visual(p)!RefPatchAlive /\ Visual(p)!SubmapReferenced /\ Visual(p)!ObsBounded
    /\ Visual(p)!SubmapObserved /\ Visual(p)!NearestInCell /\ Visual(p)!FramesDistinct

(* initializeVIO, updateState, updateVisualMapPoints: a pixel inside the   *)
(* border has a cell of the grid, its patch is inside the image, and so is *)
(* every window read later, while the update has moved the point by no     *)
(* more than the border leaves over for the window's scale.                *)
PatchesInside ==
  \A p \in Windows : part = p =>
    Window(p)!CellInside /\ Window(p)!RetrievedInside /\ Window(p)!ReadsInside

(* Preprocess: the last point handed on is the latest, and times computed  *)
(* from the yaw are those of the rotor.                                    *)
PointTimesTrue ==
  \A p \in Clouds : part = p => Cloud(p)!InOrder /\ Cloud(p)!RingTimes

(* sync_packages without camera: scans are synchronised once and in order, *)
(* each with its own begin, with the IMU messages up to its end and with   *)
(* the motion they cover; no empty cloud is read, and with an IMU a        *)
(* keyframe is stamped with the end of its scan.                           *)
ScansSynchronised ==
  \A p \in Modes : part = p =>
    /\ Front(p)!TypeOK /\ Front(p)!ScansConserved /\ Front(p)!ImuOfInterval
    /\ Front(p)!MotionCovered
    /\ ModeSettings[p].mode = "ONLY_LIO" => Front(p)!KeyframeStamped
    /\ (ModeSettings[p].mode = "ONLY_LO" /\ ModeSettings[p].stores_empty) \/ Front(p)!NoEmptyRead
=============================================================================
