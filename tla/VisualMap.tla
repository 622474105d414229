------------------------------ MODULE VisualMap ------------------------------
(***************************************************************************)
(* The visual sparse map (VIOManager, VisualPoint): points in voxels, each *)
(* with the patches that observed it, one of them its reference.  A frame  *)
(* looks up the points near the scan, keeps the nearest of every grid      *)
(* cell, updates the state with the accepted ones, adds points to the free *)
(* cells, and revises the patches of the points it used.                   *)
(*                                                                         *)
(* The world has one axis.  A view says in which cell a position appears,  *)
(* how far it is and whether it is in front of the camera; photometric     *)
(* tests, scores and normals are left open.                                *)
(***************************************************************************)
EXTENDS Integers, Sequences, FiniteSets, Functions

CONSTANTS
    Positions,         \* coordinates of map and scan points
    VoxelSize,
    Cells,             \* 1..length, the cells of the image grid
    Views,             \* records [cell, dist, front] over Positions
    Scans,             \* sets of Positions a scan may hold
    MinScan,           \* pg.size() <= 10
    Rays,              \* Rays[c]: sample points of a cell's ray, none at the border or
                       \* without raycast_en
    PlaneCenter,       \* PlaneCenter[k]: set with the plane centre of LiDAR voxel k
    MaxObs,            \* obs_.size() >= 30
    RefObs,            \* obs_.size() <= 5
    ConvObs,           \* obs_.size() > 10
    Scores, NaN,       \* values of score_; NaN compares with nothing
    NormalEn,          \* normal_en
    MaxFrames, MaxPoints   \* bounds of the model

Out == 0               \* the "cell" of a position outside the image border
FarAway == 10000       \* the distance resetGrid fills in

(* What an instance of this module gives its constants.                    *)
VisualMapAssumption ==
    /\ Positions \subseteq Int /\ VoxelSize \in Nat \ {0}
    /\ IsFiniteSet(Cells) /\ Cells = 1..Cardinality(Cells)
    /\ \A v \in Views : /\ v.cell \in [Positions -> Cells \cup {Out}]
                        /\ v.dist \in [Positions -> 0..FarAway]
                        /\ v.front \in [Positions -> BOOLEAN]
    /\ \A s \in Scans : s \subseteq Positions
    /\ Rays \in [Cells -> Seq(Positions)]
    /\ \A k \in DOMAIN PlaneCenter : PlaneCenter[k] \subseteq Positions
    /\ {MaxObs, ConvObs, RefObs, MaxFrames, MaxPoints, MinScan} \subseteq Nat
    /\ MaxObs > ConvObs /\ ConvObs >= RefObs /\ RefObs >= 1
    /\ Scores \subseteq Int /\ 0 \in Scores /\ NaN \notin Scores /\ NormalEn \in BOOLEAN

VARIABLES
    pc, i,             \* the step of processFrame and its loop index
    frame, view, pg,   \* new_frame_->id_, its pose, the scan
    pts,               \* the points of feat_map
    grid_num, map_dist,
    retrieve,          \* retrieve_voxel_points[c]: a point, as a set
    sub_feat_map,      \* voxel keys
    fromPlanes,        \* add_from_voxel_map
    submap,            \* visual_submap->voxel_points
    update_flag
grid == <<grid_num, map_dist, retrieve, sub_feat_map, fromPlanes>>
vars == <<pc, i, frame, view, pg, pts, grid, submap, update_flag>>

length == Cardinality(Cells)

Init ==
    /\ pc = "idle" /\ i = 0 /\ frame = 0 /\ view \in Views /\ pg = {}
    /\ pts = <<>> /\ submap = <<>>
    /\ grid_num = [c \in Cells |-> "unknown"] /\ map_dist = [c \in Cells |-> FarAway]
    /\ retrieve = [c \in Cells |-> {}] /\ sub_feat_map = {} /\ fromPlanes = <<>>
    /\ update_flag = [c \in Cells |-> FALSE]

(* insertPointIntoVoxelMap, updateReferencePatch: one off the quotient of a *)
(* negative coordinate, then the conversion to an integer truncates.        *)
InsertKey(x) == IF x < 0 THEN -((-x) \div VoxelSize) - 1 ELSE x \div VoxelSize

(* retrieveFromVisualSparseMap: one off the rounded down quotient. *)
LookupKey(x) == LET q == x \div VoxelSize IN IF q < 0 THEN q - 1 ELSE q

-------------------------------------------------------------------------------
(* VisualPoint.  A feature is the frame it comes from and its score.       *)
Ids(p) == {p.obs[n].id : n \in DOMAIN p.obs}

addFrameRef(p, f) == [p EXCEPT !.obs = <<f>> \o @]

Without(obs, n) == SubSeq(obs, 1, n - 1) \o SubSeq(obs, n + 1, Len(obs))

(* Mutant: the reference is not given up with its feature. *)
deleteFeatureRefOnly(p, n) == [p EXCEPT !.obs = Without(@, n)]

deleteFeatureRef(p, n) == [p EXCEPT !.obs = Without(@, n), !.ref = @ \ {p.obs[n].id}]

(* The first of the lowest scores; the first of all when each is NaN. *)
findMinScoreFeature(p) ==
    LET valid == {n \in DOMAIN p.obs : p.obs[n].score # NaN}
        low   == {n \in valid : \A k \in valid : p.obs[n].score <= p.obs[k].score}
    IN IF low = {} THEN 1 ELSE CHOOSE n \in low : \A k \in low : n <= k

(* The feature the reference points to, if there is one, is left alone. *)
deleteNonRefPatchFeatures(p) ==
    LET kept == {n \in DOMAIN p.obs : p.obs[n].id \in p.ref}
    IN [p EXCEPT !.obs = IF kept = {} THEN <<>> ELSE <<@[CHOOSE n \in kept : TRUE]>>]

-------------------------------------------------------------------------------

resetGrid ==
    /\ grid_num' = [c \in Cells |-> "unknown"] /\ map_dist' = [c \in Cells |-> FarAway]
    /\ retrieve' = [c \in Cells |-> {}] /\ update_flag' = [c \in Cells |-> FALSE]

(* processFrame up to the retrieval, which returns at once on an empty map. *)
BeginFrame ==
    /\ pc = "idle" /\ frame < MaxFrames
    /\ frame' = frame + 1 /\ view' \in Views /\ pg' \in Scans
    /\ resetGrid
    /\ pc' = IF pts = <<>> THEN "generate" ELSE "project"
    /\ UNCHANGED <<i, pts, sub_feat_map, fromPlanes, submap>>

(* Points of feat_map in the given voxels that the frame has in view. *)
InView(keys) ==
    {k \in DOMAIN pts : /\ pts[k].key \in keys /\ pts[k].obs # <<>>
                        /\ view.front[pts[k].pos] /\ view.cell[pts[k].pos] # Out}
InCell(ks, c) == {k \in ks : view.cell[pts[k].pos] = c}
Dist(k) == view.dist[pts[k].pos]

(* The points that leave a cell to the last of the nearest, in some order  *)
(* of the voxels.                                                          *)
Closest(ks, c) ==
    {k \in InCell(ks, c) : Dist(k) <= map_dist[c] /\ \A n \in InCell(ks, c) : Dist(k) <= Dist(n)}

(* Points of these voxels compete for the cells. *)
Compete(ks) ==
    /\ grid_num' = [c \in Cells |-> IF InCell(ks, c) # {} THEN "map" ELSE grid_num[c]]
    /\ retrieve' \in {r \in [Cells -> SUBSET DOMAIN pts] : \A c \in Cells :
           IF Closest(ks, c) = {} THEN r[c] = retrieve[c] ELSE \E k \in Closest(ks, c) : r[c] = {k}}
    /\ map_dist' = [c \in Cells |->
           IF Closest(ks, c) = {} THEN map_dist[c] ELSE Dist(CHOOSE k \in Closest(ks, c) : TRUE)]

Reset == <<>>          \* visual_submap->reset()

(* The voxels of the scan and the points in them. *)
Project ==
    /\ pc = "project"
    /\ submap' = Reset /\ fromPlanes' = <<>>
    /\ sub_feat_map' = {LookupKey(x) : x \in pg}
    /\ Compete(InView(sub_feat_map'))
    /\ pc' = "raycast" /\ i' = 1
    /\ UNCHANGED <<frame, view, pg, pts, update_flag>>

(* The ray of a cell no point fell into ends at a voxel of the scan, at a  *)
(* voxel with points, or at a plane of the LiDAR map.                      *)
Voxels == {pts[k].key : k \in DOMAIN pts}
Ends(x) == LookupKey(x) \in sub_feat_map \cup Voxels \/ PlaneCenter[LookupKey(x)] # {}
FirstStop(c) == {n \in DOMAIN Rays[c] : Ends(Rays[c][n]) /\ \A k \in 1..(n - 1) : ~Ends(Rays[c][k])}

RayCast ==
    /\ pc = "raycast" /\ i <= length
    /\ i' = i + 1
    /\ IF grid_num[i] = "map" \/ FirstStop(i) = {}
       THEN UNCHANGED grid
       ELSE LET key == LookupKey(Rays[i][CHOOSE n \in FirstStop(i) : TRUE])
            IN \/ key \in sub_feat_map /\ UNCHANGED grid
               \/ /\ key \notin sub_feat_map /\ key \in Voxels
                  /\ Compete(InView({key}))
                  /\ sub_feat_map' = IF InView({key}) # {} THEN sub_feat_map \cup {key} ELSE sub_feat_map
                  /\ UNCHANGED fromPlanes
               \/ /\ key \notin sub_feat_map \cup Voxels
                  /\ \E x \in PlaneCenter[key] : fromPlanes' = Append(fromPlanes, x)
                  /\ UNCHANGED <<grid_num, map_dist, retrieve, sub_feat_map>>
    /\ UNCHANGED <<pc, frame, view, pg, pts, submap, update_flag>>

EndRayCast ==
    /\ pc = "raycast" /\ i > length
    /\ pc' = "match" /\ i' = 1
    /\ UNCHANGED <<frame, view, pg, pts, grid, submap, update_flag>>

(* With normals the only feature, the reference a point has, or the one    *)
(* most like the others becomes the reference; without, the closest view   *)
(* is used and the reference left alone.                                   *)
ChooseRef(p) ==
    IF ~NormalEn THEN {p}
    ELSE IF Len(p.obs) = 1 \/ p.ref = {} THEN {[p EXCEPT !.ref = {id}] : id \in Ids(p)}
    ELSE {p}

(* A cell's point is dropped at a depth discontinuity, or after the choice *)
(* of the reference as an outlier, or it joins the submap.                 *)
Match ==
    /\ pc = "match" /\ i <= length
    /\ i' = i + 1
    /\ IF grid_num[i] # "map" THEN UNCHANGED <<pts, submap>>
       ELSE LET k == CHOOSE n \in retrieve[i] : TRUE
            IN \/ UNCHANGED <<pts, submap>>
               \/ /\ \E p \in ChooseRef(pts[k]) : pts' = [pts EXCEPT ![k] = p]
                  /\ submap' \in {submap, Append(submap, k)}
    /\ UNCHANGED <<pc, frame, view, pg, grid, update_flag>>

(* computeJacobianAndUpdateEKF and updateFrameState move the frame. *)
UpdateEKF ==
    /\ pc = "match" /\ i > length
    /\ view' \in (IF submap = <<>> THEN {view} ELSE Views)
    /\ pc' = "generate"
    /\ UNCHANGED <<i, frame, pg, pts, grid, submap, update_flag>>

-------------------------------------------------------------------------------
NewPoint(x) ==
    [pos |-> x, key |-> InsertKey(x), converged |-> FALSE, ref |-> {},
     obs |-> <<[id |-> frame, score |-> 0]>>]

(* generateVisualMapPoints: in each cell without a map point, the scan or  *)
(* plane point with the strongest corner, if one scores at all.            *)
Candidates(c) ==
    IF grid_num[c] = "map" THEN {}
    ELSE {x \in pg \cup Range(fromPlanes) : view.cell[x] = c}

Ascending ==
    {s \in UNION {[1..n -> Cells] : n \in 0..length} : \A j, k \in DOMAIN s : j < k => s[j] < s[k]}

Generate ==
    /\ pc = "generate"
    /\ \E cells \in Ascending : \E at \in [DOMAIN cells -> Positions] :
          /\ \A n \in DOMAIN cells : at[n] \in Candidates(cells[n])
          /\ Cardinality(pg) <= MinScan => cells = <<>>
          /\ Len(pts) + Len(cells) <= MaxPoints
          /\ pts' = pts \o [n \in DOMAIN cells |-> NewPoint(at[n])]
          /\ grid_num' = [c \in Cells |-> IF c \in Range(cells) THEN "pointcloud" ELSE grid_num[c]]
    /\ pc' = "update" /\ i' = 1
    /\ UNCHANGED <<frame, view, pg, map_dist, retrieve, sub_feat_map, fromPlanes, submap, update_flag>>

Trim(p) == IF Len(p.obs) >= MaxObs THEN deleteFeatureRef(p, findMinScoreFeature(p)) ELSE p

(* updateVisualMapPoints: a point seen from far enough away from its       *)
(* oldest view gets a feature.                                             *)
UpdatePoint ==
    /\ pc = "update" /\ i <= Len(submap)
    /\ i' = i + 1
    /\ LET k == submap[i]
           p == pts[k]
           f == [id |-> frame, score |-> 0]
       IN IF p.converged
          THEN pts' = [pts EXCEPT ![k] = deleteNonRefPatchFeatures(p)] /\ UNCHANGED update_flag
          ELSE \E add_flag \in BOOLEAN :
                  /\ pts' = [pts EXCEPT ![k] = IF add_flag THEN addFrameRef(Trim(p), f) ELSE Trim(p)]
                  /\ update_flag' = [update_flag EXCEPT ![i] = @ \/ add_flag]
    /\ UNCHANGED <<pc, frame, view, pg, grid, submap>>

EndUpdate ==
    /\ pc = "update" /\ i > Len(submap)
    /\ pc' = "reference" /\ i' = 1
    /\ UNCHANGED <<frame, view, pg, pts, grid, submap, update_flag>>

Revised(p) == ~p.converged /\ Len(p.obs) > RefObs /\ update_flag[i]

(* The best score, the first in the list of equals; none if every one is NaN. *)
Best(obs) ==
    LET valid == {n \in DOMAIN obs : obs[n].score # NaN}
        top   == {n \in valid : \A k \in valid : obs[n].score >= obs[k].score}
    IN {obs[n].id : n \in {m \in top : \A k \in top : m <= k}}

(* updateReferencePatch: a plane whose normal no longer changes converges  *)
(* the point; then every feature is scored and the best is the reference.  *)
UpdateReference ==
    /\ pc = "reference" /\ i <= Len(submap)
    /\ i' = i + 1
    /\ LET k == submap[i]
           p == pts[k]
       IN IF ~Revised(p) THEN UNCHANGED pts
          ELSE \E score \in [DOMAIN p.obs -> Scores \cup {NaN}],
                  settled \in (IF Len(p.obs) > ConvObs THEN BOOLEAN ELSE {FALSE}) :
                  LET obs == [n \in DOMAIN p.obs |-> [p.obs[n] EXCEPT !.score = score[n]]]
                  IN pts' = [pts EXCEPT ![k] =
                         [p EXCEPT !.obs = obs, !.converged = settled,
                                   !.ref = IF Best(obs) = {} THEN @ ELSE Best(obs)]]
    /\ UNCHANGED <<pc, frame, view, pg, grid, submap, update_flag>>

EndFrame ==
    /\ pc = "reference" /\ i > Len(submap)
    /\ pc' = "idle"
    /\ UNCHANGED <<i, frame, view, pg, pts, grid, submap, update_flag>>

Next == \/ BeginFrame \/ Project \/ RayCast \/ EndRayCast \/ Match \/ UpdateEKF
        \/ Generate \/ UpdatePoint \/ EndUpdate \/ UpdateReference \/ EndFrame

Spec == Init /\ [][Next]_vars

-------------------------------------------------------------------------------
(* A reference patch is one of the point's features: none is used after it *)
(* is deleted by the trimming of the list or by the convergence.           *)
RefPatchAlive == \A k \in DOMAIN pts : pts[k].ref \subseteq Ids(pts[k])

(* With normals every point in the submap has a reference when the state   *)
(* is updated with its patch.                                              *)
SubmapReferenced ==
    pc = "match" /\ NormalEn => \A n \in DOMAIN submap : pts[submap[n]].ref # {}

(* However long a point is tracked, its list of features stays in bounds.  *)
ObsBounded == \A k \in DOMAIN pts : Len(pts[k].obs) <= MaxObs

(* A point the frame works on has features: updateVisualMapPoints reads    *)
(* the last of the list.                                                   *)
SubmapObserved ==
    pc \in {"match", "generate", "update"} =>
        \A n \in DOMAIN submap : n >= i \/ pc # "update" => pts[submap[n]].obs # <<>>

(* A cell marked as a map cell holds the nearest of the points in the      *)
(* scanned voxels that fall into it (voxels on the positive side, where    *)
(* the keys of insertion and lookup agree).                                *)
NearestInCell ==
    pc \in {"raycast", "match"} => \A c \in Cells :
        /\ grid_num[c] = "map" =>
              \E k \in DOMAIN pts : /\ retrieve[c] = {k} /\ view.cell[pts[k].pos] = c
                                    /\ map_dist[c] = Dist(k)
        /\ \A k \in InCell(InView(Voxels), c) :
              (\E x \in pg : x >= 0 /\ InsertKey(x) = pts[k].key) =>
                  grid_num[c] = "map" /\ map_dist[c] <= Dist(k)

(* A point gets at most one feature from a frame: averages over the other  *)
(* frames of a point with two features never divide by zero.               *)
FramesDistinct == \A k \in DOMAIN pts : Cardinality(Ids(pts[k])) = Len(pts[k].obs)

===============================================================================
