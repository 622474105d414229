------------------------------- MODULE VoxelMap -------------------------------
(***************************************************************************)
(* The LiDAR map (VoxelMapManager, VoxelOctoTree): root voxels in a hash   *)
(* map, each an octree whose nodes collect points until a plane is fitted  *)
(* or the node is divided.  Built from the first scan, updated with every  *)
(* scan, cut down around the vehicle by the sliding map.                   *)
(*                                                                         *)
(* Every rule is applied to x, y and z alike; the model has one axis, so a *)
(* node has two leaves.  A node is named by its root's location and the    *)
(* choices of leaves below it: <<loc, 0, 1>>.  Points are integers, lists  *)
(* of points are bags (their order has no effect), and whether the points  *)
(* of a node are a plane is left open.                                     *)
(***************************************************************************)
EXTENDS Integers, Sequences, FiniteSets, FiniteSetsExt, SequencesExt

CONSTANTS
    Points,            \* positions of points
    Positions,         \* positions of the vehicle
    Reach,             \* range of the LiDAR
    VoxelSize,         \* max_voxel_size_
    MaxLayer,          \* max_layer_
    LayerInitNum,      \* layer_init_num_, by layer + 1
    UpdateThreshold,   \* update_size_threshold_ (5)
    MaxPointsNum,      \* max_points_num_
    HalfMapSize, SlidingThresh,
    FirstScan,         \* bound: points of the first scan after down-sampling
    ScanSize,          \* bound: points of a later one
    MaxScans           \* bound

(* What an instance of this module gives its constants.                    *)
VoxelMapAssumption ==
    /\ Points \subseteq Int /\ Positions \subseteq Int /\ Reach \in Nat
    /\ {MaxLayer, UpdateThreshold, HalfMapSize, SlidingThresh, FirstScan, ScanSize,
        MaxScans} \subseteq Nat
    /\ MaxPointsNum \in Nat \ {0}
    /\ VoxelSize \in Nat /\ VoxelSize % (2 ^ (MaxLayer + 1)) = 0 /\ VoxelSize > 0
    /\ LayerInitNum \in Seq(Nat) /\ Len(LayerInitNum) > MaxLayer

VARIABLES
    tree,              \* voxel_map_: the nodes that exist
    phase,             \* what handleLIO does next
    scan,              \* the points yet to be added of this scan
    position_last_, last_slide_position,
    last,              \* the point added last, as a set
    scans
vars == <<tree, phase, scan, position_last_, last_slide_position, last, scans>>

Empty    == [p \in Points |-> 0]
Size(b)  == MapThenSumSet(LAMBDA p : b[p], Points)
Abs(i)   == IF i < 0 THEN -i ELSE i

(* The scans that can be taken at a position. *)
ScansAt(at, size) ==
    {b \in [Points -> 0..size] :
        /\ Size(b) \in 1..size
        /\ \A p \in Points : b[p] > 0 => Abs(p - at) <= Reach}

(***************************************************************************)
(* Where a point belongs.  Locations of negative coordinates are rounded   *)
(* by subtracting 1 before the cast, so a point on the border of two       *)
(* negative voxels belongs to the lower one.                               *)
(***************************************************************************)

Location(p) == IF p >= 0 THEN p \div VoxelSize ELSE -((VoxelSize - p) \div VoxelSize)

Width(n) == VoxelSize \div (2 ^ (Len(n) - 1))

(* voxel_center_ of a node: leaves are shifted by quater_length_. *)
Center(n) ==
    n[1] * VoxelSize + VoxelSize \div 2
    + MapThenSumSet(LAMBDA k : (2 * n[k] - 1) * (VoxelSize \div (2 ^ k)), 2..Len(n))

(* The node of layer k whose cube has the point: the leafnum of each layer. *)
Address(p) ==
    LET at[k \in 0..MaxLayer] ==
            IF k = 0 THEN <<Location(p)>>
            ELSE LET up == at[k - 1]
                 IN  Append(up, IF p > Center(up) THEN 1 ELSE 0)
    IN  at[MaxLayer]

Layer(n)   == Len(n) - 1
NodeOf(p, k) == SubSeq(Address(p), 1, k + 1)
Above(m, n)  == Len(m) < Len(n) /\ m = SubSeq(n, 1, Len(m))

(* A descent ends where points are kept. *)
(* Mutant: planes are passed. *)
KeepsPassing(n) == n \notin DOMAIN tree \/ ~ tree[n].init \/ Layer(n) >= MaxLayer

Keeps(n) == n \notin DOMAIN tree \/ ~ tree[n].init \/ tree[n].plane \/ Layer(n) >= MaxLayer

Target(p) == NodeOf(p, Min({k \in 0..MaxLayer : Keeps(NodeOf(p, k))}))

find_correspond(p) ==
    LET n == Target(p) IN IF n \in DOMAIN tree \/ Len(n) = 1 THEN n ELSE Front(n)

-------------------------------------------------------------------------------
NewNode == [init |-> FALSE, plane |-> FALSE, octo_state |-> 0, temp |-> Empty,
            new |-> 0, enable |-> TRUE]

Frozen(node) == [node EXCEPT !.enable = FALSE, !.temp = Empty, !.new = 0]

(* A node whose points have been fitted: with more than max_points_num_    *)
(* points a plane is final and the points are given back.                  *)
Fitted(n, points, plane) ==
    LET node == [NewNode EXCEPT !.init = TRUE, !.plane = plane, !.temp = points,
                    !.octo_state = IF ~ plane /\ Layer(n) < MaxLayer THEN 1 ELSE 0]
    IN  IF plane /\ Size(points) > MaxPointsNum THEN Frozen(node) ELSE node

Within(n, points) == [p \in Points |-> IF NodeOf(p, Layer(n)) = n THEN points[p] ELSE 0]
Enough(n, points) == Size(Within(n, points)) > LayerInitNum[Len(n)]

Nodes(points) ==
    {NodeOf(p, k) : p \in {q \in Points : points[q] > 0}, k \in 0..MaxLayer}

(* init_octo_tree and cut_octo_tree: the node n and, where it and the      *)
(* nodes below it are no planes, the leaves that get its points.  planes   *)
(* are the nodes whose fit succeeds.                                       *)
Divided(n, points, planes) ==
    LET cut(m)  == Enough(m, points) /\ m \notin planes /\ Layer(m) < MaxLayer
        made    == {m \in Nodes(points) :
                        m = n \/ (Above(n, m) /\ \A a \in Nodes(points) :
                                      (a = n \/ Above(n, a)) /\ Above(a, m) => cut(a))}
    IN  [m \in made |->
            IF Enough(m, points) THEN Fitted(m, Within(m, points), m \in planes)
            ELSE [NewNode EXCEPT !.temp = Within(m, points), !.new = Size(Within(m, points))]]

(* An octree for a root, or for a leaf that has just become large enough. *)
init_octo_tree(n, points) ==
    {Divided(n, points, planes) :
        planes \in SUBSET {m \in Nodes(points) : (m = n \/ Above(n, m)) /\ Enough(m, points)}}

Add(points, p) == [points EXCEPT ![p] = @ + 1]

(* A point for a node that has been fitted. *)

Refitted(n, node, p) ==
    LET temp == Add(node.temp, p)
        full == IF node.plane THEN Size(temp) >= MaxPointsNum ELSE Size(temp) > MaxPointsNum
        grown(plane, new) ==
            LET r == [node EXCEPT !.temp = temp, !.plane = plane, !.new = new]
            IN  IF full THEN Frozen(r) ELSE r
    IN  IF ~ node.enable THEN {node}
        ELSE IF node.new + 1 > UpdateThreshold THEN {grown(plane, 0) : plane \in BOOLEAN}
        ELSE {grown(node.plane, node.new + 1)}

Merge(f, g) == [n \in DOMAIN f \cup DOMAIN g |-> IF n \in DOMAIN g THEN g[n] ELSE f[n]]

UpdateOctoTree(p) ==
    LET n    == Target(p)
        node == IF n \in DOMAIN tree THEN tree[n] ELSE NewNode
        temp == Add(node.temp, p)
    IN  \/ /\ ~ node.init /\ Size(temp) > LayerInitNum[Len(n)]
           /\ \E sub \in init_octo_tree(n, temp) : tree' = Merge(tree, sub)
        \/ /\ ~ node.init /\ Size(temp) <= LayerInitNum[Len(n)]
           /\ tree' = Merge(tree, [m \in {n} |->
                          [node EXCEPT !.temp = temp, !.new = node.new + 1]])
        \/ /\ node.init
           /\ \E r \in Refitted(n, node, p) : tree' = [tree EXCEPT ![n] = r]

-------------------------------------------------------------------------------
Init ==
    /\ tree = <<>> /\ phase = "scan"
    /\ scan = Empty
    /\ position_last_ = 0 /\ last_slide_position = 0
    /\ last = {} /\ scans = 0

(* The first scan: its points are put into roots, the roots divided; then  *)
(* the same points are added as those of every scan.                       *)
BuildVoxelMap ==
    /\ phase = "scan" /\ scans = 0
    /\ \E s \in ScansAt(position_last_, FirstScan) :
          /\ scan' = s
          /\ LET roots == {NodeOf(p, 0) : p \in {q \in Points : s[q] > 0}}
                 split(r) == IF Enough(r, s) THEN init_octo_tree(r, Within(r, s))
                             ELSE {[m \in {r} |-> [NewNode EXCEPT !.temp = Within(r, s),
                                                      !.new = Size(Within(r, s))]]}
             IN  \E f \in [roots -> UNION {split(r) : r \in roots}] :
                     /\ \A r \in roots : f[r] \in split(r)
                     /\ tree' = [n \in UNION {DOMAIN f[r] : r \in roots} |-> f[<<n[1]>>][n]]
    /\ phase' = "update" /\ scans' = 1
    /\ UNCHANGED <<position_last_, last_slide_position, last>>

(* A later scan: StateEstimation has found the position. *)
NextScan ==
    /\ phase = "scan" /\ scans \in 1..(MaxScans - 1)
    /\ position_last_' \in Positions
    /\ scan' \in ScansAt(position_last_', ScanSize)
    /\ phase' = "update" /\ scans' = scans + 1
    /\ UNCHANGED <<tree, last_slide_position, last>>

(* The loop of UpdateVoxelMap, a point at a time. *)
UpdateVoxelMap ==
    /\ phase = "update"
    /\ \E p \in Points :
          /\ scan[p] > 0
          /\ UpdateOctoTree(p)
          /\ scan' = [scan EXCEPT ![p] = @ - 1]
          /\ last' = {p}
    /\ UNCHANGED <<phase, position_last_, last_slide_position, scans>>

clearMemOutOfMap(at) ==
    tree' = [n \in {m \in DOMAIN tree : Abs(m[1] - at) <= HalfMapSize} |-> tree[n]]

mapSliding ==
    /\ phase = "update" /\ scan = Empty
    /\ phase' = "scan"
    /\ IF Abs(position_last_ - last_slide_position) < SlidingThresh
       THEN UNCHANGED <<tree, last_slide_position, last>>
       ELSE /\ last_slide_position' = position_last_
            /\ clearMemOutOfMap(Location(position_last_))
            /\ last' = {}
    /\ UNCHANGED <<scan, position_last_, scans>>

Next == BuildVoxelMap \/ NextScan \/ UpdateVoxelMap \/ mapSliding
Spec == Init /\ [][Next]_vars

-------------------------------------------------------------------------------
(* A point is kept in a node whose cube contains it, borders and negative  *)
(* coordinates included.                                                   *)
PointsInTheirCube ==
    \A n \in DOMAIN tree, p \in Points :
        tree[n].temp[p] > 0 => 2 * Abs(p - Center(n)) <= Width(n)

(* find_correspond and UpdateOctoTree are two descents: the point that was *)
(* added last is in the node the visual part finds for it, unless that     *)
(* node is final.                                                          *)
FoundWhereAdded ==
    \A p \in last :
        /\ find_correspond(p) \in DOMAIN tree
        /\ tree[find_correspond(p)].enable => tree[find_correspond(p)].temp[p] > 0

(* A search stops at a plane: no node has leaves that it would not reach.  *)
NoHiddenLeaves ==
    \A n, m \in DOMAIN tree : Above(n, m) => tree[n].init /\ ~ tree[n].plane

(* Points are given back: a plane never keeps more than max_points_num_.   *)
PlanesBounded ==
    \A n \in DOMAIN tree : tree[n].plane => Size(tree[n].temp) <= MaxPointsNum

(* With the sliding map the voxels stay around the vehicle, whatever it    *)
(* travelled since it slid the map last.                                   *)
MapAroundVehicle ==
    phase = "scan" => \A n \in DOMAIN tree :
        Abs(Center(<<n[1]>>) - position_last_)
            <= Max({(HalfMapSize + 2) * VoxelSize, Reach + SlidingThresh + VoxelSize})
               + SlidingThresh

===============================================================================
