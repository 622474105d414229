---------------------------- MODULE PointConverter ----------------------------
(***************************************************************************)
(* The two converters of the LiDAR's PointCloud2:                          *)
(*   livox_pointcloud_converter  to a cloud with times in seconds,         *)
(*   pointcloud2_to_custom       to the driver's CustomMsg.                *)
(* Both check the layout of the cloud and then walk its bytes.             *)
(*                                                                         *)
(* Times are nanoseconds.  A time of this size is no exact double: it is   *)
(* rounded to a multiple of Ulp (256 ns for the present epoch).            *)
(***************************************************************************)
EXTENDS Integers, Sequences, FiniteSets

CONSTANTS
    Layouts,       \* [offsets, types, step]: the fields of the clouds to come
    Shapes,        \* [width, height, row_step, size]: their dimensions
    Stamps,        \* header stamps
    Times,         \* sequences of the points' times, in order
    Ulp,           \* spacing of doubles at the size of a time
    MaxOffset      \* largest uint32

(* What an instance of this module gives its constants: a cloud has a time *)
(* for each of its points, and they come in order.                         *)
PointConverterAssumption ==
    /\ Ulp \in Nat \ {0} /\ MaxOffset \in Nat /\ Stamps \subseteq Int
    /\ \A l \in Layouts : l.step \in Nat /\ \A f \in DOMAIN l.offsets : l.offsets[f] \in Nat
    /\ \A s \in Shapes : {s.width, s.height, s.row_step, s.size} \subseteq Nat
    /\ \A t \in Times : t \in Seq(Int) /\ \A i, j \in DOMAIN t : i < j => t[i] <= t[j]
    /\ \A s \in Shapes, t \in Times : s.height * s.width <= Len(t)

VARIABLES
    cloud,         \* the cloud both nodes received
    reads,         \* ends of the bytes read of it
    relative,      \* the first node's times; <<>> before or without an output
    custom,        \* the second node's offset_time
    pending        \* the nodes that have yet to convert it
vars == <<cloud, reads, relative, custom, pending>>

Sizes == [x |-> 4, y |-> 4, z |-> 4, intensity |-> 4, tag |-> 1, line |-> 1,
          timestamp |-> 8]
Types == [f \in DOMAIN Sizes |->
             IF f = "timestamp" THEN "FLOAT64"
             ELSE IF f \in {"tag", "line"} THEN "UINT8" ELSE "FLOAT32"]

(* To the nearest double, ties to the even one. *)
Double(t) ==
    LET q == t \div Ulp
        r == 2 * (t % Ulp)
    IN  Ulp * (IF r < Ulp \/ (r = Ulp /\ q % 2 = 0) THEN q ELSE q + 1)

Init ==
    /\ \E l \in Layouts, s \in Shapes, h \in Stamps, t \in Times, b \in BOOLEAN :
          cloud = [layout |-> l, shape |-> s, stamp |-> h, times |-> t, is_bigendian |-> b]
    /\ reads = {} /\ relative = <<>> /\ custom = <<>>
    /\ pending = {"xyzit", "custom"}

(* Mutant: the last point's row is not counted to its end. *)
RequiredSizeShort(s, step) == IF s.height = 0 THEN 0 ELSE (s.height - 1) * s.row_step

RequiredSize(s, step) ==
    IF s.height = 0 THEN 0 ELSE (s.height - 1) * s.row_step + s.width * step

FieldOk(l, f) ==
    f \in DOMAIN l.offsets /\ l.types[f] = Types[f] /\ l.offsets[f] + Sizes[f] <= l.step

Valid(fields) ==
    /\ \A f \in fields : FieldOk(cloud.layout, f)
    /\ RequiredSize(cloud.shape, cloud.layout.step) <= cloud.shape.size
    /\ ~ cloud.is_bigendian

xyzitFields == {"x", "y", "z", "intensity", "timestamp"}
validate_input == Valid(xyzitFields)
validate       == Valid(DOMAIN Sizes)

(* Ends of the bytes that a walk over rows and columns reads. *)
Walk(fields) ==
    {row * cloud.shape.row_step + col * cloud.layout.step + cloud.layout.offsets[f] + Sizes[f] :
        row \in 0..(cloud.shape.height - 1), col \in 0..(cloud.shape.width - 1), f \in fields}

Points == cloud.shape.height * cloud.shape.width

convert ==
    /\ "xyzit" \in pending /\ pending' = pending \ {"xyzit"}
    /\ \/ ~ validate_input /\ UNCHANGED <<reads, relative>>
       \/ /\ validate_input
          /\ reads' = reads \cup Walk(xyzitFields)
          /\ relative' = [i \in 1..Points |-> Double(cloud.times[i]) - Double(cloud.stamp)]
    /\ UNCHANGED <<cloud, custom>>

to_offset_time(timestamp, timebase) ==
    IF timestamp - timebase <= 0 THEN 0
    ELSE IF timestamp - timebase > MaxOffset THEN MaxOffset ELSE timestamp - timebase

convert_custom ==
    /\ "custom" \in pending /\ pending' = pending \ {"custom"}
    /\ \/ ~ validate /\ UNCHANGED <<reads, custom>>
       \/ /\ validate
          /\ reads' = reads \cup Walk(DOMAIN Sizes)
          /\ custom' = [i \in 1..Points |->
                            to_offset_time(Double(cloud.times[i]), Double(cloud.stamp))]
    /\ UNCHANGED <<cloud, relative>>

Next == convert \/ convert_custom
Spec == Init /\ [][Next]_vars

-------------------------------------------------------------------------------
(* A cloud that passed the checks is walked inside its data, whatever its  *)
(* rows are padded to.                                                     *)
ReadsInside == \A e \in reads : e <= cloud.shape.size

(* Points in the order of time stay in it after rounding, clamping and     *)
(* saturation.                                                             *)
OffsetsInOrder ==
    \A i, j \in DOMAIN custom : i < j => custom[i] <= custom[j]

(* The two nodes agree on a cloud both converted: the same points with     *)
(* the same times, but for those the unsigned offset cannot hold.          *)
ConvertersAgree ==
    custom # <<>> /\ relative # <<>> =>
        /\ DOMAIN custom = DOMAIN relative
        /\ \A i \in DOMAIN custom :
               relative[i] \in 0..MaxOffset => custom[i] = relative[i]
===============================================================================
