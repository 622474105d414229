------------------------------ MODULE Preprocess ------------------------------
(***************************************************************************)
(* The handlers of Preprocess without feature extraction: one cloud is     *)
(* read point by point, thinned, cleared of points in the blind zone, and  *)
(* each point kept gets its time in the scan (curvature).  The front end   *)
(* takes the time of the last point as the end of the scan.                *)
(*                                                                         *)
(* Time is counted in steps of 1/240 ms; an angle is a number of steps of  *)
(* the rotor, of which Turn make a revolution.  What arrives is left open: *)
(* gaps between points, rings without an echo, points too near.            *)
(***************************************************************************)
EXTENDS Integers, Sequences, Functions

CONSTANTS
    Lidars,            \* values of lidar_type the run considers
    Lines, N_SCANS,    \* lines (rings) of the points, scan_line
    point_filter_num,
    Gaps,              \* steps from one point of the message to the next
    Jump,              \* 1.0 ms, the largest step taken as it is
    Turn,              \* steps of the rotor in a revolution, even
    Starts,            \* angles at which a scan may start
    MaxPoints          \* bound on the points of a message

(* What an instance of this module gives its constants.                    *)
PreprocessAssumption ==
    /\ Lines \subseteq Nat /\ N_SCANS \in Nat /\ point_filter_num \in Nat \ {0}
    /\ Gaps \subseteq Int /\ Jump \in Nat \ {0} /\ Turn \in Nat \ {0} /\ Turn % 2 = 0
    /\ Starts \subseteq Int /\ MaxPoints \in Nat

VARIABLES
    pc, lidar,
    i,                 \* index of the next point
    now,               \* offset time of the last point; angle of the rotor
    given_offset_time,
    valid_num,
    full,              \* pl_full[i - 1].curvature
    ring,              \* ring[l]: is_first, yaw_fp, time_last, and the angles of the
                       \* first and the last point
    start,             \* angle of the rotor when the scan starts
    pl_surf            \* points kept: index, line, time given and true time
vars == <<pc, lidar, i, now, given_offset_time, valid_num, full, ring, start, pl_surf>>

NoPoint == [is_first |-> TRUE, first |-> 0, last |-> 0, yaw_fp |-> 0, time_last |-> 0]

Init ==
    /\ pc = "points" /\ lidar \in Lidars /\ i = 0 /\ now = 0
    /\ given_offset_time \in (IF lidar = "VELO16" THEN BOOLEAN ELSE {TRUE})
    /\ valid_num = 0 /\ full = 0 /\ start \in Starts
    /\ ring = [l \in Lines |-> NoPoint] /\ pl_surf = <<>>

Keep(line, curvature, true) ==
    pl_surf' = Append(pl_surf, [n |-> i, line |-> line, curvature |-> curvature, true |-> true])
Filtered == i % point_filter_num = 0
Abs(x) == IF x < 0 THEN -x ELSE x

Take(types) == pc = "points" /\ lidar \in types /\ i < MaxPoints /\ i' = i + 1

-------------------------------------------------------------------------------
(* A step of a millisecond or more is taken for an error of the clock, and *)
(* the point put right behind the one before it.                           *)
AviaTime(offset) ==
    IF i = 0 THEN IF offset < Jump THEN offset ELSE 0
    ELSE IF Abs(offset - full) < Jump THEN offset ELSE full + 1

(* A point of a line that is not configured leaves pl_full[i] as resize    *)
(* made it.                                                                *)
avia_handler ==
    /\ Take({"AVIA"})
    /\ \E gap \in Gaps, line \in Lines, blind \in BOOLEAN :
          /\ gap >= 0 /\ now' = IF i = 0 THEN 0 ELSE now + gap
          /\ IF line < N_SCANS
             THEN /\ valid_num' = valid_num + 1
                  /\ full' = AviaTime(now')
                  /\ IF valid_num' % point_filter_num = 0 /\ ~blind
                     THEN Keep(line, full', now') ELSE UNCHANGED pl_surf
             ELSE full' = 0 /\ UNCHANGED <<valid_num, pl_surf>>
    /\ UNCHANGED <<pc, lidar, given_offset_time, ring, start>>

(* A depth camera: every point has time 0. *)
l515_handler ==
    /\ Take({"L515"})
    /\ \E blind \in BOOLEAN : IF Filtered /\ ~blind THEN Keep(0, 0, 0) ELSE UNCHANGED pl_surf
    /\ UNCHANGED <<pc, lidar, now, given_offset_time, valid_num, full, ring, start>>

(* Points carry their times, in any order: from the start of the scan      *)
(* (oust64_handler), or from the first point of the message                *)
(* (Pandar128_handler, robosense_handler, xt32_handler).                   *)
Stamped(types, gaps) ==
    /\ Take(types)
    /\ \E gap \in gaps, blind \in BOOLEAN :
          /\ now' = IF i = 0 THEN 0 ELSE now + gap
          /\ IF Filtered /\ ~blind THEN Keep(0, now', now') ELSE UNCHANGED pl_surf
    /\ UNCHANGED <<pc, lidar, given_offset_time, valid_num, full, ring, start>>

oust64_handler    == Stamped({"OUST64"}, Gaps)
Pandar128_handler == Stamped({"PANDAR128"}, Gaps)
robosense_handler == Stamped({"ROBOSENSE"}, Gaps)
xt32_handler      == Stamped({"XT32"}, {g \in Gaps : g >= 0})

-------------------------------------------------------------------------------
(* atan2 of a rotor that turns clockwise, from just above -180 to 180. *)
Yaw(angle) ==
    LET y == (-angle) % Turn IN IF y > Turn \div 2 THEN y - Turn ELSE y

(* Mutant: a point at the first point's yaw belongs to the next turn. *)
SweptStrict(r, yaw) == IF yaw < r.yaw_fp THEN r.yaw_fp - yaw ELSE r.yaw_fp - yaw + Turn

Swept(r, yaw) == IF yaw <= r.yaw_fp THEN r.yaw_fp - yaw ELSE r.yaw_fp - yaw + Turn

(* The angle swept since the ring's first point, in the next turn if it    *)
(* falls behind the time before it.                                        *)
OffsetTime(r, yaw) ==
    LET t == Swept(r, yaw) IN IF t < r.time_last THEN t + Turn ELSE t

(* The rotor moves on and some ring has an echo, less than a turn after    *)
(* the one before it.  A message without times gets them from the yaw; the *)
(* first point of each ring is not kept.                                   *)
velodyne_handler ==
    /\ Take({"VELO16"})
    /\ \E gap \in Gaps, line \in Lines, blind \in BOOLEAN :
          /\ gap >= 0 /\ now' = now + gap
          /\ LET angle == start + now'
                 r     == ring[line]
                 time  == OffsetTime(r, Yaw(angle))
             IN IF given_offset_time
                THEN /\ IF Filtered /\ ~blind THEN Keep(line, now', now') ELSE UNCHANGED pl_surf
                     /\ UNCHANGED ring
                ELSE IF r.is_first
                THEN /\ ring' = [ring EXCEPT ![line] =
                             [is_first |-> FALSE, first |-> now', last |-> now', yaw_fp |-> Yaw(angle),
                              time_last |-> 0]]
                     /\ UNCHANGED pl_surf
                ELSE /\ now' - r.last < Turn
                     /\ ring' = [ring EXCEPT ![line].time_last = time, ![line].last = now']
                     /\ IF Filtered /\ ~blind THEN Keep(line, time, now' - r.first) ELSE UNCHANGED pl_surf
    /\ UNCHANGED <<pc, lidar, given_offset_time, valid_num, full, start>>

-------------------------------------------------------------------------------

(* oust64_handler, Pandar128_handler and robosense_handler sort by time;   *)
(* points of one time come in any order.                                   *)
Ordered(cloud) == \A m, n \in DOMAIN cloud : m <= n => cloud[m].curvature <= cloud[n].curvature
Sorted(cloud) ==
    IF lidar \in {"OUST64", "PANDAR128", "ROBOSENSE"}
    THEN {s \in {[n \in DOMAIN cloud |-> cloud[f[n]]] : f \in Bijection(DOMAIN cloud, DOMAIN cloud)} :
             Ordered(s)}
    ELSE {cloud}

(* process: the cloud is complete and handed on. *)
Process ==
    /\ pc = "points"
    /\ pl_surf' \in Sorted(pl_surf)
    /\ pc' = "done"
    /\ UNCHANGED <<lidar, i, now, given_offset_time, valid_num, full, ring, start>>

Next ==
    \/ avia_handler \/ l515_handler \/ oust64_handler \/ velodyne_handler
    \/ Pandar128_handler \/ xt32_handler \/ robosense_handler \/ Process

Spec == Init /\ [][Next]_vars

-------------------------------------------------------------------------------
(* The last point of a cloud is the latest, as the synchronisation takes   *)
(* it, and the points before it are in order; of every LiDAR that brings   *)
(* its times along, the Livox ones with each line of theirs configured.    *)
LinesConfigured == lidar = "AVIA" => \A line \in Lines : line < N_SCANS
InOrder ==
    pc = "done" /\ given_offset_time /\ LinesConfigured => Ordered(pl_surf)

(* Times computed from the yaw are, on every ring, those of the rotor      *)
(* since the ring's first point, for scans of less than two turns,         *)
(* wherever they start.                                                    *)
RingTimes ==
    ~given_offset_time /\ now < 2 * Turn =>
        \A n \in DOMAIN pl_surf : pl_surf[n].curvature = pl_surf[n].true

===============================================================================
