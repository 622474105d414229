------------------------------ MODULE GnssChain ------------------------------
(***************************************************************************)
(* From the receiver's binary frames to the fixes the odometry uses:       *)
(*   HcCgiProtocolProcessNode  frames -> /chcnav/devpvt, /chcnav/devimu,   *)
(*                             and, from its own /chcnav/devpvt, the       *)
(*                             standard fix and IMU messages;              *)
(*   chcnav_gnss_adapter       /chcnav/devpvt -> GnssPVTSolnMsg.           *)
(*                                                                         *)
(* Time is in seconds of GPS time since the start of the run; the epoch    *)
(* the code adds is left out.  A stamp is GPS time less leap seconds.      *)
(***************************************************************************)
EXTENDS Integers, Sequences

CONSTANTS
    Leaps,         \* what the receiver may say the leap seconds are
    Stats,         \* its solution types: 4/8 fixed, 5/9 float, 1 single
    AcceptFloat,   \* the adapter's parameter accept_float
    QueueDepth,    \* depth of the subscriptions
    MaxTime        \* bound: frames sent by the receiver

(* What an instance of this module gives its constants.                    *)
GnssAssumption ==
    /\ Leaps \subseteq Nat /\ Stats \subseteq Nat
    /\ AcceptFloat \in BOOLEAN /\ QueueDepth \in Nat \ {0} /\ MaxTime \in Nat

VARIABLES
    now,           \* GPS time
    sentences,     \* the node's queue of frames
    own,           \* the node's queue of /chcnav/devpvt
    ready,         \* subscriptions the executor found ready and has yet to serve
    g_leaps,
    lastPvt,       \* the last devpvt published: its GPS time and stamp
    lastImu,       \* the last devimu published
    published,     \* GPS times of every devpvt published
    fixes,         \* the standard fixes published
    adapter,       \* the adapter's queue of /chcnav/devpvt
    rejected,      \* solutions the adapter refused
    solutions      \* what the adapter published

node == <<sentences, own, ready, g_leaps, lastPvt, lastImu, published, fixes>>
vars == <<now, node, adapter, rejected, solutions>>

None == [second |-> -1, stamp |-> -1]

Init ==
    /\ now = 0
    /\ sentences = <<>> /\ own = <<>> /\ ready = {}
    /\ g_leaps = 18
    /\ lastPvt = None /\ lastImu = None
    /\ published = <<>> /\ fixes = <<>>
    /\ adapter = <<>> /\ rejected = 0 /\ solutions = <<>>

Put(queue, x) == Append(IF Len(queue) < QueueDepth THEN queue ELSE Tail(queue), x)

(* The receiver sends a frame a second.  "INSPVATZCB" has 296 bytes,       *)
(* "RAWIMUIB" 68, or 34 in its short form; damaged is a frame whose sum    *)
(* does not fit (module HcCrc).                                            *)
Frames(t) ==
    [second : {t}, id : {"INSPVATZCB"}, size : {296}, damaged : {FALSE}, leaps : Leaps,
     stat : Stats]
    \cup [second : {t}, id : {"INSPVATZCB"}, size : {296, 68}, damaged : BOOLEAN,
          leaps : {18}, stat : {4}]
    \cup [second : {t}, id : {"RAWIMUIB"}, size : {296, 68, 34}, damaged : {FALSE},
          leaps : {18}, stat : {4}]
    \cup [second : {t}, id : {"other"}, size : {296}, damaged : {FALSE}, leaps : {18},
          stat : {4}]

ReceiverSends ==
    /\ now < MaxTime
    /\ now' = now + 1
    /\ \E msg \in Frames(now + 1) : sentences' = Put(sentences, msg)
    /\ UNCHANGED <<own, ready, g_leaps, lastPvt, lastImu, published, fixes, adapter,
                   rejected, solutions>>

-------------------------------------------------------------------------------
(***************************************************************************)
(* HcCgiProtocolProcessNode.  A single-threaded executor waits until a     *)
(* subscription has a message, and serves each one that had once, in the   *)
(* order of their creation, before it waits again.                         *)
(***************************************************************************)
Wait ==
    /\ ready = {} /\ (own # <<>> \/ sentences # <<>>)
    /\ ready' = {q \in {"own", "sentences"} :
                     IF q = "own" THEN own # <<>> ELSE sentences # <<>>}
    /\ UNCHANGED <<now, sentences, own, g_leaps, lastPvt, lastImu, published, fixes,
                   adapter, rejected, solutions>>

Stamp(second, leaps) == second - leaps

msg_deal__hcinspvatzcb(msg) ==
    LET devpvt == [second |-> msg.second, stamp |-> Stamp(msg.second, msg.leaps),
                   stat |-> msg.stat]
    IN  /\ g_leaps' = msg.leaps
        /\ lastPvt' = [second |-> devpvt.second, stamp |-> devpvt.stamp]
        /\ own' = Put(own, devpvt)
        /\ adapter' = Put(adapter, devpvt)
        /\ published' = Append(published, devpvt)
        /\ UNCHANGED lastImu

(* Both forms of the frame: other fields, the same stamp. *)
msg_deal__hcrawimuib(msg) ==
    /\ lastImu' = [second |-> msg.second, stamp |-> Stamp(msg.second, g_leaps)]
    /\ UNCHANGED <<g_leaps, lastPvt, own, adapter, published>>

hc_sentence_callback ==
    /\ "sentences" \in ready /\ "own" \notin ready
    /\ ready' = ready \ {"sentences"}
    /\ LET msg == Head(sentences)
       IN  \/ ~ msg.damaged /\ msg.id = "INSPVATZCB" /\ msg.size = 296
              /\ msg_deal__hcinspvatzcb(msg)
           \/ ~ msg.damaged /\ msg.id = "RAWIMUIB" /\ msg.size \in {68, 34}
              /\ msg_deal__hcrawimuib(msg)
           \/ /\ \/ msg.damaged \/ msg.id = "other"
                 \/ msg.id = "INSPVATZCB" /\ msg.size # 296
                 \/ msg.id = "RAWIMUIB" /\ msg.size = 296
              /\ UNCHANGED <<g_leaps, lastPvt, lastImu, own, adapter, published>>
    /\ sentences' = Tail(sentences)
    /\ UNCHANGED <<now, fixes, rejected, solutions>>

Fixed(stat) == stat \in {4, 8}

pvt_callback ==
    /\ "own" \in ready
    /\ ready' = ready \ {"own"}
    /\ LET msg == Head(own)
       IN  fixes' = Append(fixes, [second |-> msg.second, stamp |-> msg.stamp,
                                   status |-> IF Fixed(msg.stat) THEN "FIX" ELSE "NO_FIX"])
    /\ own' = Tail(own)
    /\ UNCHANGED <<now, sentences, g_leaps, lastPvt, lastImu, published, adapter,
                   rejected, solutions>>

-------------------------------------------------------------------------------
(***************************************************************************)
(* chcnav_gnss_adapter.  week and the finiteness checks: the receiver's    *)
(* fields are valid.  heading is valid with both antennas (stat 4) only.   *)
(***************************************************************************)
Accepts(stat) == Fixed(stat) \/ (AcceptFloat /\ stat \in {5, 9})

CarrierSolution(stat) == IF Fixed(stat) THEN 2 ELSE 1

callback ==
    /\ adapter # <<>>
    /\ adapter' = Tail(adapter)
    /\ LET msg == Head(adapter)
       IN  IF Accepts(msg.stat)
           THEN /\ solutions' = Append(solutions,
                      [second |-> msg.second, carr_soln |-> CarrierSolution(msg.stat),
                       heading_valid |-> msg.stat = 4])
                /\ UNCHANGED rejected
           ELSE rejected' = rejected + 1 /\ UNCHANGED solutions
    /\ UNCHANGED <<now, node>>

Next ==
    \/ ReceiverSends \/ Wait \/ hc_sentence_callback \/ pvt_callback \/ callback

Spec == Init /\ [][Next]_vars /\ WF_vars(Wait) /\ WF_vars(hc_sentence_callback)
             /\ WF_vars(pvt_callback) /\ WF_vars(callback)

-------------------------------------------------------------------------------

(* The node publishes to itself from a callback.  However the frames come, *)
(* at most one message of its own waits, so none is ever dropped.          *)
OwnTopicBounded == Len(own) <= 1

(* devimu and devpvt are on one clock: an IMU message that follows a       *)
(* solution is stamped later by the GPS time between them, whatever the    *)
(* receiver says the leap seconds are.                                     *)
ImuOnPvtClock ==
    lastPvt # None /\ lastImu.second > lastPvt.second =>
        lastImu.stamp - lastPvt.stamp = lastImu.second - lastPvt.second

(* Two nodes judge one solution: what the adapter hands to the odometry as *)
(* fixed is a fix in the node's standard message too, and a float solution *)
(* is handed on only where it is configured to be.                         *)
JudgedAlike ==
    \A i \in DOMAIN solutions :
        /\ solutions[i].carr_soln = 2 =>
              \A j \in DOMAIN fixes :
                  fixes[j].second = solutions[i].second => fixes[j].status = "FIX"
        /\ solutions[i].carr_soln = 1 =>
              /\ AcceptFloat
              /\ \A j \in DOMAIN fixes :
                     fixes[j].second = solutions[i].second => fixes[j].status = "NO_FIX"

(* Every solution published reaches both of its readers.                   *)
EverySolutionRead ==
    <>[](/\ Len(fixes) = Len(published)
         /\ Len(solutions) + rejected = Len(published))
===============================================================================
