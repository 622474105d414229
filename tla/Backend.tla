------------------------------ MODULE Backend -------------------------------
(***************************************************************************)
(* The global back end of fast_livo (class optimization): the ROS thread   *)
(* that runs every callback and later the destructor, the worker thread,   *)
(* and the state they share: the bounded keyframe queue with its mutex and *)
(* condition variable, the stop and save flags, the RTK queue, the factor  *)
(* graph and the final map.                                                *)
(*                                                                         *)
(* Times are integer ticks.  A local pose is a position on a line, so one  *)
(* motion threshold stands for the distance and the angle threshold, and   *)
(* the correction of it is a shift along the line.  An RTK observation is  *)
(* its (non-zero) stamp; 0 is std::nullopt.                                *)
(***************************************************************************)
EXTENDS RtkTimeQueue

CONSTANTS
  MaxStamp,          (* last time a synchronised frame may carry (bound)   *)
  Poses,             (* the local poses of the front end                   *)
  RtkStamps,         (* the stamps of the RTK observations ever received   *)
  VelocityStamps,    (* those of them with a valid velocity                *)
  KeyframeMotion,    (* keyframe_distance_ and keyframe_angle_             *)
  KeyframeTime,      (* keyframe_time_                                     *)
  MaxPending,        (* max_pending_keyframes_                             *)
  MaxRtk,            (* bound of rtk_queue_, 10000 in the code             *)
  RtkHorizon,        (* age at which an observation is purged, 5 s         *)
  RtkTolerance,      (* rtk_sync_tolerance_                                *)
  MinVelocityGap,    (* least interval of a velocity factor, 0.02 s        *)
  ExcludeRecent,     (* sc_exclude_recent_                                 *)
  Corrections,       (* what the optimiser may make of map to odom         *)
  SmoothingSettings  (* backend/correction_smoothing_alpha, in 1 / Unit    *)

ASSUME BackendAssumption ==
  /\ MaxStamp \in Nat
  /\ Poses \subseteq Int
  /\ RtkStamps \subseteq Nat \ {0}
  /\ VelocityStamps \subseteq RtkStamps
  /\ KeyframeMotion \in Nat
  /\ KeyframeTime \in Nat
  /\ MaxPending \in Nat \ {0}
  /\ MaxRtk \in Nat \ {0}
  /\ RtkHorizon \in Nat
  /\ RtkTolerance \in Nat
  /\ MinVelocityGap \in Nat
  /\ ExcludeRecent \in Nat \ {0}
  /\ Corrections \subseteq Int
  /\ SmoothingSettings \subseteq Int

VARIABLES
  main,              (* where the ROS thread is                            *)
  worker,            (* where backend_thread_ is                           *)
  stop_requested,
  save_requested,
  synced_stamp,      (* stamp of the last pair the synchroniser delivered  *)
  last_enqueued,     (* last_enqueued_local_pose_ and _stamp_              *)
  keyframe_queue,
  input,             (* the keyframe the worker holds                      *)
  rtk_queue,
  rtk_seen,          (* stamps received; not empty iff the ENU origin is set *)
  match,             (* rtk_measurement of the keyframe being processed    *)
  nodes,             (* local_keyposes_, keyframe_stamps_, keyframe_rtk_... *)
  velocity_edges,    (* indices with a velocity factor to their predecessor *)
  loop_edges,
  correction_smoothing_alpha,
  correction_initialized,
  correction_target, (* target_map_to_odom_                                *)
  smoothed,          (* smoothed_map_to_odom_                              *)
  published,         (* the map to odom last broadcast, and whether there  *)
                     (* was a target by then                               *)
  map,               (* the trajectory and map files last written          *)
  taken, evicted, rejected,  (* history: popped, dropped, second-gated     *)
  targets                    (* history: the targets there have been       *)

threadVars == <<main, worker, stop_requested, save_requested>>
queueVars == <<synced_stamp, last_enqueued, keyframe_queue, input, taken, evicted>>
rtkVars == <<rtk_queue, rtk_seen, match>>
graphVars == <<nodes, velocity_edges, loop_edges, rejected>>
correctionVars == <<correction_smoothing_alpha, correction_initialized, correction_target,
                    smoothed, published, targets>>
outputVars == <<correctionVars, map>>
vars == <<threadVars, queueVars, rtkVars, graphVars, outputVars>>

Keyframe == [stamp : 0 .. MaxStamp, pose : Poses \cup {0}]
NoKeyframe == [stamp |-> 0, pose |-> 0]

Unit == 1000

(* Mutant: the parameter is taken as it is.                                *)
TakeSmoothing(alpha) == alpha

(* The constructor: correction_smoothing_alpha_ between 0.001 and 1.       *)
ClampSmoothing(alpha) == IF alpha < 1 THEN 1 ELSE IF alpha > Unit THEN Unit ELSE alpha

Init ==
  /\ main = "spin" /\ worker = "check"
  /\ stop_requested = FALSE /\ save_requested = FALSE
  /\ synced_stamp = 0
  /\ last_enqueued = <<>>
  /\ keyframe_queue = <<>> /\ input = NoKeyframe
  /\ taken = <<>> /\ evicted = {} /\ rejected = {}
  /\ rtk_queue = <<>> /\ rtk_seen = {} /\ match = 0
  /\ nodes = <<>> /\ velocity_edges = {} /\ loop_edges = {}
  /\ \E alpha \in SmoothingSettings : correction_smoothing_alpha = ClampSmoothing(alpha)
  /\ correction_initialized = FALSE /\ correction_target = 0 /\ smoothed = 0
  /\ published = [correction |-> 0, targeted |-> FALSE] /\ targets = {}
  /\ map = [stamps |-> <<>>, georeferenced |-> FALSE]

(***************************************************************************)
(* Threads.  The worker holds queue_mutex_ from the evaluation of its wait *)
(* predicate until it blocks or has popped; the callbacks' own critical    *)
(* sections are single steps.                                              *)
(***************************************************************************)
QueueMutexFree == worker \notin {"block", "take"}

(* notify_one and notify_all alike: the worker is the only waiter, and a   *)
(* notification nobody waits for is lost.                                  *)
Notified == IF worker = "wait" THEN "check" ELSE worker

KeyframeDue(ref, kf) ==
  \/ Distance(ref.pose, kf.pose) >= KeyframeMotion
  \/ kf.stamp - ref.stamp >= KeyframeTime

(* The first gate: against the last frame enqueued, if there is one.       *)
Selected(kf) == \A i \in DOMAIN last_enqueued : KeyframeDue(last_enqueued[i], kf)

(***************************************************************************)
(* The ROS thread                                                          *)
(***************************************************************************)

(* syncedCallback, left early: not far enough from the last enqueued       *)
(* keyframe, or a cloud of fewer than 100 points.                          *)
SkipSynced(kf, dense) ==
  /\ main = "spin"
  /\ kf.stamp > synced_stamp
  /\ ~Selected(kf) \/ ~dense
  /\ synced_stamp' = kf.stamp
  /\ UNCHANGED <<threadVars, last_enqueued, keyframe_queue, input, taken, evicted,
                 rtkVars, graphVars, outputVars>>

(* Mutant: the new frame goes to the front of the queue.                   *)
PushFront(kf) ==
  IF Len(keyframe_queue) >= MaxPending
    THEN /\ evicted' = evicted \cup {Head(keyframe_queue)}
         /\ keyframe_queue' = <<kf>> \o Tail(keyframe_queue)
    ELSE /\ keyframe_queue' = <<kf>> \o keyframe_queue
         /\ UNCHANGED evicted

Push(kf) ==
  IF Len(keyframe_queue) >= MaxPending
    THEN /\ evicted' = evicted \cup {Head(keyframe_queue)}
         /\ keyframe_queue' = Append(Tail(keyframe_queue), kf)
    ELSE /\ keyframe_queue' = Append(keyframe_queue, kf)
         /\ UNCHANGED evicted

(* Mutant: the keyframe is queued and nobody is told.                      *)
EnqueueSilently(kf) ==
  /\ main = "spin"
  /\ QueueMutexFree
  /\ kf.stamp > synced_stamp
  /\ Selected(kf)
  /\ synced_stamp' = kf.stamp
  /\ last_enqueued' = <<kf>>
  /\ Push(kf)
  /\ UNCHANGED <<threadVars, input, taken, rtkVars, graphVars, outputVars>>

(* syncedCallback, to its end: the frame is selected, queued and notified  *)
(* under queue_mutex_.                                                     *)
EnqueueSynced(kf) ==
  /\ main = "spin"
  /\ QueueMutexFree
  /\ kf.stamp > synced_stamp
  /\ Selected(kf)
  /\ synced_stamp' = kf.stamp
  /\ last_enqueued' = <<kf>>
  /\ Push(kf)
  /\ worker' = Notified
  /\ UNCHANGED <<main, stop_requested, save_requested, input, taken,
                 rtkVars, graphVars, outputVars>>

SyncedCallback ==
  \E stamp \in 1 .. MaxStamp, pose \in Poses :
    LET kf == [stamp |-> stamp, pose |-> pose]
    IN  EnqueueSynced(kf) \/ \E dense \in BOOLEAN : SkipSynced(kf, dense)

(* gpsHandler and navSatFixHandler, for an observation that passes their   *)
(* quality gate (a rejected one changes nothing).  Receipt is in any order. *)
AcceptRtk ==
  /\ main = "spin"
  /\ \E stamp \in RtkStamps \ rtk_seen :
       /\ rtk_queue' = PushRtk(rtk_queue, stamp, MaxRtk)
       /\ rtk_seen' = rtk_seen \cup {stamp}
  /\ UNCHANGED <<threadVars, queueVars, match, graphVars, outputVars>>

(* smoothCorrectionStep: a part alpha of the way from the smoothed         *)
(* correction to its target.  Double precision is a grid here, on which    *)
(* the step is rounded down.                                               *)
SmoothCorrectionStep ==
  smoothed + (correction_smoothing_alpha * (correction_target - smoothed)) \div Unit

(* localOdometryCallback broadcasts the smoothed correction, and the       *)
(* identity before there is a target.  It and updateGlobalCorrection hold  *)
(* correction_mutex_ throughout.                                           *)
LocalOdometryCallback ==
  /\ main = "spin"
  /\ smoothed' = IF correction_initialized THEN SmoothCorrectionStep ELSE smoothed
  /\ published' = [correction |-> IF correction_initialized THEN smoothed' ELSE 0,
                   targeted |-> correction_initialized]
  /\ UNCHANGED <<threadVars, queueVars, rtkVars, graphVars, correction_smoothing_alpha,
                 correction_initialized, correction_target, targets, map>>

(* saveMapService: store, then notify_one, without queue_mutex_.           *)
RequestSave ==
  /\ main = "spin"
  /\ main' = "saveNotify"
  /\ save_requested' = TRUE
  /\ UNCHANGED <<worker, stop_requested, queueVars, rtkVars, graphVars, outputVars>>

(* Mutant: the service sets the flag only.                                 *)
ReturnWithoutNotify ==
  /\ main = "saveNotify"
  /\ main' = "spin"
  /\ UNCHANGED worker
  /\ UNCHANGED <<stop_requested, save_requested, queueVars, rtkVars, graphVars, outputVars>>

NotifySave ==
  /\ main = "saveNotify"
  /\ main' = "spin"
  /\ worker' = Notified
  /\ UNCHANGED <<stop_requested, save_requested, queueVars, rtkVars, graphVars, outputVars>>

(* run() has returned; the destructor stores stop_requested_ ...           *)
RequestStop ==
  /\ main = "spin"
  /\ main' = "stopNotify"
  /\ stop_requested' = TRUE
  /\ UNCHANGED <<worker, save_requested, queueVars, rtkVars, graphVars, outputVars>>

(* Mutant: the destructor joins without notifying.                         *)
JoinWithoutNotify ==
  /\ main = "stopNotify"
  /\ main' = "join"
  /\ UNCHANGED worker
  /\ UNCHANGED <<stop_requested, save_requested, queueVars, rtkVars, graphVars, outputVars>>

(* ... then calls notify_all, without queue_mutex_ ...                     *)
NotifyStop ==
  /\ main = "stopNotify"
  /\ main' = "join"
  /\ worker' = Notified
  /\ UNCHANGED <<stop_requested, save_requested, queueVars, rtkVars, graphVars, outputVars>>

(* ... and joins the worker.                                               *)
Join ==
  /\ main = "join"
  /\ worker = "done"
  /\ main' = "final"
  /\ UNCHANGED <<worker, stop_requested, save_requested,
                 queueVars, rtkVars, graphVars, outputVars>>

(* reconstructFinalMap: every node of the graph, or nothing when empty.    *)
ReconstructFinalMap ==
  map' = IF nodes = <<>> THEN map
         ELSE [stamps |-> [i \in DOMAIN nodes |-> nodes[i].stamp],
               georeferenced |-> rtk_seen # {}]

FinalReconstruct ==
  /\ main = "final"
  /\ main' = "done"
  /\ ReconstructFinalMap
  /\ UNCHANGED <<worker, stop_requested, save_requested, queueVars, rtkVars, graphVars,
                 correctionVars>>

(***************************************************************************)
(* The worker thread (backendWorker)                                       *)
(***************************************************************************)

(* Lock queue_mutex_ and evaluate the predicate of queue_cv_.wait.         *)
EvaluatePredicate ==
  /\ worker = "check"
  /\ worker' = IF stop_requested \/ save_requested \/ keyframe_queue # <<>>
                 THEN "take" ELSE "block"
  /\ UNCHANGED <<main, stop_requested, save_requested,
                 queueVars, rtkVars, graphVars, outputVars>>

(* The predicate was false: release the mutex and start waiting, at once.  *)
Block ==
  /\ worker = "block"
  /\ worker' = "wait"
  /\ UNCHANGED <<main, stop_requested, save_requested,
                 queueVars, rtkVars, graphVars, outputVars>>

(* A condition variable may wake up unasked.                               *)
SpuriousWakeup ==
  /\ worker = "wait"
  /\ worker' = "check"
  /\ UNCHANGED <<main, stop_requested, save_requested,
                 queueVars, rtkVars, graphVars, outputVars>>

TakeKeyframe ==
  /\ worker = "take"
  /\ keyframe_queue # <<>>
  /\ worker' = "process"
  /\ input' = Head(keyframe_queue)
  /\ keyframe_queue' = Tail(keyframe_queue)
  /\ taken' = Append(taken, Head(keyframe_queue))
  /\ UNCHANGED <<main, stop_requested, save_requested, synced_stamp, last_enqueued, evicted,
                 rtkVars, graphVars, outputVars>>

(* Mutant: a stop request leaves the loop with keyframes still queued.     *)
TakeNothingEagerStop ==
  /\ worker = "take"
  /\ keyframe_queue = <<>> \/ stop_requested
  /\ worker' = IF stop_requested THEN "done" ELSE "save"
  /\ UNCHANGED <<main, stop_requested, save_requested,
                 queueVars, rtkVars, graphVars, outputVars>>

(* An empty queue: leave the loop on a stop request, or go on to the save. *)
TakeNothing ==
  /\ worker = "take"
  /\ keyframe_queue = <<>>
  /\ worker' = IF stop_requested THEN "done" ELSE "save"
  /\ UNCHANGED <<main, stop_requested, save_requested,
                 queueVars, rtkVars, graphVars, outputVars>>

(* Mutant: the second gate wants more than the threshold.                  *)
ShouldCreateStrictly ==
  nodes # <<>> =>
  \/ Distance(nodes[Len(nodes)].pose, input.pose) > KeyframeMotion
  \/ input.stamp - nodes[Len(nodes)].stamp > KeyframeTime

(* shouldCreateKeyframe: the second gate, against the last graph node.     *)
ShouldCreateKeyframe == nodes # <<>> => KeyframeDue(nodes[Len(nodes)], input)

RejectKeyframe ==
  /\ worker = "process"
  /\ ~ShouldCreateKeyframe
  /\ worker' = "save"
  /\ rejected' = rejected \cup {input.stamp}
  /\ input' = NoKeyframe
  /\ UNCHANGED <<main, stop_requested, save_requested, synced_stamp, last_enqueued,
                 keyframe_queue, taken, evicted, rtkVars,
                 nodes, velocity_edges, loop_edges, outputVars>>

(* Mutant: the matched observation itself stays in the queue.              *)
EraseBefore(q, best) == DropFront(q, best - 1)

(* rtk_queue_.erase(begin, next(best)).                                    *)
EraseThrough(q, best) == DropFront(q, best)

(* Mutant: the nearest observation is used however far away it is.         *)
MatchAnyway(fresh, best) ==
  /\ match' = fresh[best]
  /\ rtk_queue' = EraseThrough(fresh, best)

MatchRtk(fresh, best) ==
  IF Distance(fresh[best], input.stamp) > RtkTolerance
    THEN /\ match' = 0
         /\ rtk_queue' = fresh
    ELSE /\ match' = fresh[best]
         /\ rtk_queue' = EraseThrough(fresh, best)

(* The accepted keyframe looks for its RTK observation (findNearestRtk).   *)
FindNearestRtk ==
  /\ worker = "process"
  /\ ShouldCreateKeyframe
  /\ worker' = "commit"
  /\ LET fresh == Expire(rtk_queue, input.stamp - RtkHorizon)
     IN  \/ fresh = <<>> /\ match' = 0 /\ rtk_queue' = fresh
         \/ fresh # <<>> /\ \E best \in DOMAIN fresh :
                              best = NearestIndex(fresh, input.stamp) /\ MatchRtk(fresh, best)
  /\ UNCHANGED <<main, stop_requested, save_requested, queueVars, rtk_seen,
                 graphVars, outputVars>>

(* detectLoopCandidate and verifyLoopWithGicp: what may be accepted.       *)
LoopCandidates(index) ==
  IF index <= ExcludeRecent THEN {} ELSE 0 .. index - ExcludeRecent - 1

(* Both ends observed a velocity and lie apart in time.                    *)
VelocityFactorDue ==
  /\ nodes # <<>> /\ match # 0 /\ match \in VelocityStamps
  /\ nodes[Len(nodes)].rtk \in VelocityStamps
  /\ input.stamp - nodes[Len(nodes)].stamp > MinVelocityGap

(* The rest of processKeyframe up to the correction: factors, iSAM2 update *)
(* and the per-node arrays.                                                *)
CommitKeyframe ==
  /\ worker = "commit"
  /\ worker' = "correct"
  /\ LET index == Len(nodes)
     IN  /\ nodes' = Append(nodes, [stamp |-> input.stamp, pose |-> input.pose, rtk |-> match])
         /\ velocity_edges' = velocity_edges \cup (IF VelocityFactorDue THEN {index} ELSE {})
         /\ \/ UNCHANGED loop_edges
            \/ \E candidate \in LoopCandidates(index) :
                 loop_edges' = loop_edges \cup {<<candidate, index>>}
  /\ match' = 0
  /\ input' = NoKeyframe
  /\ UNCHANGED <<main, stop_requested, save_requested, synced_stamp, last_enqueued,
                 keyframe_queue, taken, evicted, rtk_queue, rtk_seen, rejected, outputVars>>

(* Mutant: every target takes effect at once, not only the first.          *)
UpdateCorrectionAtOnce ==
  /\ worker = "correct"
  /\ worker' = "save"
  /\ correction_target' \in Corrections
  /\ targets' = targets \cup {correction_target'}
  /\ smoothed' = correction_target'
  /\ correction_initialized' = TRUE
  /\ UNCHANGED <<main, stop_requested, save_requested, queueVars, rtkVars, graphVars,
                 correction_smoothing_alpha, published, map>>

(* updateGlobalCorrection: the target is where the optimiser has put the   *)
(* last node, which any factor may move; the first one takes effect at     *)
(* once, the others through the smoothing.                                 *)
UpdateGlobalCorrection ==
  /\ worker = "correct"
  /\ worker' = "save"
  /\ correction_target' \in Corrections
  /\ targets' = targets \cup {correction_target'}
  /\ smoothed' = IF correction_initialized THEN smoothed ELSE correction_target'
  /\ correction_initialized' = TRUE
  /\ UNCHANGED <<main, stop_requested, save_requested, queueVars, rtkVars, graphVars,
                 correction_smoothing_alpha, published, map>>

(* if (save_requested_.exchange(false))                                    *)
ExchangeSave ==
  /\ worker = "save"
  /\ save_requested' = FALSE
  /\ worker' = IF save_requested THEN "rebuild" ELSE "check"
  /\ UNCHANGED <<main, stop_requested, queueVars, rtkVars, graphVars, outputVars>>

RebuildMap ==
  /\ worker = "rebuild"
  /\ worker' = "check"
  /\ ReconstructFinalMap
  /\ UNCHANGED <<main, stop_requested, save_requested, queueVars, rtkVars, graphVars,
                 correctionVars>>

(* The process has ended.                                                  *)
Terminated == main = "done" /\ UNCHANGED vars

(***************************************************************************)
(* Specification                                                           *)
(***************************************************************************)
Callback == SyncedCallback \/ AcceptRtk \/ LocalOdometryCallback \/ RequestSave \/ RequestStop
MainContinues == NotifySave \/ NotifyStop \/ Join \/ FinalReconstruct
WorkerSteps ==
  \/ EvaluatePredicate \/ Block \/ TakeKeyframe \/ TakeNothing
  \/ RejectKeyframe \/ FindNearestRtk \/ CommitKeyframe \/ UpdateGlobalCorrection
  \/ ExchangeSave \/ RebuildMap

Next == Callback \/ MainContinues \/ WorkerSteps \/ SpuriousWakeup \/ Terminated

SafeSpec == Init /\ [][Next]_vars

(* Both threads are scheduled.  Callbacks, shutdown and spurious wake-ups  *)
(* are up to the environment.                                              *)
Spec == SafeSpec /\ WF_vars(WorkerSteps) /\ WF_vars(MainContinues)

(***************************************************************************)
(* Properties                                                              *)
(***************************************************************************)
Stamps(kfs) == [i \in DOMAIN kfs |-> kfs[i].stamp]
StampSet(kfs) == {kfs[i].stamp : i \in DOMAIN kfs}

ThreadsOK ==
  /\ main \in {"spin", "saveNotify", "stopNotify", "join", "final", "done"}
  /\ worker \in {"check", "block", "wait", "take", "process", "commit", "correct",
                 "save", "rebuild", "done"}
  /\ stop_requested \in BOOLEAN /\ save_requested \in BOOLEAN
QueuesOK ==
  /\ synced_stamp \in 0 .. MaxStamp
  /\ last_enqueued \in Seq(Keyframe) /\ Len(last_enqueued) <= 1
  /\ keyframe_queue \in Seq(Keyframe) /\ Len(keyframe_queue) <= MaxPending
  /\ input \in Keyframe
  /\ taken \in Seq(Keyframe) /\ evicted \subseteq Keyframe
RtkOK ==
  /\ rtk_queue \in Seq(RtkStamps) /\ Len(rtk_queue) <= MaxRtk
  /\ rtk_seen \subseteq RtkStamps
  /\ match \in RtkStamps \cup {0}
Node == [stamp : 0 .. MaxStamp, pose : Poses \cup {0}, rtk : RtkStamps \cup {0}]
GraphOK ==
  /\ nodes \in Seq(Node)
  /\ velocity_edges \subseteq Nat /\ loop_edges \subseteq Nat \X Nat
  /\ rejected \subseteq 0 .. MaxStamp
OutputsOK ==
  /\ correction_smoothing_alpha \in 1 .. Unit /\ correction_initialized \in BOOLEAN
  /\ correction_target \in Int /\ smoothed \in Int
  /\ published \in [correction : Int, targeted : BOOLEAN]
  /\ targets \subseteq Corrections
  /\ map \in [stamps : Seq(0 .. MaxStamp), georeferenced : BOOLEAN]

(* Type correctness; with it the promise of the class that the keyframe    *)
(* queue never grows past max_pending_keyframes_ (a full queue drops its   *)
(* oldest frame) nor the RTK queue past its own bound.                     *)
TypeOK == ThreadsOK /\ QueuesOK /\ RtkOK /\ GraphOK /\ OutputsOK

(* The factor graph receives keyframes in the order of their time: the     *)
(* nodes, the keyframe the worker holds and those still queued carry       *)
(* strictly increasing stamps, so that no odometry factor between          *)
(* neighbours (index - 1, index) ever spans a negative interval.           *)
TimeOrdered(kfs) == \A i, j \in DOMAIN kfs : i < j => kfs[i].stamp < kfs[j].stamp
Before(kfs, stamp) == \A i \in DOMAIN kfs : kfs[i].stamp < stamp
Holding == worker \in {"process", "commit"}
GraphInTimeOrder ==
  /\ TimeOrdered(nodes) /\ TimeOrdered(keyframe_queue)
  /\ \A k \in DOMAIN keyframe_queue : Before(nodes, keyframe_queue[k].stamp)
  /\ Holding => /\ Before(nodes, input.stamp)
                /\ \A k \in DOMAIN keyframe_queue : input.stamp < keyframe_queue[k].stamp

(* The two keyframe gates, one against the last frame enqueued and one     *)
(* against the last graph node, disagree only after a frame was dropped:   *)
(* the worker rejects a frame only if an earlier one was evicted.          *)
SecondGateOnlyAfterLoss ==
  \A stamp \in rejected : \E lost \in evicted : lost.stamp < stamp

(* One RTK observation constrains at most one graph node: none is attached *)
(* to two nodes, or attached and still queued or matched again.            *)
RtkSingleUse ==
  LET Used == {i \in DOMAIN nodes : nodes[i].rtk # 0}
  IN  /\ \A i, j \in Used : i # j => nodes[i].rtk # nodes[j].rtk
      /\ \A i \in Used : nodes[i].rtk # match
      /\ \A i \in Used, k \in DOMAIN rtk_queue : nodes[i].rtk # rtk_queue[k]
      /\ match # 0 => \A k \in DOMAIN rtk_queue : rtk_queue[k] # match

(* Whatever the order of receipt, the observations of two nodes that lie   *)
(* more than twice the tolerance apart are in the order of the nodes.      *)
RtkOrderFollowsNodes ==
  \A i, j \in DOMAIN nodes :
    /\ nodes[i].rtk # 0 /\ nodes[j].rtk # 0
    /\ nodes[j].stamp - nodes[i].stamp > 2 * RtkTolerance
    => nodes[i].rtk < nodes[j].rtk

(* The RTK queue stays in time order although messages arrive out of       *)
(* order: the search relies on it.                                         *)
RtkQueueSorted == Sorted(rtk_queue)

(* A keyframe gets the nearest queued observation, and goes without one    *)
(* only if none lies within the tolerance.                                 *)
NearestChosen ==
  [][worker = "process" /\ worker' = "commit" =>
       \A k \in DOMAIN rtk_queue :
         Distance(rtk_queue[k], input.stamp) >=
           IF match' = 0 THEN RtkTolerance + 1 ELSE Distance(match', input.stamp)]_vars

(* When the destructor has returned, the map holds every node of the graph *)
(* and no keyframe that was queued is left out of the graph unless the     *)
(* second gate refused it.                                                 *)
FinalMapComplete ==
  main = "done" =>
    /\ keyframe_queue = <<>>
    /\ map.stamps = Stamps(nodes)
    /\ StampSet(taken) = StampSet(nodes) \cup rejected

(* smoothCorrectionStep: whatever targets the worker sets between two      *)
(* odometry messages, the broadcast correction stays between targets there *)
(* have been, never drifts in from the identity, and moves from one        *)
(* message to the next by no more than the part alpha of the distance of   *)
(* two targets; also with a parameter out of range.                        *)
CorrectionEased ==
  [][published'.targeted =>
       \E low, high \in targets :
         /\ low <= published'.correction /\ published'.correction <= high
         /\ published.targeted =>
              Unit * Distance(published'.correction, published.correction)
                < correction_smoothing_alpha * (high - low) + Unit]_vars

(* The queue, its mutex and its condition variable are a bounded channel   *)
(* that evicts the oldest frame and loses nothing else, also when closed.  *)
Channel == INSTANCE KeyframeChannel WITH
             Item <- Keyframe, Capacity <- MaxPending, chan <- keyframe_queue,
             received <- taken, open <- ~stop_requested
ImplementsChannel == Channel!ChanSpec

(* A stop request notified while the worker is not between a false         *)
(* predicate and its wait makes the destructor return.                     *)
StopOutsideWindowReturns ==
  (main = "stopNotify" /\ worker # "block") ~> (main = "done")

(* The same for a save request: it is carried out without a new keyframe.  *)
SaveOutsideWindowServed ==
  (main = "saveNotify" /\ worker # "block") ~> (~save_requested \/ main = "done")

(* The destructor's comment: request the thread to stop and wake it if it  *)
(* waits for keyframes; so the destructor always returns.                  *)
StopAlwaysReturns == stop_requested ~> (main = "done")
=============================================================================
