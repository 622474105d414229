------------------------------- MODULE Esikf --------------------------------
(***************************************************************************)
(* The real-time global filter of fast_livo (RealtimeGlobalEsikf): it      *)
(* moves a global pose with the increments of the local odometry and       *)
(* corrects it with the queued RTK observation nearest to the frame.       *)
(*                                                                         *)
(* The pose is a position on a line and the covariance its variance: the   *)
(* position update stands for the three updates, which differ in the       *)
(* component they correct.  Both sensors are exact, the vehicle moves along *)
(* "track" and the ENU frame is displaced by Origin, so the true global    *)
(* pose is known.  Each call holds the filter's mutex from end to end and  *)
(* is one step.                                                            *)
(***************************************************************************)
EXTENDS RtkTimeQueue

CONSTANTS
  MaxStamp,          (* last time a frame may carry (bound)                *)
  MaxFrames,         (* number of frames (bound)                           *)
  Tracks,            (* the true motions considered                        *)
  MaxSpeed,          (* the fastest of them                                *)
  Origin,            (* displacement of the ENU frame                      *)
  LeverArm,          (* config_.imu_to_antenna                             *)
  RtkStamps,         (* the stamps of the RTK observations ever received   *)
  MaxRtk,            (* bound of rtk_queue_, 2000 in the code              *)
  SyncTolerance,     (* config_.sync_tolerance                             *)
  MaxGap,            (* longest interval propagated over, 1.0 s            *)
  ProcessVariance,   (* config_.position_process_variance                  *)
  RtkVariance,       (* observation.position_variance                      *)
  InitialVariance,   (* covariance of configure()                          *)
  NisGate            (* config_.position_nis_gate                          *)

ASSUME EsikfAssumption ==
  /\ MaxStamp \in Nat /\ MaxFrames \in Nat
  /\ MaxSpeed \in Nat /\ Origin \in Int /\ LeverArm \in Int
  /\ Tracks \subseteq [0 .. MaxStamp -> Int]
  /\ \A t \in Tracks : \A a, b \in 0 .. MaxStamp :
       Distance(t[a], t[b]) <= MaxSpeed * Distance(a, b)
  /\ RtkStamps \subseteq 0 .. MaxStamp
  /\ MaxRtk \in Nat \ {0} /\ SyncTolerance \in Nat /\ MaxGap \in Nat
  /\ ProcessVariance \in Nat /\ RtkVariance \in Nat \ {0}
  /\ InitialVariance \in Nat /\ NisGate \in Nat

VARIABLES
  track,                 (* the true motion in the local frame             *)
  rtk_queue,
  rtk_seen,              (* stamps of the observations received            *)
  have_livo,
  last_livo_stamp,
  last_local_pose,
  global_pose,
  variance,              (* position variance of covariance_               *)
  globally_initialized,
  frames,                (* frames processed so far                        *)
  matched,               (* history: observation, frame and verdict        *)
  continuous,            (* history: no reset since the anchor was set     *)
  coasted                (* history: time propagated since the last update *)

livoVars == <<have_livo, last_livo_stamp, last_local_pose, frames>>
filterVars == <<global_pose, variance, globally_initialized, matched, continuous, coasted>>
vars == <<track, rtk_queue, rtk_seen, livoVars, filterVars>>

Init ==
  /\ track \in Tracks
  /\ rtk_queue = <<>> /\ rtk_seen = {}
  /\ have_livo = FALSE /\ last_livo_stamp = 0 /\ last_local_pose = 0
  /\ global_pose = 0 /\ variance = InitialVariance
  /\ globally_initialized = FALSE
  /\ frames = 0
  /\ matched = <<>> /\ continuous = TRUE /\ coasted = 0

(* What the receiver reports at a time: the antenna in the ENU frame.      *)
Antenna(stamp) == track[stamp] + Origin + LeverArm

(* pushRtk.  Receipt is in any order.                                      *)
PushObservation ==
  /\ \E stamp \in RtkStamps \ rtk_seen :
       /\ rtk_queue' = PushRtk(rtk_queue, stamp, MaxRtk)
       /\ rtk_seen' = rtk_seen \cup {stamp}
  /\ UNCHANGED <<track, livoVars, filterVars>>

(***************************************************************************)
(* processLivo.  The frame at "stamp" carries the local pose track[stamp]. *)
(***************************************************************************)
Elapsed(stamp) == stamp - last_livo_stamp

(* Neither the first frame, nor back in time, nor after a long dropout.    *)
Propagates(stamp) == have_livo /\ Elapsed(stamp) > 0 /\ Elapsed(stamp) <= MaxGap

(* Mutant: the uncertainty does not grow between the updates.              *)
PriorWithoutNoise(stamp) ==
  IF Propagates(stamp)
    THEN [pose |-> global_pose + (track[stamp] - last_local_pose),
          variance |-> variance,
          coasted |-> coasted + Elapsed(stamp)]
    ELSE [pose |-> IF have_livo THEN global_pose ELSE track[stamp],
          variance |-> variance,
          coasted |-> coasted]

(* The filter before the measurement: the first frame sets the pose, a     *)
(* regular one composes the increment (predict), any other changes nothing. *)
Prior(stamp) ==
  IF Propagates(stamp)
    THEN [pose |-> global_pose + (track[stamp] - last_local_pose),
          variance |-> variance + ProcessVariance * Elapsed(stamp),
          coasted |-> coasted + Elapsed(stamp)]
    ELSE [pose |-> IF have_livo THEN global_pose ELSE track[stamp],
          variance |-> variance,
          coasted |-> coasted]

(* Mutant: only the first frame and a reset set the reference pose.        *)
KeepReference(stamp) ==
  /\ have_livo' = TRUE
  /\ last_livo_stamp' = stamp
  /\ last_local_pose' = IF Propagates(stamp) THEN last_local_pose ELSE track[stamp]
  /\ frames' = frames + 1

(* The reference of the next increment, set on every path.                 *)
SetReference(stamp) ==
  /\ have_livo' = TRUE
  /\ last_livo_stamp' = stamp
  /\ last_local_pose' = track[stamp]
  /\ frames' = frames + 1

(* Whether the increments since the anchor are unbroken after this frame.  *)
StillContinuous(stamp) == continuous /\ (globally_initialized => Propagates(stamp))

(* Observations that can no longer match are dropped first.                *)
Fresh(stamp) == Expire(rtk_queue, stamp - SyncTolerance)

NoMatch(stamp) ==
  /\ NearestWithin(Fresh(stamp), stamp, SyncTolerance) = 0
  /\ rtk_queue' = Fresh(stamp)
  /\ global_pose' = Prior(stamp).pose
  /\ variance' = Prior(stamp).variance
  /\ coasted' = Prior(stamp).coasted
  /\ continuous' = StillContinuous(stamp)
  /\ UNCHANGED <<globally_initialized, matched>>

(* Mutant: the observation used stays in the queue.                        *)
ConsumeBefore(fresh, best) == DropFront(fresh, best - 1)

(* rtk_queue_.erase(begin, next(best)).                                    *)
Consume(fresh, best) == DropFront(fresh, best)

(* The first match anchors the filter in the ENU frame.                    *)
InitializeFromRtk(stamp, obs) ==
  /\ ~globally_initialized
  /\ globally_initialized' = TRUE
  /\ global_pose' = Antenna(obs) - LeverArm
  /\ variance' = RtkVariance
  /\ coasted' = 0 /\ continuous' = TRUE
  /\ matched' = Append(matched, [obs |-> obs, frame |-> stamp, used |-> TRUE])

Innovation(stamp, obs) == Antenna(obs) - (Prior(stamp).pose + LeverArm)

(* nis <= nis_gate, multiplied out.                                        *)
InGate(stamp, obs) ==
  Innovation(stamp, obs) * Innovation(stamp, obs)
    <= NisGate * (Prior(stamp).variance + RtkVariance)

(* The share of x that the gain P / (P + R) lets through, towards zero.    *)
Weighted(x, p, r) ==
  IF x >= 0 THEN (p * x) \div (p + r) ELSE -((p * (-x)) \div (p + r))

UpdatePosition(stamp, obs) ==
  /\ globally_initialized
  /\ InGate(stamp, obs)
  /\ LET p == Prior(stamp).variance
     IN  /\ global_pose' = Prior(stamp).pose + Weighted(Innovation(stamp, obs), p, RtkVariance)
         /\ variance' = (p * RtkVariance) \div (p + RtkVariance)
  /\ coasted' = 0
  /\ continuous' = StillContinuous(stamp)
  /\ matched' = Append(matched, [obs |-> obs, frame |-> stamp, used |-> TRUE])
  /\ UNCHANGED globally_initialized

(* kalmanUpdate returns false: the prediction stands.                      *)
RefuseObservation(stamp, obs) ==
  /\ globally_initialized
  /\ ~InGate(stamp, obs)
  /\ global_pose' = Prior(stamp).pose
  /\ variance' = Prior(stamp).variance
  /\ coasted' = Prior(stamp).coasted
  /\ continuous' = StillContinuous(stamp)
  /\ matched' = Append(matched, [obs |-> obs, frame |-> stamp, used |-> FALSE])
  /\ UNCHANGED globally_initialized

Matches(stamp) ==
  \E best \in DOMAIN Fresh(stamp) :
    /\ best = NearestWithin(Fresh(stamp), stamp, SyncTolerance)
    /\ rtk_queue' = Consume(Fresh(stamp), best)
    /\ LET obs == Fresh(stamp)[best]
       IN  \/ InitializeFromRtk(stamp, obs)
           \/ UpdatePosition(stamp, obs)
           \/ RefuseObservation(stamp, obs)

ProcessLivo ==
  /\ frames < MaxFrames
  /\ \E stamp \in 0 .. MaxStamp :
       /\ SetReference(stamp)
       /\ NoMatch(stamp) \/ Matches(stamp)
  /\ UNCHANGED <<track, rtk_seen>>

Next == PushObservation \/ ProcessLivo

Spec == Init /\ [][Next]_vars

(***************************************************************************)
(* Properties                                                              *)
(***************************************************************************)
Match == [obs : RtkStamps, frame : 0 .. MaxStamp, used : BOOLEAN]

(* Type correctness, with the bound of the RTK queue that keeps wrong time *)
(* stamps from growing it without limit.                                   *)
TypeOK ==
  /\ track \in Tracks
  /\ rtk_queue \in Seq(RtkStamps) /\ Len(rtk_queue) <= MaxRtk
  /\ rtk_seen \subseteq RtkStamps
  /\ have_livo \in BOOLEAN /\ last_livo_stamp \in 0 .. MaxStamp
  /\ last_local_pose \in Int /\ global_pose \in Int
  /\ variance \in Nat /\ globally_initialized \in BOOLEAN
  /\ frames \in 0 .. MaxFrames
  /\ matched \in Seq(Match)
  /\ continuous \in BOOLEAN /\ coasted \in Nat

(* Each RTK observation updates the filter at most once, whatever the      *)
(* order of receipt and even when the frames jump back in time.            *)
AppliedOnce ==
  /\ \A i, j \in DOMAIN matched : i # j => matched[i].obs # matched[j].obs
  /\ \A i \in DOMAIN matched, k \in DOMAIN rtk_queue : matched[i].obs # rtk_queue[k]

(* As long as the increments are unbroken, the published global pose is no *)
(* further from the truth than the vehicle moves within the tolerance, by  *)
(* which an observation may be older or newer than its frame.              *)
AnchorErrorBounded ==
  globally_initialized /\ continuous =>
    Distance(global_pose, track[last_livo_stamp] + Origin) <= MaxSpeed * SyncTolerance

(* The gate cannot lock the observations out for ever: one is refused only *)
(* while its innovation is too large for the uncertainty accumulated since *)
(* the last update.                                                        *)
GateReopens ==
  [][Len(matched') > Len(matched) /\ ~matched'[Len(matched')].used =>
       LET innovation == Antenna(matched'[Len(matched')].obs) - LeverArm - global_pose'
       IN  innovation * innovation > NisGate * (ProcessVariance * coasted' + RtkVariance)]_vars

(* A frame takes the nearest observation within the tolerance, and goes    *)
(* without one only if there is none.                                      *)
NearestInTolerance ==
  [][frames' > frames =>
       \A k \in DOMAIN rtk_queue :
         Distance(rtk_queue[k], last_livo_stamp') >=
           IF matched' = matched THEN SyncTolerance + 1
           ELSE Distance(matched'[Len(matched')].obs, last_livo_stamp')]_vars

(* The comment of pushRtk: even when messages arrive out of order, the     *)
(* matching proceeds in increasing time.                                   *)
MatchedInTimeOrder ==
  \A i, j \in DOMAIN matched :
    i < j /\ matched[i].frame < matched[j].frame => matched[i].obs < matched[j].obs
=============================================================================
