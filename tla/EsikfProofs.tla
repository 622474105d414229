---------------------------- MODULE EsikfProofs -----------------------------
(***************************************************************************)
(* Invariants of the real-time global filter for every value of its        *)
(* constants: its types, that an observation is applied once and is the    *)
(* nearest one, the bound of the error and the condition of a refusal.     *)
(***************************************************************************)
EXTENDS Esikf, RtkTimeQueueProofs

(***************************************************************************)
(* Facts about the data                                                    *)
(***************************************************************************)
(* The quotient of naturals.                                               *)
LEMMA Quotient ==
  ASSUME NEW a \in Nat, NEW b \in Nat \ {0}
  PROVE  a \div b \in Nat
OBVIOUS

(* The part of an innovation that the gain lets through is an integer.     *)
LEMMA WeightedType ==
  ASSUME NEW x \in Int, NEW p \in Nat, NEW r \in Nat \ {0}
  PROVE  Weighted(x, p, r) \in Int
<1>1. p + r \in Nat \ {0}
  OBVIOUS
<1>2. CASE x >= 0
  <2>1. p * x \in Nat
    BY <1>2
  <2>2. (p * x) \div (p + r) \in Nat
    BY <1>1, <2>1, Quotient
  <2> QED
    BY <1>2, <2>2 DEF Weighted
<1>3. CASE ~ (x >= 0)
  <2>1. -x \in Nat
    BY <1>3
  <2>2. p * (-x) \in Nat
    BY <2>1
  <2>3. (p * (-x)) \div (p + r) \in Nat
    BY <1>1, <2>2, Quotient
  <2> QED
    BY <1>3, <2>3 DEF Weighted
<1> QED
  BY <1>2, <1>3

(* The true motion at the time of a frame or an observation.               *)
LEMMA TrackType ==
  ASSUME TypeOK, NEW stamp \in 0 .. MaxStamp
  PROVE  track[stamp] \in Int
BY EsikfAssumption DEF TypeOK

(* Prediction keeps pose, variance and time in their types.                *)
LEMMA PriorType ==
  ASSUME TypeOK, NEW stamp \in 0 .. MaxStamp
  PROVE  /\ Prior(stamp).pose \in Int
         /\ Prior(stamp).variance \in Nat
         /\ Prior(stamp).coasted \in Nat
<1>1. track[stamp] \in Int
  BY TrackType
<1>2. CASE Propagates(stamp)
  <2>1. Elapsed(stamp) \in Nat /\ ProcessVariance \in Nat
    BY <1>2, EsikfAssumption DEF Propagates, Elapsed, TypeOK
  <2> DEFINE grown == ProcessVariance * Elapsed(stamp)
             prior == [pose |-> global_pose + (track[stamp] - last_local_pose),
                       variance |-> variance + grown,
                       coasted |-> coasted + Elapsed(stamp)]
  <2>2. grown \in Nat
    BY <2>1
  <2>3. Prior(stamp) = prior
    BY <1>2 DEF Prior
  <2> HIDE DEF grown
  <2>4. /\ prior.pose = global_pose + (track[stamp] - last_local_pose)
        /\ prior.variance = variance + grown
        /\ prior.coasted = coasted + Elapsed(stamp)
    OBVIOUS
  <2> HIDE DEF prior
  <2> QED
    BY <1>1, <2>1, <2>2, <2>3, <2>4 DEF TypeOK
<1>3. CASE ~Propagates(stamp)
  BY <1>1, <1>3 DEF Prior, TypeOK
<1> QED
  BY <1>2, <1>3

(* What a frame does to the queue: it drops a prefix, and a match is the   *)
(* last observation dropped.                                               *)
LEMMA ProcessDrops ==
  ASSUME TypeOK, ProcessLivo
  PROVE  \E k \in 0 .. Len(rtk_queue) :
           /\ rtk_queue' = DropFront(rtk_queue, k)
           /\ \/ matched' = matched
              \/ /\ k \in DOMAIN rtk_queue
                 /\ \E frame \in 0 .. MaxStamp, used \in BOOLEAN :
                      matched' = Append(matched,
                                   [obs |-> rtk_queue[k], frame |-> frame, used |-> used])
<1> DEFINE q == rtk_queue
<1>1. PICK stamp \in 0 .. MaxStamp : NoMatch(stamp) \/ Matches(stamp)
  BY DEF ProcessLivo
<1>2. q \in Seq(RtkStamps) /\ Len(q) \in Nat
  BY DEF TypeOK
<1>3. PICK k \in 0 .. Len(q) : Fresh(stamp) = DropFront(q, k)
  BY <1>2, ExpireIsDropFront DEF Fresh
<1>4. CASE NoMatch(stamp)
  BY <1>3, <1>4 DEF NoMatch
<1>5. CASE Matches(stamp)
  <2>1. PICK best \in DOMAIN Fresh(stamp) :
          /\ q' = DropFront(Fresh(stamp), best)
          /\ \/ InitializeFromRtk(stamp, Fresh(stamp)[best])
             \/ UpdatePosition(stamp, Fresh(stamp)[best])
             \/ RefuseObservation(stamp, Fresh(stamp)[best])
    BY <1>5 DEF Matches, Consume
  <2>2. /\ Len(Fresh(stamp)) = Len(q) - k
        /\ Fresh(stamp) \in Seq(RtkStamps)
        /\ \A i \in 1 .. Len(q) - k : Fresh(stamp)[i] = q[k + i]
    BY <1>2, <1>3, DropFrontProperties
  <2>3. best \in 1 .. Len(q) - k
    BY <2>1, <2>2
  <2>4. k + best \in DOMAIN q /\ k + best \in 0 .. Len(q) /\ best \in 0 .. Len(q) - k
    BY <1>2, <2>3
  <2>5. q' = DropFront(q, k + best)
    BY <1>2, <1>3, <2>1, <2>4, DropFrontTwice
  <2>6. Fresh(stamp)[best] = q[k + best]
    BY <2>2, <2>3
  <2>7. \E used \in BOOLEAN :
          matched' = Append(matched, [obs |-> q[k + best], frame |-> stamp, used |-> used])
    BY <2>1, <2>6 DEF InitializeFromRtk, UpdatePosition, RefuseObservation
  <2> QED
    BY <2>4, <2>5, <2>7
<1> QED
  BY <1>1, <1>4, <1>5

(***************************************************************************)
(* Type correctness                                                        *)
(***************************************************************************)
LEMMA FilterType ==
  ASSUME TypeOK, NEW stamp \in 0 .. MaxStamp, NoMatch(stamp) \/ Matches(stamp)
  PROVE  /\ global_pose' \in Int /\ variance' \in Nat /\ coasted' \in Nat
         /\ globally_initialized' \in BOOLEAN /\ continuous' \in BOOLEAN
<1> DEFINE Ok == /\ global_pose' \in Int /\ variance' \in Nat /\ coasted' \in Nat
                 /\ globally_initialized' \in BOOLEAN /\ continuous' \in BOOLEAN
<1>1. /\ Prior(stamp).pose \in Int /\ Prior(stamp).variance \in Nat
      /\ Prior(stamp).coasted \in Nat
  BY PriorType
<1>2. StillContinuous(stamp) \in BOOLEAN
  BY DEF StillContinuous, TypeOK
<1>3. CASE NoMatch(stamp)
  BY <1>1, <1>2, <1>3 DEF NoMatch, TypeOK
<1>4. CASE Matches(stamp)
  <2>1. PICK obs \in RtkStamps :
          InitializeFromRtk(stamp, obs) \/ UpdatePosition(stamp, obs)
            \/ RefuseObservation(stamp, obs)
    <3>1. PICK k \in 0 .. Len(rtk_queue) : Fresh(stamp) = DropFront(rtk_queue, k)
      BY ExpireIsDropFront DEF Fresh, TypeOK
    <3>2. Fresh(stamp) \in Seq(RtkStamps)
      BY <3>1, DropFrontProperties DEF TypeOK
    <3>3. \A best \in DOMAIN Fresh(stamp) : Fresh(stamp)[best] \in RtkStamps
      BY <3>2
    <3> QED
      BY <1>4, <3>3 DEF Matches
  <2>2. Antenna(obs) \in Int /\ LeverArm \in Int /\ RtkVariance \in Nat \ {0}
    <3>1. track[obs] \in Int
      BY EsikfAssumption, TrackType
    <3> QED
      BY <3>1, EsikfAssumption DEF Antenna
  <2>3. CASE InitializeFromRtk(stamp, obs)
    BY <2>2, <2>3 DEF InitializeFromRtk
  <2>4. CASE UpdatePosition(stamp, obs)
    <3> DEFINE p == Prior(stamp).variance
    <3>1. Innovation(stamp, obs) \in Int
      BY <1>1, <2>2 DEF Innovation
    <3>2. Weighted(Innovation(stamp, obs), p, RtkVariance) \in Int
      BY <1>1, <2>2, <3>1, WeightedType
    <3>3. p * RtkVariance \in Nat /\ p + RtkVariance \in Nat \ {0}
      BY <1>1, <2>2
    <3>4. (p * RtkVariance) \div (p + RtkVariance) \in Nat
      BY <3>3, Quotient
    <3> QED
      BY <1>1, <1>2, <2>4, <3>2, <3>4 DEF UpdatePosition, TypeOK
  <2>5. CASE RefuseObservation(stamp, obs)
    BY <1>1, <1>2, <2>5 DEF RefuseObservation, TypeOK
  <2> QED
    BY <2>1, <2>3, <2>4, <2>5
<1> QED
  BY <1>3, <1>4

LEMMA TypeStep == TypeOK /\ [Next]_vars => TypeOK'
<1> SUFFICES ASSUME TypeOK, [Next]_vars PROVE TypeOK'
  OBVIOUS
<1>1. CASE PushObservation
  <2>1. PICK stamp \in RtkStamps \ rtk_seen :
          /\ rtk_queue' = PushRtk(rtk_queue, stamp, MaxRtk)
          /\ rtk_seen' = rtk_seen \cup {stamp}
    BY <1>1 DEF PushObservation
  <2>2. RtkStamps \in SUBSET Nat /\ MaxRtk \in Nat
    BY EsikfAssumption
  <2>3. rtk_queue' \in Seq(RtkStamps) /\ Len(rtk_queue') <= MaxRtk
    BY <2>1, <2>2, PushRtkProperties DEF TypeOK
  <2> QED
    BY <1>1, <2>1, <2>3 DEF PushObservation, TypeOK, livoVars, filterVars
<1>2. CASE ProcessLivo
  <2>1. PICK stamp \in 0 .. MaxStamp :
          SetReference(stamp) /\ (NoMatch(stamp) \/ Matches(stamp))
    BY <1>2 DEF ProcessLivo
  <2>2. /\ have_livo' \in BOOLEAN /\ last_livo_stamp' \in 0 .. MaxStamp
        /\ last_local_pose' \in Int
    BY <2>1, TrackType DEF SetReference
  <2>3. frames' \in 0 .. MaxFrames /\ UNCHANGED <<track, rtk_seen>>
    BY <1>2, <2>1, EsikfAssumption DEF ProcessLivo, SetReference, TypeOK
  <2>4. /\ global_pose' \in Int /\ variance' \in Nat /\ coasted' \in Nat
        /\ globally_initialized' \in BOOLEAN /\ continuous' \in BOOLEAN
    BY <2>1, FilterType
  <2>5. PICK k \in 0 .. Len(rtk_queue) :
          /\ rtk_queue' = DropFront(rtk_queue, k)
          /\ \/ matched' = matched
             \/ /\ k \in DOMAIN rtk_queue
                /\ \E frame \in 0 .. MaxStamp, used \in BOOLEAN :
                     matched' = Append(matched,
                                  [obs |-> rtk_queue[k], frame |-> frame, used |-> used])
    BY <1>2, ProcessDrops
  <2>6. rtk_queue' \in Seq(RtkStamps) /\ Len(rtk_queue') <= MaxRtk
    <3>1. rtk_queue' \in Seq(RtkStamps) /\ Len(rtk_queue') = Len(rtk_queue) - k
      BY <2>5, DropFrontProperties DEF TypeOK
    <3> QED
      BY <3>1, EsikfAssumption DEF TypeOK
  <2>7. matched' \in Seq(Match)
    <3>1. CASE matched' = matched
      BY <3>1 DEF TypeOK
    <3>2. CASE matched' # matched
      <4>1. PICK frame \in 0 .. MaxStamp, used \in BOOLEAN :
              matched' = Append(matched,
                           [obs |-> rtk_queue[k], frame |-> frame, used |-> used])
        BY <2>5, <3>2
      <4>2. rtk_queue[k] \in RtkStamps
        BY <2>5, <3>2 DEF TypeOK
      <4>3. [obs |-> rtk_queue[k], frame |-> frame, used |-> used] \in Match
        BY <4>2 DEF Match
      <4>4. matched \in Seq(Match)
        BY DEF TypeOK
      <4> HIDE DEF Match
      <4> QED
        BY <4>1, <4>3, <4>4
    <3> QED
      BY <3>1, <3>2
  <2> QED
    BY <2>2, <2>3, <2>4, <2>6, <2>7 DEF TypeOK
<1>3. CASE UNCHANGED vars
  BY <1>3 DEF TypeOK, vars, livoVars, filterVars
<1> QED
  BY <1>1, <1>2, <1>3 DEF Next

(* Types and the bound of pushRtk, for every motion, threshold and bound.  *)
THEOREM FilterTypeCorrect == Spec => []TypeOK
<1>1. Init => TypeOK
  <2> SUFFICES ASSUME Init PROVE TypeOK
    OBVIOUS
  <2>1. rtk_queue \in Seq(RtkStamps) /\ matched \in Seq(Match)
    BY DEF Init
  <2>2. Len(rtk_queue) <= MaxRtk /\ rtk_seen \subseteq RtkStamps
    BY EsikfAssumption DEF Init
  <2>3. /\ last_livo_stamp \in 0 .. MaxStamp /\ last_local_pose \in Int
        /\ global_pose \in Int /\ variance \in Nat
        /\ frames \in 0 .. MaxFrames /\ coasted \in Nat
    BY EsikfAssumption DEF Init
  <2>4. /\ have_livo \in BOOLEAN /\ globally_initialized \in BOOLEAN
        /\ continuous \in BOOLEAN
    BY Zenon DEF Init
  <2> QED
    BY <2>1, <2>2, <2>3, <2>4 DEF Init, TypeOK
<1>2. TypeOK /\ [Next]_vars => TypeOK'
  BY TypeStep
<1> QED
  BY <1>1, <1>2, PTL DEF Spec

(***************************************************************************)
(* Single use                                                              *)
(***************************************************************************)

(* What the queue and the history hold has been received; an observation   *)
(* pushed has not, which makes AppliedOnce inductive.                      *)
OnlyReceived ==
  /\ Distinct(rtk_queue)
  /\ \A k \in DOMAIN rtk_queue : rtk_queue[k] \in rtk_seen
  /\ \A i \in DOMAIN matched : matched[i].obs \in rtk_seen

UseInv == OnlyReceived /\ AppliedOnce

LEMMA UsePush == TypeOK /\ UseInv /\ PushObservation => UseInv'
<1> SUFFICES ASSUME TypeOK, UseInv, PushObservation PROVE UseInv'
  OBVIOUS
<1>1. PICK stamp \in RtkStamps \ rtk_seen :
        /\ rtk_queue' = PushRtk(rtk_queue, stamp, MaxRtk)
        /\ rtk_seen' = rtk_seen \cup {stamp}
  BY DEF PushObservation
<1>2. matched' = matched
  BY DEF PushObservation, filterVars
<1>3. /\ RtkStamps \in SUBSET Nat /\ MaxRtk \in Nat /\ stamp \in RtkStamps
      /\ rtk_queue \in Seq(RtkStamps) /\ Len(rtk_queue) <= MaxRtk
  BY EsikfAssumption DEF TypeOK
<1>4. \A j \in DOMAIN rtk_queue : rtk_queue[j] # stamp
  BY DEF UseInv, OnlyReceived
<1>5. /\ \A k \in DOMAIN rtk_queue' :
           rtk_queue'[k] = stamp \/ \E j \in DOMAIN rtk_queue : rtk_queue'[k] = rtk_queue[j]
      /\ Distinct(rtk_queue) => Distinct(rtk_queue')
  BY <1>1, <1>3, <1>4, PushRtkProperties
<1>6. OnlyReceived'
  BY <1>1, <1>2, <1>5 DEF UseInv, OnlyReceived
<1>7. \A i \in DOMAIN matched : matched[i].obs # stamp
  BY DEF UseInv, OnlyReceived
<1>8. AppliedOnce'
  BY <1>2, <1>5, <1>7 DEF UseInv, AppliedOnce
<1> QED
  BY <1>6, <1>8 DEF UseInv

LEMMA UseProcess == TypeOK /\ UseInv /\ ProcessLivo => UseInv'
<1> SUFFICES ASSUME TypeOK, UseInv, ProcessLivo PROVE UseInv'
  OBVIOUS
<1>1. PICK k \in 0 .. Len(rtk_queue) :
        /\ rtk_queue' = DropFront(rtk_queue, k)
        /\ \/ matched' = matched
           \/ /\ k \in DOMAIN rtk_queue
              /\ \E frame \in 0 .. MaxStamp, used \in BOOLEAN :
                   matched' = Append(matched,
                                [obs |-> rtk_queue[k], frame |-> frame, used |-> used])
  BY ProcessDrops
<1>2. rtk_queue \in Seq(Nat)
  <2>1. RtkStamps \subseteq Nat
    BY EsikfAssumption
  <2>2. rtk_queue \in Seq(RtkStamps)
    BY DEF TypeOK
  <2> QED
    BY <2>1, <2>2, SeqMonotonic, Zenon
<1>3. rtk_seen' = rtk_seen
  BY DEF ProcessLivo
<1>4. /\ \A i \in DOMAIN rtk_queue' : \E j \in DOMAIN rtk_queue : rtk_queue'[i] = rtk_queue[j]
      /\ \A i \in DOMAIN rtk_queue', j \in 1 .. k : rtk_queue'[i] # rtk_queue[j]
      /\ Distinct(rtk_queue')
  BY <1>1, <1>2, DropFrontKeeps DEF UseInv, OnlyReceived
<1>5. CASE matched' = matched
  <2>1. OnlyReceived'
    BY <1>3, <1>4, <1>5 DEF UseInv, OnlyReceived
  <2>2. AppliedOnce'
    BY <1>4, <1>5 DEF UseInv, AppliedOnce
  <2> QED
    BY <2>1, <2>2 DEF UseInv
<1>6. CASE matched' # matched
  <2>1. PICK frame \in 0 .. MaxStamp, used \in BOOLEAN :
          matched' = Append(matched, [obs |-> rtk_queue[k], frame |-> frame, used |-> used])
    BY <1>1, <1>6
  <2>2. k \in DOMAIN rtk_queue /\ k \in 1 .. k
    BY <1>1, <1>2, <1>6
  <2>3. matched \in Seq(Match) /\ Len(matched) \in Nat
    BY DEF TypeOK
  <2>4. \A i \in DOMAIN matched' :
          \/ i \in DOMAIN matched /\ matched'[i] = matched[i]
          \/ i = Len(matched) + 1 /\ matched'[i].obs = rtk_queue[k]
    BY <2>1, <2>3
  <2>5. \A i \in DOMAIN matched : matched[i].obs # rtk_queue[k]
    BY <2>2 DEF UseInv, AppliedOnce
  <2>6. OnlyReceived'
    BY <1>3, <1>4, <2>2, <2>4 DEF UseInv, OnlyReceived
  <2>7. AppliedOnce'
    BY <1>4, <2>2, <2>4, <2>5 DEF UseInv, AppliedOnce
  <2> QED
    BY <2>6, <2>7 DEF UseInv
<1> QED
  BY <1>5, <1>6

(* An observation corrects the filter at most once: processLivo erases the *)
(* queue through the match, whatever the order of receipt and of frames.   *)
THEOREM FilterAppliesOnce == Spec => []AppliedOnce
<1>1. Init => UseInv
  BY DEF Init, UseInv, OnlyReceived, AppliedOnce, Distinct
<1>2. TypeOK /\ UseInv /\ [Next]_vars => UseInv'
  <2>1. TypeOK /\ UseInv /\ UNCHANGED vars => UseInv'
    BY DEF vars, filterVars, UseInv, OnlyReceived, AppliedOnce
  <2> QED
    BY <2>1, UsePush, UseProcess DEF Next
<1>3. UseInv => AppliedOnce
  BY DEF UseInv
<1> QED
  BY <1>1, <1>2, <1>3, FilterTypeCorrect, PTL DEF Spec

(***************************************************************************)
(* The search for the nearest observation                                  *)
(***************************************************************************)
QueueSorted == Sorted(rtk_queue)

LEMMA QueueOfNaturals ==
  ASSUME TypeOK
  PROVE  rtk_queue \in Seq(Nat)
<1>1. RtkStamps \subseteq Nat
  BY EsikfAssumption
<1>2. rtk_queue \in Seq(RtkStamps)
  BY DEF TypeOK
<1> QED
  BY <1>1, <1>2, SeqMonotonic, Zenon

LEMMA SortedStep == TypeOK /\ QueueSorted /\ [Next]_vars => QueueSorted'
<1> SUFFICES ASSUME TypeOK, QueueSorted, [Next]_vars PROVE QueueSorted'
  OBVIOUS
<1>1. CASE PushObservation
  <2>1. PICK stamp \in RtkStamps \ rtk_seen : rtk_queue' = PushRtk(rtk_queue, stamp, MaxRtk)
    BY <1>1 DEF PushObservation
  <2>2. /\ RtkStamps \in SUBSET Nat /\ MaxRtk \in Nat /\ stamp \in RtkStamps
        /\ rtk_queue \in Seq(RtkStamps) /\ Len(rtk_queue) <= MaxRtk
    BY EsikfAssumption DEF TypeOK
  <2> QED
    BY <2>1, <2>2, PushRtkProperties DEF QueueSorted
<1>2. CASE ProcessLivo
  <2>1. PICK k \in 0 .. Len(rtk_queue) : rtk_queue' = DropFront(rtk_queue, k)
    BY <1>2, ProcessDrops
  <2> QED
    BY <2>1, QueueOfNaturals, DropFrontKeeps DEF QueueSorted
<1>3. CASE UNCHANGED vars
  BY <1>3 DEF vars, QueueSorted
<1> QED
  BY <1>1, <1>2, <1>3 DEF Next

LEMMA SortedInvariant == Spec => []QueueSorted
<1>1. Init => QueueSorted
  BY DEF Init, QueueSorted, Sorted
<1> QED
  BY <1>1, SortedStep, FilterTypeCorrect, PTL DEF Spec

(* What a frame does: it finds nothing within the tolerance, or takes the  *)
(* nearest observation and anchors, corrects or refuses with it.           *)
LEMMA FrameCases ==
  ASSUME TypeOK, QueueSorted, NEW stamp \in 0 .. MaxStamp, NoMatch(stamp) \/ Matches(stamp)
  PROVE  \/ /\ NoMatch(stamp)
            /\ \A k \in DOMAIN rtk_queue : Distance(rtk_queue[k], stamp) > SyncTolerance
         \/ \E obs \in RtkStamps :
              /\ Distance(obs, stamp) <= SyncTolerance
              /\ \A k \in DOMAIN rtk_queue : Distance(obs, stamp) <= Distance(rtk_queue[k], stamp)
              /\ \/ InitializeFromRtk(stamp, obs)
                 \/ UpdatePosition(stamp, obs)
                 \/ RefuseObservation(stamp, obs)
<1> DEFINE q == rtk_queue
           tol == SyncTolerance
           limit == stamp - SyncTolerance
           fresh == Fresh(stamp)
           best == NearestWithin(fresh, stamp, tol)
<1>1. /\ q \in Seq(Nat) /\ q \in Seq(RtkStamps) /\ Sorted(q)
      /\ stamp \in Nat /\ tol \in Nat /\ limit \in Int
  <2>1. stamp \in Nat /\ tol \in Nat
    BY EsikfAssumption
  <2> QED
    BY <2>1, QueueOfNaturals DEF TypeOK, QueueSorted
<1>2. PICK n \in 0 .. Len(q) : fresh = DropFront(q, n) /\ \A i \in 1 .. n : q[i] < limit
  <2>1. fresh = Expire(q, limit)
    BY DEF Fresh
  <2> HIDE DEF limit, fresh, q
  <2> QED
    BY <1>1, <2>1, ExpireDropsOld
<1>3. /\ fresh \in Seq(Nat) /\ fresh \in Seq(RtkStamps) /\ Len(fresh) = Len(q) - n
      /\ \A i \in 1 .. Len(q) - n : fresh[i] = q[n + i]
      /\ Sorted(fresh)
  BY <1>1, <1>2, DropFrontProperties, DropFrontKeeps
<1> HIDE DEF fresh
<1>4. \A k \in DOMAIN q : Distance(q[k], stamp) \in Nat
  <2> TAKE k \in DOMAIN q
  <2>1. q[k] \in Int /\ stamp \in Int
    BY <1>1
  <2> QED
    BY <2>1, DistanceProperties
<1>5. \A k \in DOMAIN q : \/ Distance(q[k], stamp) > tol
                         \/ \E i \in DOMAIN fresh : fresh[i] = q[k]
  <2> TAKE k \in DOMAIN q
  <2>1. k \in 1 .. Len(q) /\ n \in Nat /\ Len(q) \in Nat /\ DOMAIN fresh = 1 .. Len(q) - n
    BY <1>1, <1>3
  <2>2. CASE k <= n
    <3> DEFINE x == q[k]
    <3>1. x < limit /\ x \in Nat
      BY <1>1, <1>2, <2>1, <2>2
    <3> HIDE DEF x
    <3>2. Distance(x, stamp) > tol
      BY <1>1, <3>1 DEF Distance
    <3> QED
      BY <3>2 DEF x
  <2>3. CASE k > n
    <3>1. k - n \in 1 .. Len(q) - n /\ n + (k - n) = k
      BY <2>1, <2>3
    <3>2. fresh[k - n] = q[k]
      BY <1>3, <3>1
    <3> QED
      BY <2>1, <3>1, <3>2
  <2> QED
    BY <2>1, <2>2, <2>3
<1>6. /\ best \in 0 .. Len(fresh)
      /\ best = 0 => \A i \in DOMAIN fresh : Distance(fresh[i], stamp) > tol
      /\ best # 0 => /\ Distance(fresh[best], stamp) <= tol
                     /\ \A i \in DOMAIN fresh : Distance(fresh[best], stamp) <= Distance(fresh[i], stamp)
  BY <1>1, <1>3, NearestWithinIsNearest
<1>7. CASE NoMatch(stamp)
  <2>1. best = 0
    BY <1>7 DEF NoMatch, fresh
  <2>2. \A k \in DOMAIN q : Distance(q[k], stamp) > tol
    BY <1>5, <1>6, <2>1
  <2> QED
    BY <1>7, <2>2
<1>8. CASE Matches(stamp)
  <2>1. /\ best \in DOMAIN fresh
        /\ \/ InitializeFromRtk(stamp, fresh[best])
           \/ UpdatePosition(stamp, fresh[best])
           \/ RefuseObservation(stamp, fresh[best])
    BY <1>8 DEF Matches, fresh
  <2> HIDE DEF best
  <2> DEFINE obs == fresh[best]
             d == Distance(obs, stamp)
  <2>2. obs \in RtkStamps /\ obs \in Int /\ best # 0
    BY <1>3, <2>1
  <2>3. d \in Nat
    <3> HIDE DEF obs
    <3>1. stamp \in Int
      BY <1>1
    <3> QED
      BY <2>2, <3>1, DistanceProperties
  <2>4. d <= tol /\ \A i \in DOMAIN fresh : d <= Distance(fresh[i], stamp)
    BY <1>6, <2>2
  <2>5. \A k \in DOMAIN q : d <= Distance(q[k], stamp)
    <3> TAKE k \in DOMAIN q
    <3> DEFINE e == Distance(q[k], stamp)
    <3>1. e \in Nat /\ (e > tol \/ d <= e)
      BY <1>4, <1>5, <2>4
    <3> HIDE DEF e, d
    <3>2. d <= e
      BY <1>1, <2>3, <2>4, <3>1
    <3> QED
      BY <3>2 DEF e
  <2> QED
    BY <2>1, <2>2, <2>4, <2>5
<1> QED
  BY <1>7, <1>8

(* A use of an observation, or a refusal, is the last of the history.      *)
LEMMA MatchRecorded ==
  ASSUME TypeOK, NEW stamp \in 0 .. MaxStamp, NEW obs \in RtkStamps,
         \/ InitializeFromRtk(stamp, obs)
         \/ UpdatePosition(stamp, obs)
         \/ RefuseObservation(stamp, obs)
  PROVE  /\ Len(matched') = Len(matched) + 1 /\ Len(matched) \in Nat /\ matched' # matched
         /\ matched'[Len(matched')].obs = obs
         /\ matched'[Len(matched')].used <=> ~ RefuseObservation(stamp, obs)
<1> DEFINE entry(used) == [obs |-> obs, frame |-> stamp, used |-> used]
<1>1. matched \in Seq(Match) /\ Len(matched) \in Nat
  BY DEF TypeOK
<1>2. PICK used \in BOOLEAN :
        matched' = Append(matched, entry(used)) /\ (used <=> ~ RefuseObservation(stamp, obs))
  <2>1. RefuseObservation(stamp, obs) =>
          matched' = Append(matched, entry(FALSE))
    BY DEF RefuseObservation
  <2>2. ~ RefuseObservation(stamp, obs) => matched' = Append(matched, entry(TRUE))
    BY DEF InitializeFromRtk, UpdatePosition
  <2> HIDE DEF entry
  <2> QED
    BY <2>1, <2>2, Zenon
<1>3. entry(used) \in Match /\ entry(used).obs = obs /\ entry(used).used = used
  BY DEF Match
<1> HIDE DEF entry, Match
<1>4. /\ Len(matched') = Len(matched) + 1
      /\ matched'[Len(matched) + 1] = entry(used)
  BY <1>1, <1>2, <1>3
<1>5. matched' # matched
  BY <1>1, <1>4
<1> QED
  BY <1>1, <1>2, <1>3, <1>4, <1>5, Zenon

TakesNearest ==
  frames' > frames =>
    \A k \in DOMAIN rtk_queue :
      Distance(rtk_queue[k], last_livo_stamp') >=
        IF matched' = matched THEN SyncTolerance + 1
        ELSE Distance(matched'[Len(matched')].obs, last_livo_stamp')

(* processLivo takes the nearest queued observation within the tolerance,  *)
(* and none only if there is none: the purge and the early exit of its     *)
(* loop lose nothing, whatever the order of receipt and of the frames.     *)
THEOREM NearestIsTaken == Spec => NearestInTolerance
<1>1. TypeOK /\ QueueSorted /\ [Next]_vars => [TakesNearest]_vars
  <2> SUFFICES ASSUME TypeOK, QueueSorted, Next, frames' > frames
               PROVE  TakesNearest
    BY DEF TakesNearest
  <2>1. ~ PushObservation
    <3>1. PushObservation => frames' = frames
      BY DEF PushObservation, livoVars
    <3>2. frames \in Nat
      BY EsikfAssumption DEF TypeOK
    <3> QED
      BY <3>1, <3>2
  <2>2. PICK stamp \in 0 .. MaxStamp :
          last_livo_stamp' = stamp /\ (NoMatch(stamp) \/ Matches(stamp))
    BY <2>1 DEF Next, ProcessLivo, SetReference
  <2>3. \A k \in DOMAIN rtk_queue : Distance(rtk_queue[k], stamp) \in Nat
    <3> TAKE k \in DOMAIN rtk_queue
    <3>1. rtk_queue[k] \in Int /\ stamp \in Int
      BY QueueOfNaturals
    <3> QED
      BY <3>1, DistanceProperties
  <2>4. CASE /\ NoMatch(stamp)
             /\ \A k \in DOMAIN rtk_queue : Distance(rtk_queue[k], stamp) > SyncTolerance
    <3>1. matched' = matched
      BY <2>4 DEF NoMatch
    <3>2. \A k \in DOMAIN rtk_queue : Distance(rtk_queue[k], stamp) >= SyncTolerance + 1
      BY <2>3, <2>4, EsikfAssumption
    <3> QED
      BY <2>2, <3>1, <3>2 DEF TakesNearest
  <2>5. CASE \E obs \in RtkStamps :
              /\ \A k \in DOMAIN rtk_queue : Distance(obs, stamp) <= Distance(rtk_queue[k], stamp)
              /\ \/ InitializeFromRtk(stamp, obs)
                 \/ UpdatePosition(stamp, obs)
                 \/ RefuseObservation(stamp, obs)
    <3>1. PICK obs \in RtkStamps :
              /\ \A k \in DOMAIN rtk_queue : Distance(obs, stamp) <= Distance(rtk_queue[k], stamp)
              /\ \/ InitializeFromRtk(stamp, obs)
                 \/ UpdatePosition(stamp, obs)
                 \/ RefuseObservation(stamp, obs)
      BY <2>5
    <3>2. matched' # matched /\ matched'[Len(matched')].obs = obs
      BY <3>1, MatchRecorded
    <3>3. Distance(obs, stamp) \in Nat
      <4>1. obs \in Int /\ stamp \in Int
        BY EsikfAssumption
      <4> QED
        BY <4>1, DistanceProperties
    <3>4. \A k \in DOMAIN rtk_queue : Distance(rtk_queue[k], stamp) >= Distance(obs, stamp)
      BY <2>3, <3>1, <3>3
    <3> QED
      BY <2>2, <3>2, <3>4 DEF TakesNearest
  <2> QED
    BY <2>2, <2>4, <2>5, FrameCases
<1>2. [TakesNearest]_vars =>
        [frames' > frames =>
           \A k \in DOMAIN rtk_queue :
             Distance(rtk_queue[k], last_livo_stamp') >=
               IF matched' = matched THEN SyncTolerance + 1
               ELSE Distance(matched'[Len(matched')].obs, last_livo_stamp')]_vars
  BY DEF TakesNearest
<1> QED
  BY <1>1, <1>2, FilterTypeCorrect, SortedInvariant, PTL DEF Spec, NearestInTolerance

(***************************************************************************)
(* The error of the global pose                                            *)
(***************************************************************************)
LEMMA ProductMonotone ==
  ASSUME NEW a \in Int, NEW b \in Int, NEW c \in Nat, a <= b
  PROVE  c * a <= c * b
<1>1. b - a \in Nat /\ b = a + (b - a)
  OBVIOUS
<1> DEFINE e == b - a
<1>2. c * (a + e) = c * a + c * e
  OBVIOUS
<1>3. c * e \in Nat
  BY <1>1
<1> HIDE DEF e
<1>4. c * b = c * a + c * e
  BY <1>1, <1>2 DEF e
<1>5. c * a \in Int
  OBVIOUS
<1> QED
  BY <1>3, <1>4, <1>5

LEMMA QuotientBound ==
  ASSUME NEW a \in Nat, NEW b \in Nat \ {0}, NEW x \in Nat, a <= b * x
  PROVE  a \div b <= x
<1> DEFINE q == a \div b
<1>1. q \in Nat
  OBVIOUS
<1>2. b * q <= a
  OBVIOUS
<1> HIDE DEF q
<1>3. ASSUME q > x PROVE FALSE
  <2>1. x + 1 <= q /\ x + 1 \in Int
    BY <1>1, <1>3
  <2>2. b * (x + 1) <= b * q
    BY <1>1, <2>1, ProductMonotone
  <2>3. b * (x + 1) = b * x + b
    OBVIOUS
  <2> DEFINE m == b * x  n == b * q
  <2>4. m \in Int /\ n \in Int
    BY <1>1
  <2>5. m + b <= n /\ n <= a /\ a <= m
    BY <1>2, <2>2, <2>3
  <2> HIDE DEF m, n
  <2> QED
    BY <2>4, <2>5
<1> QED
  BY <1>1, <1>3 DEF q

(* A correction moves the pose towards the observation, not beyond it.     *)
LEMMA WeightedBetween ==
  ASSUME NEW x \in Int, NEW p \in Nat, NEW r \in Nat \ {0}
  PROVE  /\ Weighted(x, p, r) \in Int
         /\ x >= 0 => 0 <= Weighted(x, p, r) /\ Weighted(x, p, r) <= x
         /\ x <= 0 => x <= Weighted(x, p, r) /\ Weighted(x, p, r) <= 0
<1> DEFINE b == p + r
<1>1. b \in Nat \ {0}
  OBVIOUS
<1>2. \A y \in Nat : (p * y) \div b \in Nat /\ (p * y) \div b <= y
  <2> TAKE y \in Nat
  <2>1. p * y \in Nat /\ b * y = p * y + r * y /\ r * y \in Nat
    OBVIOUS
  <2> DEFINE m == p * y
             n == b * y
  <2>2. m \in Nat /\ n \in Nat /\ m <= n
    BY <1>1, <2>1
  <2> HIDE DEF b
  <2>3. m \div b <= y
    <3>1. m <= b * y
      BY <2>2
    <3> HIDE DEF m
    <3> QED
      BY <1>1, <2>2, <3>1, QuotientBound
  <2>4. m \div b \in Nat
    BY <1>1, <2>2, Quotient
  <2> QED
    BY <2>3, <2>4
<1> HIDE DEF b
<1>3. CASE x >= 0
  <2> DEFINE w == (p * x) \div b
  <2>1. w \in Nat /\ w <= x
    BY <1>2, <1>3
  <2>2. Weighted(x, p, r) = w
    BY <1>3 DEF Weighted, b
  <2> HIDE DEF w
  <2> QED
    BY <1>3, <2>1, <2>2
<1>4. CASE ~ (x >= 0)
  <2> DEFINE w == (p * (-x)) \div b
  <2>1. -x \in Nat
    BY <1>4
  <2>2. w \in Nat /\ w <= -x
    BY <1>2, <2>1
  <2>3. Weighted(x, p, r) = -w
    BY <1>4 DEF Weighted, b
  <2> HIDE DEF w
  <2> QED
    BY <1>4, <2>2, <2>3
<1> QED
  BY <1>3, <1>4

(* The reference of the increments is the true local pose of the last      *)
(* frame: what makes AnchorErrorBounded inductive.                         *)
ReferenceTrue ==
  /\ globally_initialized => have_livo
  /\ have_livo => last_local_pose = track[last_livo_stamp]

ErrorBound == MaxSpeed * SyncTolerance

AnchorInv == ReferenceTrue /\ AnchorErrorBounded

(* Prediction keeps the error when the increments are unbroken.            *)
LEMMA PriorError ==
  ASSUME TypeOK, AnchorInv, NEW stamp \in 0 .. MaxStamp, globally_initialized,
         StillContinuous(stamp)
  PROVE  Distance(Prior(stamp).pose, track[stamp] + Origin) <= ErrorBound
<1> DEFINE a == track[last_livo_stamp]
           b == track[stamp]
<1>1. /\ Propagates(stamp) /\ last_local_pose = a
      /\ Distance(global_pose, a + Origin) <= ErrorBound
  BY DEF StillContinuous, AnchorInv, ReferenceTrue, AnchorErrorBounded, ErrorBound
<1>2. Prior(stamp).pose = global_pose + (b - a)
  BY <1>1 DEF Prior
<1>3. a \in Int /\ b \in Int /\ global_pose \in Int /\ Origin \in Int
  BY TrackType, EsikfAssumption DEF TypeOK
<1> HIDE DEF a, b
<1>4. Distance(global_pose + (b - a), b + Origin) = Distance(global_pose, a + Origin)
  BY <1>3 DEF Distance
<1> QED
  BY <1>1, <1>2, <1>4 DEF b

(* An observation within the tolerance is that near to the frame's truth.  *)
LEMMA ObservationError ==
  ASSUME TypeOK, NEW stamp \in 0 .. MaxStamp, NEW obs \in RtkStamps,
         Distance(obs, stamp) <= SyncTolerance
  PROVE  Distance(track[obs] + Origin, track[stamp] + Origin) <= ErrorBound
<1> DEFINE a == track[obs]
           b == track[stamp]
           d == Distance(obs, stamp)
<1>1. obs \in 0 .. MaxStamp /\ obs \in Int /\ stamp \in Int
  BY EsikfAssumption
<1>2. a \in Int /\ b \in Int /\ Origin \in Int
  BY <1>1, TrackType, EsikfAssumption
<1>3. Distance(a, b) <= MaxSpeed * d
  BY <1>1, EsikfAssumption, Zenon DEF TypeOK
<1>4. d \in Nat /\ MaxSpeed \in Nat /\ SyncTolerance \in Nat
  BY <1>1, EsikfAssumption, DistanceProperties
<1> HIDE DEF d, a, b
<1>5. MaxSpeed * d <= ErrorBound
  <2>1. d <= SyncTolerance /\ d \in Int /\ SyncTolerance \in Int
    BY <1>4 DEF d
  <2> QED
    BY <1>4, <2>1, ProductMonotone DEF ErrorBound
<1>6. MaxSpeed * d \in Nat /\ ErrorBound \in Nat
  BY <1>4 DEF ErrorBound
<1>7. Distance(a + Origin, b + Origin) = Distance(a, b) /\ Distance(a, b) \in Nat
  BY <1>2 DEF Distance
<1> DEFINE m == MaxSpeed * d
<1>8. m \in Nat /\ m <= ErrorBound /\ Distance(a, b) <= m
  BY <1>3, <1>5, <1>6
<1> HIDE DEF m
<1>9. Distance(a, b) <= ErrorBound
  BY <1>6, <1>7, <1>8
<1> QED
  BY <1>7, <1>9 DEF a, b

(* A point between two points that are near to a third is near to it.      *)
LEMMA BetweenIsNear ==
  ASSUME NEW x \in Int, NEW w \in Int, NEW y \in Int, NEW c \in Int, NEW B \in Nat,
         Distance(x, c) <= B, Distance(y, c) <= B,
         y - x >= 0 => 0 <= w /\ w <= y - x,
         y - x <= 0 => y - x <= w /\ w <= 0
  PROVE  Distance(x + w, c) <= B
BY DEF Distance

LEMMA AnchorStep == TypeOK /\ QueueSorted /\ AnchorInv /\ [Next]_vars => AnchorInv'
<1> SUFFICES ASSUME TypeOK, QueueSorted, AnchorInv, [Next]_vars PROVE AnchorInv'
  OBVIOUS
<1>1. CASE PushObservation
  BY <1>1 DEF PushObservation, livoVars, filterVars, AnchorInv, ReferenceTrue, AnchorErrorBounded
<1>2. CASE UNCHANGED vars
  BY <1>2 DEF vars, livoVars, filterVars, AnchorInv, ReferenceTrue, AnchorErrorBounded
<1>3. CASE ProcessLivo
  <2>1. PICK stamp \in 0 .. MaxStamp : SetReference(stamp) /\ (NoMatch(stamp) \/ Matches(stamp))
    BY <1>3 DEF ProcessLivo
  <2>2. track' = track /\ last_livo_stamp' = stamp
    BY <1>3, <2>1 DEF ProcessLivo, SetReference
  <2>3. ReferenceTrue'
    BY <2>1, <2>2 DEF SetReference, ReferenceTrue
  <2>4. ErrorBound \in Nat
    BY EsikfAssumption DEF ErrorBound
  <2> SUFFICES ASSUME globally_initialized', continuous'
               PROVE  Distance(global_pose', track[stamp] + Origin) <= ErrorBound
    BY <2>2, <2>3 DEF AnchorInv, AnchorErrorBounded, ErrorBound
  <2>5. CASE NoMatch(stamp)
    BY <2>5, PriorError DEF NoMatch
  <2>6. CASE \E obs \in RtkStamps :
              /\ Distance(obs, stamp) <= SyncTolerance
              /\ \/ InitializeFromRtk(stamp, obs)
                 \/ UpdatePosition(stamp, obs)
                 \/ RefuseObservation(stamp, obs)
    <3>1. PICK obs \in RtkStamps :
              /\ Distance(obs, stamp) <= SyncTolerance
              /\ \/ InitializeFromRtk(stamp, obs)
                 \/ UpdatePosition(stamp, obs)
                 \/ RefuseObservation(stamp, obs)
      BY <2>6
    <3> DEFINE seen == track[obs]
               c == track[stamp] + Origin
    <3>2. Distance(seen + Origin, c) <= ErrorBound
      BY <3>1, ObservationError
    <3>3. seen \in Int /\ c \in Int /\ Origin \in Int /\ LeverArm \in Int
          /\ RtkVariance \in Nat \ {0}
      <4>1. obs \in 0 .. MaxStamp
        BY EsikfAssumption
      <4> QED
        BY <4>1, TrackType, EsikfAssumption
    <3> HIDE DEF seen, c
    <3>4. CASE InitializeFromRtk(stamp, obs)
      <4>1. global_pose' = (seen + Origin + LeverArm) - LeverArm
        BY <3>4 DEF InitializeFromRtk, Antenna, seen
      <4>2. global_pose' = seen + Origin
        BY <3>3, <4>1
      <4> QED
        BY <3>2, <4>2 DEF c
    <3>5. CASE RefuseObservation(stamp, obs)
      BY <3>5, PriorError DEF RefuseObservation
    <3>6. CASE UpdatePosition(stamp, obs)
      <4> DEFINE x == Prior(stamp).pose
                 p == Prior(stamp).variance
                 i == Innovation(stamp, obs)
                 w == Weighted(i, p, RtkVariance)
      <4>1. Distance(x, c) <= ErrorBound
        BY <3>6, PriorError DEF UpdatePosition, c
      <4>2. x \in Int /\ p \in Nat
        BY PriorType
      <4>3. global_pose' = x + w
        BY <3>6 DEF UpdatePosition
      <4>4. i = (seen + Origin + LeverArm) - (x + LeverArm)
        BY DEF Innovation, Antenna, seen
      <4> HIDE DEF x, p, i
      <4>5. i \in Int /\ i = (seen + Origin) - x
        BY <3>3, <4>2, <4>4
      <4>6. /\ w \in Int
            /\ i >= 0 => 0 <= w /\ w <= i
            /\ i <= 0 => i <= w /\ w <= 0
        BY <3>3, <4>2, <4>5, WeightedBetween
      <4> HIDE DEF w
      <4> DEFINE y == seen + Origin
      <4>7. y \in Int /\ Distance(y, c) <= ErrorBound /\ i = y - x
        BY <3>2, <3>3, <4>5
      <4> HIDE DEF y
      <4>8. Distance(x + w, c) <= ErrorBound
        BY <2>4, <3>3, <4>1, <4>2, <4>6, <4>7, BetweenIsNear
      <4> QED
        BY <4>3, <4>8 DEF c
    <3> QED
      BY <3>1, <3>4, <3>5, <3>6
  <2> QED
    BY <2>1, <2>5, <2>6, FrameCases
<1> QED
  BY <1>1, <1>2, <1>3 DEF Next

(* As long as no reset broke the increments, the global pose is no further *)
(* from the truth than the vehicle moves within the tolerance: neither the *)
(* anchor, nor a late or early observation, nor the integer gain of the    *)
(* update adds up over the frames.                                         *)
THEOREM AnchorErrorStaysBounded == Spec => []AnchorErrorBounded
<1>1. Init => AnchorInv
  BY DEF Init, AnchorInv, ReferenceTrue, AnchorErrorBounded
<1>2. AnchorInv => AnchorErrorBounded
  BY DEF AnchorInv
<1> QED
  BY <1>1, <1>2, AnchorStep, FilterTypeCorrect, SortedInvariant, PTL DEF Spec

(***************************************************************************)
(* Refusals                                                                *)
(***************************************************************************)

(* The variance accounts for the time since the last update.               *)
VarianceGrows == variance >= ProcessVariance * coasted

LEMMA PriorVariance ==
  ASSUME TypeOK, VarianceGrows, NEW stamp \in 0 .. MaxStamp
  PROVE  Prior(stamp).variance >= ProcessVariance * Prior(stamp).coasted
<1>1. CASE Propagates(stamp)
  <2> DEFINE e == Elapsed(stamp)
             m == ProcessVariance * coasted
             n == ProcessVariance * e
  <2>1. e \in Nat /\ ProcessVariance \in Nat /\ coasted \in Nat /\ variance \in Nat
    BY <1>1, EsikfAssumption DEF Propagates, Elapsed, TypeOK
  <2>2. Prior(stamp).variance = variance + n /\ Prior(stamp).coasted = coasted + e
    BY <1>1 DEF Prior
  <2> HIDE DEF e
  <2>3. ProcessVariance * (coasted + e) = m + n /\ m \in Nat /\ n \in Nat
    BY <2>1
  <2>4. variance >= m
    BY DEF VarianceGrows
  <2> HIDE DEF m, n
  <2>5. variance + n >= m + n
    BY <2>1, <2>3, <2>4
  <2> QED
    BY <2>2, <2>3, <2>5
<1>2. CASE ~ Propagates(stamp)
  BY <1>2 DEF Prior, VarianceGrows
<1> QED
  BY <1>1, <1>2

LEMMA VarianceStep == TypeOK /\ QueueSorted /\ VarianceGrows /\ [Next]_vars => VarianceGrows'
<1> SUFFICES ASSUME TypeOK, QueueSorted, VarianceGrows, [Next]_vars PROVE VarianceGrows'
  OBVIOUS
<1>1. CASE PushObservation \/ UNCHANGED vars
  BY <1>1 DEF PushObservation, vars, filterVars, VarianceGrows
<1>2. CASE ProcessLivo
  <2>1. PICK stamp \in 0 .. MaxStamp : NoMatch(stamp) \/ Matches(stamp)
    BY <1>2 DEF ProcessLivo
  <2>2. variance' \in Nat
    BY <2>1, FilterType
  <2>3. CASE variance' = Prior(stamp).variance /\ coasted' = Prior(stamp).coasted
    BY <2>3, PriorVariance DEF VarianceGrows
  <2>4. CASE coasted' = 0
    <3>1. ProcessVariance * 0 = 0
      BY EsikfAssumption
    <3> QED
      BY <2>2, <2>4, <3>1 DEF VarianceGrows
  <2> QED
    BY <2>1, <2>3, <2>4 DEF NoMatch, Matches, InitializeFromRtk, UpdatePosition, RefuseObservation
<1> QED
  BY <1>1, <1>2 DEF Next

RefusalJustified ==
  Len(matched') > Len(matched) /\ ~matched'[Len(matched')].used =>
    LET innovation == Antenna(matched'[Len(matched')].obs) - LeverArm - global_pose'
    IN  innovation * innovation > NisGate * (ProcessVariance * coasted' + RtkVariance)

LEMMA RefusalStep == TypeOK /\ QueueSorted /\ VarianceGrows /\ [Next]_vars => [RefusalJustified]_vars
<1> SUFFICES ASSUME TypeOK, QueueSorted, VarianceGrows, Next,
                    Len(matched') > Len(matched), ~matched'[Len(matched')].used
             PROVE  RefusalJustified
  BY DEF RefusalJustified
<1>1. Len(matched) \in Nat
  BY DEF TypeOK
<1>2. matched' # matched
  BY <1>1
<1>3. ~ PushObservation
  BY <1>2 DEF PushObservation, filterVars
<1>4. PICK stamp \in 0 .. MaxStamp : NoMatch(stamp) \/ Matches(stamp)
  BY <1>3 DEF Next, ProcessLivo
<1>5. PICK obs \in RtkStamps : \/ InitializeFromRtk(stamp, obs)
                              \/ UpdatePosition(stamp, obs)
                              \/ RefuseObservation(stamp, obs)
  <2>1. ~ NoMatch(stamp)
    BY <1>2 DEF NoMatch
  <2> QED
    BY <1>4, <2>1, FrameCases
<1>6. RefuseObservation(stamp, obs) /\ matched'[Len(matched')].obs = obs
  BY <1>5, MatchRecorded
<1> DEFINE x == Prior(stamp).pose
           v == Prior(stamp).variance
           w == ProcessVariance * Prior(stamp).coasted
           a == Antenna(obs)
           i == a - (x + LeverArm)
<1>7. /\ global_pose' = x /\ coasted' = Prior(stamp).coasted
      /\ ~ (i * i <= NisGate * (v + RtkVariance))
  BY <1>6 DEF RefuseObservation, InGate, Innovation
<1>8. /\ x \in Int /\ v \in Nat /\ a \in Int /\ LeverArm \in Int /\ v >= w /\ w \in Nat
      /\ NisGate \in Nat /\ RtkVariance \in Nat
  <2>1. x \in Int /\ v \in Nat /\ Prior(stamp).coasted \in Nat
    BY PriorType
  <2>2. w \in Nat
    BY <2>1, EsikfAssumption
  <2>3. v >= w
    BY PriorVariance
  <2>4. obs \in 0 .. MaxStamp /\ track[obs] \in Int
    BY EsikfAssumption, TrackType
  <2>5. a \in Int
    BY <2>4, EsikfAssumption DEF Antenna
  <2> QED
    BY <2>1, <2>2, <2>3, <2>5, EsikfAssumption
<1> HIDE DEF x, v, w, a
<1>9. NisGate * (w + RtkVariance) <= NisGate * (v + RtkVariance)
  <2>1. w + RtkVariance <= v + RtkVariance /\ w + RtkVariance \in Int /\ v + RtkVariance \in Int
    BY <1>8
  <2> QED
    BY <1>8, <2>1, ProductMonotone
<1> DEFINE m == NisGate * (w + RtkVariance)
           n == NisGate * (v + RtkVariance)
           s == i * i
<1>10. m \in Int /\ n \in Int /\ s \in Int /\ i = a - LeverArm - x
  BY <1>8
<1>11. m <= n /\ ~ (s <= n)
  BY <1>7, <1>9
<1> HIDE DEF m, n, s, i
<1>12. s > m
  BY <1>10, <1>11
<1>13. (a - LeverArm - x) * (a - LeverArm - x) > NisGate * (w + RtkVariance)
  BY <1>10, <1>12 DEF s, m
<1> QED
  BY <1>6, <1>7, <1>13, Zenon DEF RefusalJustified, a, w

(* kalmanUpdate refuses an observation only while its innovation is too    *)
(* large for the process noise accumulated since the last update: with     *)
(* time every observation gets through the gate again.                     *)
THEOREM RefusalsJustified == Spec => GateReopens
<1>1. Init => VarianceGrows
  <2> SUFFICES ASSUME Init PROVE VarianceGrows
    OBVIOUS
  <2>1. ProcessVariance * 0 = 0 /\ InitialVariance >= 0
    BY EsikfAssumption
  <2> QED
    BY <2>1 DEF Init, VarianceGrows
<1>2. [RefusalJustified]_vars =>
        [Len(matched') > Len(matched) /\ ~matched'[Len(matched')].used =>
           LET innovation == Antenna(matched'[Len(matched')].obs) - LeverArm - global_pose'
           IN  innovation * innovation > NisGate * (ProcessVariance * coasted' + RtkVariance)]_vars
  BY DEF RefusalJustified
<1> QED
  BY <1>1, <1>2, VarianceStep, RefusalStep, FilterTypeCorrect, SortedInvariant, PTL
  DEF Spec, GateReopens

=============================================================================
