--------------------------- MODULE BackendProofs ----------------------------
(***************************************************************************)
(* Invariants of the graph back end for every value of its constants, and  *)
(* the refinement of the bounded channel.                                  *)
(***************************************************************************)
EXTENDS Backend, RtkTimeQueueProofs

(***************************************************************************)
(* Facts about the data                                                    *)
(***************************************************************************)
LEMMA KeyframeType ==
  /\ NoKeyframe \in Keyframe
  /\ \A stamp \in 1 .. MaxStamp, pose \in Poses : [stamp |-> stamp, pose |-> pose] \in Keyframe
  /\ \A kf \in Keyframe : kf.stamp \in 0 .. MaxStamp /\ kf.pose \in Poses \cup {0}
BY BackendAssumption DEF NoKeyframe, Keyframe

(* Replacing the head of a sequence by a new last element.                 *)
LEMMA AppendToTail ==
  ASSUME NEW S, NEW q \in Seq(S), q # <<>>, NEW e \in S
  PROVE  /\ Append(Tail(q), e) \in Seq(S)
         /\ Len(Append(Tail(q), e)) = Len(q)
         /\ \A i \in 1 .. Len(q) :
              Append(Tail(q), e)[i] = IF i < Len(q) THEN q[i + 1] ELSE e
<1> DEFINE t == Tail(q)
<1>1. /\ t \in Seq(S) /\ Len(t) = Len(q) - 1
      /\ \A i \in 1 .. Len(t) : t[i] = q[i + 1]
  BY HeadTailProperties
<1>2. Len(q) \in Nat \ {0}
  BY EmptySeq
<1> HIDE DEF t
<1>3. /\ Append(t, e) \in Seq(S) /\ Len(Append(t, e)) = Len(t) + 1
      /\ \A i \in 1 .. Len(t) : Append(t, e)[i] = t[i]
      /\ Append(t, e)[Len(t) + 1] = e
  BY <1>1
<1>4. Len(t) + 1 = Len(q) /\ 1 .. Len(t) = {i \in 1 .. Len(q) : i < Len(q)}
  BY <1>1, <1>2
<1>5. \A i \in 1 .. Len(q) : i < Len(q) \/ i = Len(q)
  BY <1>2
<1>6. \A i \in 1 .. Len(q) : Append(t, e)[i] = IF i < Len(q) THEN q[i + 1] ELSE e
  BY <1>1, <1>2, <1>3, <1>4, <1>5
<1> QED
  BY <1>3, <1>4, <1>6 DEF t

(* What Push leaves in the queue: the frame at the end, and before it the  *)
(* old queue, without its oldest frame if it was full.                     *)
LEMMA PushProperties ==
  ASSUME keyframe_queue \in Seq(Keyframe), Len(keyframe_queue) <= MaxPending,
         evicted \subseteq Keyframe, NEW kf \in Keyframe, Push(kf)
  PROVE  /\ keyframe_queue' \in Seq(Keyframe)
         /\ Len(keyframe_queue') \in 1 .. MaxPending
         /\ keyframe_queue'[Len(keyframe_queue')] = kf
         /\ \A i \in 1 .. Len(keyframe_queue') - 1 :
              IF Len(keyframe_queue) >= MaxPending
                THEN i + 1 \in DOMAIN keyframe_queue
                     /\ keyframe_queue'[i] = keyframe_queue[i + 1]
                ELSE i \in DOMAIN keyframe_queue /\ keyframe_queue'[i] = keyframe_queue[i]
         /\ evicted' \subseteq Keyframe
<1> DEFINE q == keyframe_queue
<1>1. CASE Len(q) >= MaxPending
  <2>1. q # <<>>
    BY <1>1, BackendAssumption
  <2>2. Head(q) \in Keyframe
    BY <2>1, HeadTailProperties
  <2>3. q' = Append(Tail(q), kf) /\ evicted' = evicted \cup {Head(q)}
    BY <1>1 DEF Push
  <2>4. /\ q' \in Seq(Keyframe) /\ Len(q') = Len(q)
        /\ \A i \in 1 .. Len(q) : q'[i] = IF i < Len(q) THEN q[i + 1] ELSE kf
    BY <2>1, <2>3, AppendToTail
  <2>5. Len(q) \in 1 .. MaxPending
    BY <1>1, BackendAssumption
  <2>6. Len(q') \in 1 .. MaxPending /\ q'[Len(q')] = kf
    BY <2>4, <2>5
  <2>7. \A i \in 1 .. Len(q') - 1 : i + 1 \in DOMAIN q /\ q'[i] = q[i + 1]
    BY <2>4, <2>5
  <2>8. evicted' \subseteq Keyframe
    BY <2>2, <2>3
  <2> QED
    BY <1>1, <2>4, <2>6, <2>7, <2>8
<1>2. CASE ~ (Len(q) >= MaxPending)
  <2>1. q' = Append(q, kf) /\ evicted' = evicted
    BY <1>2 DEF Push
  <2>2. /\ q' \in Seq(Keyframe) /\ Len(q') = Len(q) + 1
        /\ \A i \in 1 .. Len(q) : q'[i] = q[i]
        /\ q'[Len(q) + 1] = kf
    BY <2>1
  <2>3. Len(q) \in Nat /\ Len(q) + 1 \in 1 .. MaxPending
    BY <1>2, BackendAssumption
  <2> HIDE DEF q
  <2> QED
    BY <1>2, <2>1, <2>2, <2>3 DEF q
<1> QED
  BY <1>1, <1>2

(***************************************************************************)
(* Type correctness, one group of variables at a time                      *)
(***************************************************************************)
LEMMA InitTypeOK == Init => TypeOK
<1> SUFFICES ASSUME Init PROVE TypeOK
  OBVIOUS
<1>1. ThreadsOK
  BY DEF Init, ThreadsOK
<1>2. QueuesOK
  BY KeyframeType, BackendAssumption DEF Init, QueuesOK
<1>3. RtkOK
  BY BackendAssumption DEF Init, RtkOK
<1>4. GraphOK
  BY DEF Init, GraphOK
<1>5. OutputsOK
  <2>1. correction_smoothing_alpha \in 1 .. Unit
    BY BackendAssumption DEF Init, ClampSmoothing, Unit
  <2>2. correction_initialized \in BOOLEAN
    <3>1. correction_initialized = FALSE
      BY DEF Init
    <3> QED
      BY <3>1, Zenon
  <2>5. correction_target \in Int /\ smoothed \in Int
    <3>1. correction_target = 0 /\ smoothed = 0
      BY DEF Init
    <3> QED
      BY <3>1
  <2>6. targets \subseteq Corrections
    BY DEF Init
  <2>3. published \in [correction : Int, targeted : BOOLEAN]
    <3>1. published = [correction |-> 0, targeted |-> FALSE]
      BY DEF Init
    <3> QED
      BY <3>1
  <2>4. map \in [stamps : Seq(0 .. MaxStamp), georeferenced : BOOLEAN]
    <3>1. map = [stamps |-> <<>>, georeferenced |-> FALSE]
      BY DEF Init
    <3> QED
      BY <3>1
  <2> QED
    BY <2>1, <2>2, <2>3, <2>4, <2>5, <2>6, Zenon DEF OutputsOK
<1> QED
  BY <1>1, <1>2, <1>3, <1>4, <1>5 DEF TypeOK

(* One step of the system, whoever takes it.                               *)
Step ==
  \/ SyncedCallback \/ AcceptRtk \/ LocalOdometryCallback
  \/ RequestSave \/ NotifySave \/ RequestStop \/ NotifyStop \/ Join \/ FinalReconstruct
  \/ EvaluatePredicate \/ Block \/ SpuriousWakeup \/ TakeKeyframe \/ TakeNothing
  \/ RejectKeyframe \/ FindNearestRtk \/ CommitKeyframe \/ UpdateGlobalCorrection
  \/ ExchangeSave \/ RebuildMap
  \/ UNCHANGED vars

LEMMA NextIsStep == [Next]_vars => Step
BY DEF Next, Callback, MainContinues, WorkerSteps, Terminated, Step

(* A synchronised frame is skipped or queued.                              *)
LEMMA SyncedCases ==
  ASSUME SyncedCallback
  PROVE  \E kf \in Keyframe :
           /\ kf.stamp \in 1 .. MaxStamp
           /\ EnqueueSynced(kf) \/ \E dense \in BOOLEAN : SkipSynced(kf, dense)
<1>1. PICK stamp \in 1 .. MaxStamp, pose \in Poses :
        LET kf == [stamp |-> stamp, pose |-> pose]
        IN  EnqueueSynced(kf) \/ \E dense \in BOOLEAN : SkipSynced(kf, dense)
  BY DEF SyncedCallback
<1> DEFINE kf == [stamp |-> stamp, pose |-> pose]
<1>2. kf \in Keyframe /\ kf.stamp \in 1 .. MaxStamp
  BY KeyframeType
<1>3. EnqueueSynced(kf) \/ \E dense \in BOOLEAN : SkipSynced(kf, dense)
  BY <1>1
<1> HIDE DEF kf
<1> QED
  BY <1>2, <1>3

LEMMA ThreadsStep == ThreadsOK /\ Step => ThreadsOK'
<1> SUFFICES ASSUME ThreadsOK, Step PROVE ThreadsOK'
  OBVIOUS
<1> USE DEF ThreadsOK
<1>1. CASE SyncedCallback
  <2>1. PICK kf \in Keyframe :
          EnqueueSynced(kf) \/ \E dense \in BOOLEAN : SkipSynced(kf, dense)
    BY <1>1, SyncedCases
  <2> QED
    BY <2>1 DEF EnqueueSynced, SkipSynced, Notified, threadVars
<1>2. CASE AcceptRtk \/ LocalOdometryCallback \/ UNCHANGED vars
  BY <1>2 DEF AcceptRtk, LocalOdometryCallback, vars, threadVars
<1>3. CASE RequestSave \/ NotifySave \/ RequestStop \/ NotifyStop \/ Join \/ FinalReconstruct
  BY <1>3 DEF RequestSave, NotifySave, RequestStop, NotifyStop, Join, FinalReconstruct, Notified
<1>4. CASE EvaluatePredicate \/ Block \/ SpuriousWakeup \/ TakeKeyframe \/ TakeNothing
  BY <1>4 DEF EvaluatePredicate, Block, SpuriousWakeup, TakeKeyframe, TakeNothing
<1>5. CASE RejectKeyframe \/ FindNearestRtk \/ CommitKeyframe \/ UpdateGlobalCorrection
           \/ ExchangeSave \/ RebuildMap
  BY <1>5 DEF RejectKeyframe, FindNearestRtk, CommitKeyframe, UpdateGlobalCorrection,
              ExchangeSave, RebuildMap
<1> QED
  BY <1>1, <1>2, <1>3, <1>4, <1>5 DEF Step

LEMMA QueuesStep == QueuesOK /\ Step => QueuesOK'
<1> SUFFICES ASSUME QueuesOK, Step PROVE QueuesOK'
  OBVIOUS
<1>1. CASE SyncedCallback
  <2>1. PICK kf \in Keyframe :
          /\ kf.stamp \in 1 .. MaxStamp
          /\ EnqueueSynced(kf) \/ \E dense \in BOOLEAN : SkipSynced(kf, dense)
    BY <1>1, SyncedCases
  <2>2. CASE EnqueueSynced(kf)
    <3>1. Push(kf) /\ UNCHANGED <<input, taken>> /\ synced_stamp' = kf.stamp
          /\ last_enqueued' = <<kf>>
      BY <2>2 DEF EnqueueSynced
    <3>2. /\ keyframe_queue' \in Seq(Keyframe) /\ evicted' \subseteq Keyframe
          /\ Len(keyframe_queue') \in 1 .. MaxPending
      BY <3>1, PushProperties DEF QueuesOK
    <3>3. <<kf>> \in Seq(Keyframe) /\ Len(<<kf>>) <= 1
      OBVIOUS
    <3>4. synced_stamp' \in 0 .. MaxStamp /\ Len(keyframe_queue') <= MaxPending
      BY <2>1, <3>1, <3>2, BackendAssumption
    <3> QED
      BY <3>1, <3>2, <3>3, <3>4 DEF QueuesOK
  <2>3. CASE \E dense \in BOOLEAN : SkipSynced(kf, dense)
    BY <2>1, <2>3, BackendAssumption DEF SkipSynced, QueuesOK
  <2> QED
    BY <2>1, <2>2, <2>3
<1>2. CASE TakeKeyframe
  <2>1. keyframe_queue \in Seq(Keyframe) /\ keyframe_queue # <<>>
    BY <1>2 DEF QueuesOK, TakeKeyframe
  <2>2. /\ Head(keyframe_queue) \in Keyframe
        /\ Tail(keyframe_queue) \in Seq(Keyframe)
        /\ Len(Tail(keyframe_queue)) <= Len(keyframe_queue)
    BY <2>1, HeadTailProperties
  <2>3. Append(taken, Head(keyframe_queue)) \in Seq(Keyframe)
    BY <2>2 DEF QueuesOK
  <2>4. Len(Tail(keyframe_queue)) <= MaxPending
    BY <2>1, <2>2, BackendAssumption DEF QueuesOK
  <2> QED
    BY <1>2, <2>2, <2>3, <2>4 DEF QueuesOK, TakeKeyframe
<1>3. CASE RejectKeyframe \/ CommitKeyframe
  BY <1>3, KeyframeType DEF RejectKeyframe, CommitKeyframe, QueuesOK
<1>4. CASE AcceptRtk \/ LocalOdometryCallback \/ UNCHANGED vars
           \/ RequestSave \/ NotifySave \/ RequestStop \/ NotifyStop \/ Join \/ FinalReconstruct
           \/ EvaluatePredicate \/ Block \/ SpuriousWakeup \/ TakeNothing
           \/ FindNearestRtk \/ UpdateGlobalCorrection \/ ExchangeSave \/ RebuildMap
  <2>1. UNCHANGED queueVars
    BY <1>4 DEF AcceptRtk, LocalOdometryCallback, vars, RequestSave, NotifySave, RequestStop,
         NotifyStop, Join, FinalReconstruct, EvaluatePredicate, Block, SpuriousWakeup,
         TakeNothing, FindNearestRtk, UpdateGlobalCorrection, ExchangeSave, RebuildMap
  <2> QED
    BY <2>1 DEF queueVars, QueuesOK
<1> QED
  BY <1>1, <1>2, <1>3, <1>4 DEF Step

(* The search drops a prefix of the RTK queue.  If it finds a match, it is *)
(* the last observation dropped and lies within the tolerance.             *)
LEMMA FindNearestRtkDrops ==
  ASSUME RtkOK, FindNearestRtk
  PROVE  \E k \in 0 .. Len(rtk_queue) :
           /\ rtk_queue' = DropFront(rtk_queue, k)
           /\ \/ match' = 0
              \/ /\ k \in DOMAIN rtk_queue
                 /\ match' = rtk_queue[k]
                 /\ ~ (Distance(match', input.stamp) > RtkTolerance)
<1> DEFINE fresh == Expire(rtk_queue, input.stamp - RtkHorizon)
<1>1. rtk_queue \in Seq(RtkStamps)
  BY DEF RtkOK
<1>2. PICK k \in 0 .. Len(rtk_queue) : fresh = DropFront(rtk_queue, k)
  BY <1>1, ExpireIsDropFront
<1>3. /\ fresh \in Seq(RtkStamps) /\ Len(fresh) = Len(rtk_queue) - k
      /\ \A i \in 1 .. Len(rtk_queue) - k : fresh[i] = rtk_queue[k + i]
  BY <1>1, <1>2, DropFrontProperties
<1>4. \/ fresh = <<>> /\ match' = 0 /\ rtk_queue' = fresh
      \/ \E best \in DOMAIN fresh : MatchRtk(fresh, best)
  BY DEF FindNearestRtk
<1> HIDE DEF fresh
<1>5. CASE match' = 0 /\ rtk_queue' = fresh
  BY <1>2, <1>5
<1>6. ASSUME NEW best \in DOMAIN fresh, MatchRtk(fresh, best),
             ~ (Distance(fresh[best], input.stamp) > RtkTolerance)
      PROVE  \E j \in 0 .. Len(rtk_queue) :
               /\ rtk_queue' = DropFront(rtk_queue, j)
               /\ j \in DOMAIN rtk_queue
               /\ match' = rtk_queue[j]
               /\ ~ (Distance(match', input.stamp) > RtkTolerance)
  <2>1. match' = fresh[best] /\ rtk_queue' = DropFront(fresh, best)
    BY <1>6 DEF MatchRtk, EraseThrough
  <2>2. best \in 0 .. Len(rtk_queue) - k /\ best \in 1 .. Len(rtk_queue) - k
    BY <1>3, <1>6
  <2>3. DropFront(fresh, best) = DropFront(rtk_queue, k + best)
    BY <1>1, <1>2, <2>2, DropFrontTwice
  <2>4. fresh[best] = rtk_queue[k + best]
    BY <1>3, <2>2
  <2>5. k + best \in 0 .. Len(rtk_queue) /\ k + best \in DOMAIN rtk_queue
    BY <1>1, <2>2
  <2> QED
    BY <1>6, <2>1, <2>3, <2>4, <2>5
<1>7. ASSUME NEW best \in DOMAIN fresh, MatchRtk(fresh, best),
             Distance(fresh[best], input.stamp) > RtkTolerance
      PROVE  match' = 0 /\ rtk_queue' = fresh
  BY <1>7 DEF MatchRtk
<1> QED
  BY <1>4, <1>5, <1>6, <1>7

LEMMA RtkStep == RtkOK /\ Step => RtkOK'
<1> SUFFICES ASSUME RtkOK, Step PROVE RtkOK'
  OBVIOUS
<1>1. CASE AcceptRtk
  <2>1. PICK stamp \in RtkStamps \ rtk_seen :
          /\ rtk_queue' = PushRtk(rtk_queue, stamp, MaxRtk)
          /\ rtk_seen' = rtk_seen \cup {stamp}
    BY <1>1 DEF AcceptRtk
  <2>2. /\ RtkStamps \in SUBSET Nat /\ MaxRtk \in Nat /\ stamp \in RtkStamps
        /\ rtk_queue \in Seq(RtkStamps) /\ Len(rtk_queue) <= MaxRtk
    BY BackendAssumption DEF RtkOK
  <2>3. PushRtk(rtk_queue, stamp, MaxRtk) \in Seq(RtkStamps)
        /\ Len(PushRtk(rtk_queue, stamp, MaxRtk)) <= MaxRtk
    BY <2>2, PushRtkProperties
  <2> QED
    BY <1>1, <2>1, <2>3 DEF RtkOK, AcceptRtk
<1>2. CASE FindNearestRtk
  <2>1. PICK k \in 0 .. Len(rtk_queue) :
           /\ rtk_queue' = DropFront(rtk_queue, k)
           /\ match' = 0 \/ (k \in DOMAIN rtk_queue /\ match' = rtk_queue[k])
    BY <1>2, FindNearestRtkDrops
  <2>2. rtk_queue' \in Seq(RtkStamps) /\ Len(rtk_queue') = Len(rtk_queue) - k
    BY <2>1, DropFrontProperties DEF RtkOK
  <2>3. Len(rtk_queue') <= MaxRtk /\ match' \in RtkStamps \cup {0}
    BY <2>1, <2>2, BackendAssumption DEF RtkOK
  <2> QED
    BY <1>2, <2>2, <2>3 DEF FindNearestRtk, RtkOK
<1>3. CASE CommitKeyframe
  BY <1>3 DEF CommitKeyframe, RtkOK
<1>4. CASE SyncedCallback
  BY <1>4, SyncedCases DEF EnqueueSynced, SkipSynced, rtkVars, RtkOK
<1>5. CASE LocalOdometryCallback \/ UNCHANGED vars
           \/ RequestSave \/ NotifySave \/ RequestStop \/ NotifyStop \/ Join \/ FinalReconstruct
           \/ EvaluatePredicate \/ Block \/ SpuriousWakeup \/ TakeKeyframe \/ TakeNothing
           \/ RejectKeyframe \/ UpdateGlobalCorrection \/ ExchangeSave \/ RebuildMap
  <2>1. UNCHANGED rtkVars
    BY <1>5 DEF LocalOdometryCallback, vars, RequestSave, NotifySave, RequestStop,
         NotifyStop, Join, FinalReconstruct, EvaluatePredicate, Block, SpuriousWakeup,
         TakeKeyframe, TakeNothing, RejectKeyframe, UpdateGlobalCorrection, ExchangeSave, RebuildMap
  <2> QED
    BY <2>1 DEF rtkVars, RtkOK
<1> QED
  BY <1>1, <1>2, <1>3, <1>4, <1>5 DEF Step

(* A commit appends one node made of the input and its match.              *)
LEMMA CommitAppends ==
  ASSUME QueuesOK, RtkOK, GraphOK, CommitKeyframe
  PROVE  /\ nodes' \in Seq(Node) /\ Len(nodes') = Len(nodes) + 1
         /\ \A i \in 1 .. Len(nodes) : nodes'[i] = nodes[i]
         /\ nodes'[Len(nodes) + 1] =
              [stamp |-> input.stamp, pose |-> input.pose, rtk |-> match]
<1> DEFINE node == [stamp |-> input.stamp, pose |-> input.pose, rtk |-> match]
<1>1. node \in Node
  BY KeyframeType DEF QueuesOK, RtkOK, Node
<1>2. nodes' = Append(nodes, node)
  BY DEF CommitKeyframe
<1>3. nodes \in Seq(Node)
  BY DEF GraphOK
<1> HIDE DEF node
<1>4. /\ Append(nodes, node) \in Seq(Node) /\ Len(Append(nodes, node)) = Len(nodes) + 1
      /\ \A i \in 1 .. Len(nodes) : Append(nodes, node)[i] = nodes[i]
      /\ Append(nodes, node)[Len(nodes) + 1] = node
  BY <1>1, <1>3
<1> QED
  BY <1>2, <1>4 DEF node

LEMMA GraphStep == QueuesOK /\ RtkOK /\ GraphOK /\ Step => GraphOK'
<1> SUFFICES ASSUME QueuesOK, RtkOK, GraphOK, Step PROVE GraphOK'
  OBVIOUS
<1>1. CASE CommitKeyframe
  <2>1. nodes' \in Seq(Node) /\ Len(nodes) \in Nat
    BY <1>1, CommitAppends DEF GraphOK
  <2>2. velocity_edges' \subseteq Nat
    BY <1>1, <2>1 DEF CommitKeyframe, GraphOK
  <2>3. LoopCandidates(Len(nodes)) \subseteq Nat
    BY <2>1, BackendAssumption DEF LoopCandidates
  <2>4. loop_edges' \subseteq Nat \X Nat
    BY <1>1, <2>1, <2>3 DEF CommitKeyframe, GraphOK
  <2> QED
    BY <1>1, <2>1, <2>2, <2>4 DEF CommitKeyframe, GraphOK
<1>2. CASE RejectKeyframe
  BY <1>2, KeyframeType DEF RejectKeyframe, GraphOK, QueuesOK
<1>3. CASE SyncedCallback
  BY <1>3, SyncedCases DEF EnqueueSynced, SkipSynced, graphVars, GraphOK
<1>4. CASE AcceptRtk \/ LocalOdometryCallback \/ UNCHANGED vars
           \/ RequestSave \/ NotifySave \/ RequestStop \/ NotifyStop \/ Join \/ FinalReconstruct
           \/ EvaluatePredicate \/ Block \/ SpuriousWakeup \/ TakeKeyframe \/ TakeNothing
           \/ FindNearestRtk \/ UpdateGlobalCorrection \/ ExchangeSave \/ RebuildMap
  <2>1. UNCHANGED graphVars
    BY <1>4 DEF AcceptRtk, LocalOdometryCallback, vars, RequestSave, NotifySave, RequestStop,
         NotifyStop, Join, FinalReconstruct, EvaluatePredicate, Block, SpuriousWakeup,
         TakeKeyframe, TakeNothing, FindNearestRtk, UpdateGlobalCorrection, ExchangeSave,
         RebuildMap
  <2> QED
    BY <2>1 DEF graphVars, GraphOK
<1> QED
  BY <1>1, <1>2, <1>3, <1>4 DEF Step

(* The map written holds one stamp per node.                               *)
LEMMA ReconstructedMap ==
  ASSUME GraphOK, OutputsOK, ReconstructFinalMap
  PROVE  map' \in [stamps : Seq(0 .. MaxStamp), georeferenced : BOOLEAN]
<1>1. CASE nodes = <<>>
  BY <1>1 DEF ReconstructFinalMap, OutputsOK
<1>2. CASE nodes # <<>>
  <2> DEFINE stamps == [i \in DOMAIN nodes |-> nodes[i].stamp]
  <2>1. DOMAIN nodes = 1 .. Len(nodes) /\ Len(nodes) \in Nat
    BY DEF GraphOK
  <2>2. \A i \in 1 .. Len(nodes) : nodes[i].stamp \in 0 .. MaxStamp
    <3>1. \A i \in 1 .. Len(nodes) : nodes[i] \in Node
      BY DEF GraphOK
    <3> QED
      BY <3>1 DEF Node
  <2>3. stamps \in Seq(0 .. MaxStamp)
    BY <2>1, <2>2
  <2>4. map' = [stamps |-> stamps, georeferenced |-> rtk_seen # {}]
    BY <1>2 DEF ReconstructFinalMap
  <2> HIDE DEF stamps
  <2> QED
    BY <2>3, <2>4
<1> QED
  BY <1>1, <1>2

LEMMA OutputsStep == GraphOK /\ OutputsOK /\ Step => OutputsOK'
<1> SUFFICES ASSUME GraphOK, OutputsOK, Step PROVE OutputsOK'
  OBVIOUS
<1>1. CASE FinalReconstruct \/ RebuildMap
  BY <1>1, ReconstructedMap DEF FinalReconstruct, RebuildMap, OutputsOK, correctionVars
<1>2. CASE LocalOdometryCallback
  <2>1. SmoothCorrectionStep \in Int
    <3>1. \A x, y \in Int : x * y \in Int
      OBVIOUS
    <3>2. correction_smoothing_alpha * (correction_target - smoothed) \in Int
      BY <3>1 DEF OutputsOK, Unit
    <3> QED
      BY <3>2 DEF SmoothCorrectionStep, OutputsOK, Unit
  <2>2. /\ smoothed' \in Int
        /\ published' = [correction |-> IF correction_initialized THEN smoothed' ELSE 0,
                         targeted |-> correction_initialized]
        /\ UNCHANGED <<correction_smoothing_alpha, correction_initialized,
                       correction_target, targets, map>>
    BY <1>2, <2>1 DEF LocalOdometryCallback, OutputsOK
  <2> HIDE DEF Unit
  <2> QED
    BY <2>2 DEF OutputsOK
<1>3. CASE UpdateGlobalCorrection
  BY <1>3, BackendAssumption DEF UpdateGlobalCorrection, OutputsOK
<1>4. CASE SyncedCallback
  BY <1>4, SyncedCases DEF EnqueueSynced, SkipSynced, outputVars, correctionVars, OutputsOK
<1>5. CASE AcceptRtk \/ UNCHANGED vars
           \/ RequestSave \/ NotifySave \/ RequestStop \/ NotifyStop \/ Join
           \/ EvaluatePredicate \/ Block \/ SpuriousWakeup \/ TakeKeyframe \/ TakeNothing
           \/ RejectKeyframe \/ FindNearestRtk \/ CommitKeyframe \/ ExchangeSave
  <2>1. UNCHANGED outputVars
    BY <1>5 DEF AcceptRtk, vars, RequestSave, NotifySave, RequestStop, NotifyStop, Join,
         EvaluatePredicate, Block, SpuriousWakeup, TakeKeyframe, TakeNothing,
         RejectKeyframe, FindNearestRtk, CommitKeyframe, ExchangeSave
  <2> QED
    BY <2>1 DEF outputVars, correctionVars, OutputsOK
<1> QED
  BY <1>1, <1>2, <1>3, <1>4, <1>5 DEF Step

LEMMA TypeStep == TypeOK /\ Step => TypeOK'
BY ThreadsStep, QueuesStep, RtkStep, GraphStep, OutputsStep DEF TypeOK

(* Every variable keeps its type and both queues keep their bound, whoever *)
(* steps: syncedCallback, gpsHandler, processKeyframe or the destructor.   *)
THEOREM TypeCorrect == SafeSpec => []TypeOK
<1>1. Init => TypeOK
  BY InitTypeOK
<1>2. TypeOK /\ [Next]_vars => TypeOK'
  BY NextIsStep, TypeStep
<1> QED
  BY <1>1, <1>2, PTL DEF SafeSpec

(***************************************************************************)
(* Keyframes reach the graph in the order of their time                    *)
(***************************************************************************)

(* No keyframe in flight is later than the last pair synchronised: what    *)
(* makes GraphInTimeOrder inductive.                                       *)
UpToSynced ==
  /\ \A i \in DOMAIN nodes : nodes[i].stamp <= synced_stamp
  /\ \A k \in DOMAIN keyframe_queue : keyframe_queue[k].stamp <= synced_stamp
  /\ Holding => input.stamp <= synced_stamp

OrderInv == UpToSynced /\ GraphInTimeOrder

LEMMA StampTypes ==
  ASSUME TypeOK
  PROVE  /\ \A i \in DOMAIN nodes : nodes[i].stamp \in Nat
         /\ \A k \in DOMAIN keyframe_queue : keyframe_queue[k].stamp \in Nat
         /\ input.stamp \in Nat /\ synced_stamp \in Nat
         /\ DOMAIN nodes = 1 .. Len(nodes) /\ Len(nodes) \in Nat
         /\ DOMAIN keyframe_queue = 1 .. Len(keyframe_queue) /\ Len(keyframe_queue) \in Nat
<1>1. 0 .. MaxStamp \subseteq Nat
  BY BackendAssumption
<1>2. /\ \A i \in DOMAIN nodes : nodes[i] \in Node
      /\ \A k \in DOMAIN keyframe_queue : keyframe_queue[k] \in Keyframe
      /\ DOMAIN nodes = 1 .. Len(nodes) /\ Len(nodes) \in Nat
      /\ DOMAIN keyframe_queue = 1 .. Len(keyframe_queue) /\ Len(keyframe_queue) \in Nat
  BY DEF TypeOK, GraphOK, QueuesOK
<1>3. \A node \in Node : node.stamp \in Nat
  BY <1>1 DEF Node
<1>4. input.stamp \in Nat /\ synced_stamp \in Nat
  BY <1>1, KeyframeType DEF TypeOK, QueuesOK
<1> QED
  BY <1>1, <1>2, <1>3, <1>4, KeyframeType

LEMMA OrderEnqueue ==
  ASSUME TypeOK, OrderInv, NEW kf \in Keyframe, EnqueueSynced(kf)
  PROVE  OrderInv'
<1> DEFINE q == keyframe_queue
<1>1. /\ kf.stamp > synced_stamp /\ synced_stamp' = kf.stamp
      /\ Push(kf) /\ UNCHANGED <<nodes, input>> /\ Holding' = Holding
  BY DEF EnqueueSynced, graphVars, Holding, Notified
<1>2. /\ q' \in Seq(Keyframe) /\ Len(q') \in 1 .. MaxPending /\ q'[Len(q')] = kf
      /\ \A i \in 1 .. Len(q') - 1 :
           IF Len(q) >= MaxPending
             THEN i + 1 \in DOMAIN q /\ q'[i] = q[i + 1]
             ELSE i \in DOMAIN q /\ q'[i] = q[i]
  BY <1>1, PushProperties DEF TypeOK, QueuesOK
<1>3. /\ kf.stamp \in Nat /\ synced_stamp \in Nat
      /\ \A k \in DOMAIN q : q[k].stamp \in Nat
      /\ \A i \in DOMAIN nodes : nodes[i].stamp \in Nat
      /\ input.stamp \in Nat /\ Len(q) \in Nat
  BY StampTypes, KeyframeType, BackendAssumption
<1>4. DOMAIN q' = 1 .. Len(q') /\ Len(q') \in Nat
  BY <1>2
<1>5. PICK shift \in {0, 1} : \A i \in 1 .. Len(q') - 1 :
        i + shift \in DOMAIN q /\ q'[i] = q[i + shift]
  <2>1. CASE Len(q) >= MaxPending
    BY <1>2, <2>1
  <2>2. CASE ~ (Len(q) >= MaxPending)
    <3>1. \A i \in 1 .. Len(q') - 1 : i + 0 = i
      OBVIOUS
    <3> QED
      BY <1>2, <2>2, <3>1
  <2> QED
    BY <2>1, <2>2
<1>6. \A i \in DOMAIN q' : i = Len(q') \/ i \in 1 .. Len(q') - 1
  BY <1>4
<1>7. /\ \A i \in DOMAIN nodes : nodes[i].stamp < kf.stamp
      /\ \A j \in DOMAIN q : q[j].stamp < kf.stamp
      /\ Holding => input.stamp < kf.stamp
  <2>1. /\ \A i \in DOMAIN nodes : nodes[i].stamp <= synced_stamp
        /\ \A k \in DOMAIN q : q[k].stamp <= synced_stamp
        /\ Holding => input.stamp <= synced_stamp
    BY DEF OrderInv, UpToSynced
  <2> DEFINE s == kf.stamp
  <2>2. s > synced_stamp /\ s \in Nat /\ synced_stamp \in Nat
    BY <1>1, <1>3
  <2> HIDE DEF s
  <2>3. \A n \in Nat : n <= synced_stamp => n < s
    BY <2>2
  <2> QED
    BY <1>3, <2>1, <2>3, Zenon DEF s
<1>8. UpToSynced'
  <2>1. \A k \in DOMAIN q' : q'[k] = kf \/ \E j \in DOMAIN q : q'[k] = q[j]
    BY <1>2, <1>5, <1>6
  <2> DEFINE s == kf.stamp
  <2>2. \A n \in Nat : n < s => n <= s
    BY <1>3
  <2>3. s <= s
    BY <1>3
  <2> HIDE DEF s
  <2>4. \A k \in DOMAIN q' : q'[k].stamp <= s
    BY <1>3, <1>7, <2>1, <2>2, <2>3, Zenon DEF s
  <2>5. /\ \A i \in DOMAIN nodes : nodes[i].stamp <= s
        /\ Holding => input.stamp <= s
    BY <1>3, <1>7, <2>2, Zenon DEF s
  <2> QED
    BY <1>1, <2>4, <2>5, Zenon DEF UpToSynced, s
<1>9. TimeOrdered(q)'
  <2> SUFFICES ASSUME NEW i \in DOMAIN q', NEW j \in DOMAIN q', i < j
               PROVE  q'[i].stamp < q'[j].stamp
    BY DEF TimeOrdered
  <2>1. i \in 1 .. Len(q') - 1 /\ i + shift \in DOMAIN q /\ q'[i] = q[i + shift]
    BY <1>4, <1>5
  <2>2. CASE j = Len(q')
    BY <1>2, <1>7, <2>1, <2>2
  <2>3. CASE j \in 1 .. Len(q') - 1
    BY <1>5, <2>1, <2>3 DEF OrderInv, GraphInTimeOrder, TimeOrdered
  <2> QED
    BY <1>6, <2>2, <2>3
<1>10. \A k \in DOMAIN q' :
         /\ Before(nodes, q'[k].stamp)
         /\ Holding => input.stamp < q'[k].stamp
  <2> TAKE k \in DOMAIN q'
  <2>1. CASE k = Len(q')
    BY <1>2, <1>7, <2>1, Zenon DEF Before
  <2>2. CASE k \in 1 .. Len(q') - 1
    <3>1. k + shift \in DOMAIN q /\ q'[k] = q[k + shift]
      BY <1>5, <2>2
    <3> QED
      BY <3>1 DEF OrderInv, GraphInTimeOrder
  <2> QED
    BY <1>6, <2>1, <2>2
<1> QED
  BY <1>1, <1>8, <1>9, <1>10 DEF OrderInv, GraphInTimeOrder, TimeOrdered, Before

(* The oldest keyframe moves from the queue to the worker.                 *)
LEMMA OrderTake == TypeOK /\ OrderInv /\ TakeKeyframe => OrderInv'
<1> SUFFICES ASSUME TypeOK, OrderInv, TakeKeyframe PROVE OrderInv'
  OBVIOUS
<1> DEFINE q == keyframe_queue
<1>1. q \in Seq(Keyframe) /\ q # <<>>
  BY DEF TypeOK, QueuesOK, TakeKeyframe
<1>2. /\ q' \in Seq(Keyframe) /\ Len(q') = Len(q) - 1
      /\ \A k \in 1 .. Len(q') : q'[k] = q[k + 1]
      /\ input' = q[1]
  <2>1. q' = Tail(q) /\ input' = Head(q) /\ Head(q) = q[1]
    BY <1>1 DEF TakeKeyframe
  <2>2. /\ Tail(q) \in Seq(Keyframe) /\ Len(Tail(q)) = Len(q) - 1
        /\ \A k \in 1 .. Len(Tail(q)) : Tail(q)[k] = q[k + 1]
    BY <1>1, HeadTailProperties
  <2> QED
    BY <2>1, <2>2
<1>3. /\ 1 \in DOMAIN q
      /\ \A k \in DOMAIN q' : k \in Nat /\ 1 < k + 1 /\ k + 1 \in DOMAIN q /\ q'[k] = q[k + 1]
      /\ \A i, j \in DOMAIN q' : i < j => i + 1 < j + 1
  BY <1>1, <1>2
<1>4. UNCHANGED <<nodes, synced_stamp>>
  BY DEF TakeKeyframe, graphVars
<1> HIDE DEF q
<1>5. UpToSynced'
  BY <1>2, <1>3, <1>4 DEF OrderInv, UpToSynced, q
<1>6. TimeOrdered(q)'
  BY <1>3 DEF OrderInv, GraphInTimeOrder, TimeOrdered, q
<1>7. \A k \in DOMAIN q' : Before(nodes, q'[k].stamp) /\ input'.stamp < q'[k].stamp
  BY <1>2, <1>3 DEF OrderInv, GraphInTimeOrder, TimeOrdered, q
<1>8. Before(nodes, input'.stamp)
  BY <1>2, <1>3 DEF OrderInv, GraphInTimeOrder, q
<1> QED
  BY <1>4, <1>5, <1>6, <1>7, <1>8
  DEF OrderInv, GraphInTimeOrder, TimeOrdered, Before, q

(* The keyframe the worker holds becomes the last node.                    *)
LEMMA OrderCommit == TypeOK /\ OrderInv /\ CommitKeyframe => OrderInv'
<1> SUFFICES ASSUME TypeOK, OrderInv, CommitKeyframe PROVE OrderInv'
  OBVIOUS
<1>1. /\ nodes' \in Seq(Node) /\ Len(nodes') = Len(nodes) + 1
      /\ \A i \in 1 .. Len(nodes) : nodes'[i] = nodes[i]
      /\ nodes'[Len(nodes) + 1].stamp = input.stamp
  BY CommitAppends DEF TypeOK
<1>2. /\ worker = "commit" /\ worker' = "correct"
      /\ UNCHANGED <<keyframe_queue, synced_stamp>>
  BY DEF CommitKeyframe
<1>3. Len(nodes) \in Nat /\ DOMAIN nodes = 1 .. Len(nodes)
  BY StampTypes
<1>4. \A i \in DOMAIN nodes' :
        \/ i = Len(nodes) + 1 /\ nodes'[i].stamp = input.stamp
        \/ i \in DOMAIN nodes /\ nodes'[i] = nodes[i]
  BY <1>1, <1>3
<1>5. Holding /\ ~ Holding'
  BY <1>2 DEF Holding
<1>6. UpToSynced'
  BY <1>2, <1>4, <1>5 DEF OrderInv, UpToSynced
<1>7. TimeOrdered(nodes)'
  <2> SUFFICES ASSUME NEW i \in DOMAIN nodes', NEW j \in DOMAIN nodes', i < j
               PROVE  nodes'[i].stamp < nodes'[j].stamp
    BY DEF TimeOrdered
  <2>1. i \in DOMAIN nodes /\ nodes'[i] = nodes[i]
    BY <1>1, <1>3
  <2>2. CASE j = Len(nodes) + 1
    BY <1>1, <1>5, <2>1, <2>2 DEF OrderInv, GraphInTimeOrder, Before
  <2>3. CASE j \in DOMAIN nodes /\ nodes'[j] = nodes[j]
    BY <2>1, <2>3 DEF OrderInv, GraphInTimeOrder, TimeOrdered
  <2> QED
    BY <1>4, <2>2, <2>3
<1>8. \A k \in DOMAIN keyframe_queue : Before(nodes', keyframe_queue[k].stamp)
  BY <1>4, <1>5 DEF OrderInv, GraphInTimeOrder, Before
<1> QED
  BY <1>2, <1>5, <1>6, <1>7, <1>8 DEF OrderInv, GraphInTimeOrder, TimeOrdered, Before

LEMMA OrderStep == TypeOK /\ OrderInv /\ Step => OrderInv'
<1> SUFFICES ASSUME TypeOK, OrderInv, Step PROVE OrderInv'
  OBVIOUS
<1>1. CASE SyncedCallback
  <2>1. PICK kf \in Keyframe : EnqueueSynced(kf) \/ \E dense \in BOOLEAN : SkipSynced(kf, dense)
    BY <1>1, SyncedCases
  <2>2. CASE \E dense \in BOOLEAN : SkipSynced(kf, dense)
    <3>1. /\ kf.stamp > synced_stamp /\ synced_stamp' = kf.stamp
          /\ UNCHANGED <<keyframe_queue, input, nodes, worker>>
      BY <2>2 DEF SkipSynced, threadVars, graphVars
    <3>2. kf.stamp \in Nat /\ synced_stamp \in Nat
      BY StampTypes, KeyframeType, BackendAssumption
    <3>3. \A n \in Nat : n <= synced_stamp => n <= synced_stamp'
      BY <3>1, <3>2
    <3>4. UpToSynced'
      <4>1. /\ \A i \in DOMAIN nodes : nodes[i].stamp <= synced_stamp'
            /\ \A k \in DOMAIN keyframe_queue : keyframe_queue[k].stamp <= synced_stamp'
            /\ Holding => input.stamp <= synced_stamp'
        BY <3>3, StampTypes DEF OrderInv, UpToSynced
      <4> QED
        BY <3>1, <4>1 DEF UpToSynced, Holding
    <3> QED
      BY <3>1, <3>4 DEF OrderInv, GraphInTimeOrder, TimeOrdered, Before, Holding
  <2> QED
    BY <2>1, <2>2, OrderEnqueue
<1>2. CASE RejectKeyframe
  BY <1>2 DEF RejectKeyframe, OrderInv, UpToSynced, GraphInTimeOrder, TimeOrdered, Before, Holding
<1>3. CASE FindNearestRtk
  BY <1>3 DEF FindNearestRtk, queueVars, graphVars,
              OrderInv, UpToSynced, GraphInTimeOrder, TimeOrdered, Before, Holding
<1>4. CASE AcceptRtk \/ LocalOdometryCallback \/ UNCHANGED vars
           \/ RequestSave \/ NotifySave \/ RequestStop \/ NotifyStop \/ Join \/ FinalReconstruct
           \/ EvaluatePredicate \/ Block \/ SpuriousWakeup \/ TakeNothing
           \/ UpdateGlobalCorrection \/ ExchangeSave \/ RebuildMap
  <2>1. UNCHANGED <<nodes, input, keyframe_queue, synced_stamp>>
    BY <1>4 DEF AcceptRtk, LocalOdometryCallback, vars, RequestSave, NotifySave, RequestStop,
         NotifyStop, Join, FinalReconstruct, EvaluatePredicate, Block, SpuriousWakeup,
         TakeNothing, UpdateGlobalCorrection, ExchangeSave, RebuildMap, queueVars, graphVars
  <2>2. Holding' => Holding
    BY <1>4 DEF AcceptRtk, LocalOdometryCallback, vars, RequestSave, NotifySave, RequestStop,
         NotifyStop, Join, FinalReconstruct, EvaluatePredicate, Block, SpuriousWakeup,
         TakeNothing, UpdateGlobalCorrection, ExchangeSave, RebuildMap, threadVars,
         Notified, Holding
  <2> QED
    BY <2>1, <2>2 DEF OrderInv, UpToSynced, GraphInTimeOrder, TimeOrdered, Before
<1> QED
  BY <1>1, <1>2, <1>3, <1>4, OrderTake, OrderCommit DEF Step

(* Keyframes become graph nodes in strictly increasing time, however the   *)
(* callbacks, evictions from a full queue and the worker interleave.       *)
THEOREM GraphOrdered == SafeSpec => []GraphInTimeOrder
<1>1. Init => OrderInv
  BY DEF Init, OrderInv, UpToSynced, GraphInTimeOrder, TimeOrdered, Before, Holding
<1>2. TypeOK /\ OrderInv /\ [Next]_vars => OrderInv'
  BY NextIsStep, OrderStep
<1>3. OrderInv => GraphInTimeOrder
  BY DEF OrderInv
<1> QED
  BY <1>1, <1>2, <1>3, TypeCorrect, PTL DEF SafeSpec

(***************************************************************************)
(* RTK observations                                                        *)
(***************************************************************************)

(* The queue, the match and the nodes hold observations that have been     *)
(* received, and a new one has not been received before: what makes        *)
(* RtkSingleUse inductive.                                                 *)
OnlyReceived ==
  /\ Distinct(rtk_queue)
  /\ \A k \in DOMAIN rtk_queue : rtk_queue[k] \in rtk_seen
  /\ match # 0 => match \in rtk_seen
  /\ \A i \in DOMAIN nodes : nodes[i].rtk # 0 => nodes[i].rtk \in rtk_seen

(* A match waits for its commit, and lies within the tolerance then and    *)
(* for ever after.                                                         *)
MatchesAreNear ==
  /\ match # 0 => worker = "commit" /\ ~ (Distance(match, input.stamp) > RtkTolerance)
  /\ \A i \in DOMAIN nodes :
       nodes[i].rtk # 0 => ~ (Distance(nodes[i].rtk, nodes[i].stamp) > RtkTolerance)

RtkInv == OnlyReceived /\ RtkSingleUse /\ RtkQueueSorted /\ MatchesAreNear

LEMMA RtkAccept == TypeOK /\ RtkInv /\ AcceptRtk => RtkInv'
<1> SUFFICES ASSUME TypeOK, RtkInv, AcceptRtk PROVE RtkInv'
  OBVIOUS
<1>1. PICK stamp \in RtkStamps \ rtk_seen :
        /\ rtk_queue' = PushRtk(rtk_queue, stamp, MaxRtk)
        /\ rtk_seen' = rtk_seen \cup {stamp}
  BY DEF AcceptRtk
<1>2. UNCHANGED <<match, nodes, worker, input>>
  BY DEF AcceptRtk, graphVars, threadVars, queueVars
<1>3. /\ RtkStamps \in SUBSET Nat /\ MaxRtk \in Nat /\ stamp \in RtkStamps
      /\ rtk_queue \in Seq(RtkStamps) /\ Len(rtk_queue) <= MaxRtk
  BY BackendAssumption DEF TypeOK, RtkOK
<1>4. \A j \in DOMAIN rtk_queue : rtk_queue[j] # stamp
  BY DEF RtkInv, OnlyReceived
<1>5. /\ \A k \in DOMAIN rtk_queue' :
           rtk_queue'[k] = stamp \/ \E j \in DOMAIN rtk_queue : rtk_queue'[k] = rtk_queue[j]
      /\ Distinct(rtk_queue) => Distinct(rtk_queue')
      /\ Sorted(rtk_queue) => Sorted(rtk_queue')
  BY <1>1, <1>3, <1>4, PushRtkProperties
<1>6. OnlyReceived'
  BY <1>1, <1>2, <1>5 DEF RtkInv, OnlyReceived
<1>7. RtkSingleUse'
  <2>1. \A i \in DOMAIN nodes : nodes[i].rtk # 0 => nodes[i].rtk # stamp
    BY DEF RtkInv, OnlyReceived
  <2>2. match # 0 => match # stamp
    BY DEF RtkInv, OnlyReceived
  <2> QED
    BY <1>2, <1>5, <2>1, <2>2 DEF RtkInv, RtkSingleUse
<1>8. RtkQueueSorted' /\ MatchesAreNear'
  BY <1>2, <1>5 DEF RtkInv, RtkQueueSorted, MatchesAreNear
<1> QED
  BY <1>6, <1>7, <1>8 DEF RtkInv

LEMMA RtkFind == TypeOK /\ RtkInv /\ FindNearestRtk => RtkInv'
<1> SUFFICES ASSUME TypeOK, RtkInv, FindNearestRtk PROVE RtkInv'
  OBVIOUS
<1>1. PICK k \in 0 .. Len(rtk_queue) :
        /\ rtk_queue' = DropFront(rtk_queue, k)
        /\ \/ match' = 0
           \/ /\ k \in DOMAIN rtk_queue
              /\ match' = rtk_queue[k]
              /\ ~ (Distance(match', input.stamp) > RtkTolerance)
  BY FindNearestRtkDrops DEF TypeOK
<1>2. /\ UNCHANGED <<rtk_seen, nodes, input>>
      /\ worker = "process" /\ worker' = "commit"
  BY DEF FindNearestRtk, graphVars, queueVars
<1>3. rtk_queue \in Seq(Nat)
  <2>1. RtkStamps \subseteq Nat /\ rtk_queue \in Seq(RtkStamps)
    BY BackendAssumption DEF TypeOK, RtkOK
  <2> QED
    BY <2>1, SeqMonotonic, Zenon
<1>4. /\ \A i \in DOMAIN rtk_queue' : \E j \in DOMAIN rtk_queue : rtk_queue'[i] = rtk_queue[j]
      /\ \A i \in DOMAIN rtk_queue', j \in 1 .. k : rtk_queue'[i] # rtk_queue[j]
      /\ Distinct(rtk_queue') /\ Sorted(rtk_queue')
  BY <1>1, <1>3, DropFrontKeeps DEF RtkInv, OnlyReceived, RtkQueueSorted
<1>5. match' # 0 => /\ k \in DOMAIN rtk_queue /\ k \in 1 .. k
                    /\ match' = rtk_queue[k]
                    /\ ~ (Distance(match', input.stamp) > RtkTolerance)
  BY <1>1, <1>3
<1>6. OnlyReceived'
  BY <1>2, <1>4, <1>5 DEF RtkInv, OnlyReceived
<1>7. RtkSingleUse'
  BY <1>2, <1>4, <1>5 DEF RtkInv, RtkSingleUse
<1>8. MatchesAreNear'
  BY <1>2, <1>5 DEF RtkInv, MatchesAreNear
<1> QED
  BY <1>4, <1>6, <1>7, <1>8 DEF RtkInv, RtkQueueSorted

LEMMA RtkCommit == TypeOK /\ RtkInv /\ CommitKeyframe => RtkInv'
<1> SUFFICES ASSUME TypeOK, RtkInv, CommitKeyframe PROVE RtkInv'
  OBVIOUS
<1>1. /\ Len(nodes') = Len(nodes) + 1 /\ nodes' \in Seq(Node)
      /\ \A i \in 1 .. Len(nodes) : nodes'[i] = nodes[i]
      /\ nodes'[Len(nodes) + 1].stamp = input.stamp
      /\ nodes'[Len(nodes) + 1].rtk = match
  BY CommitAppends DEF TypeOK
<1>2. match' = 0 /\ UNCHANGED <<rtk_queue, rtk_seen>>
  BY DEF CommitKeyframe
<1>3. \A i \in DOMAIN nodes' :
        \/ /\ i = Len(nodes) + 1
           /\ nodes'[i].rtk = match /\ nodes'[i].stamp = input.stamp
        \/ i \in DOMAIN nodes /\ nodes'[i] = nodes[i]
  BY <1>1, StampTypes
<1>4. OnlyReceived'
  BY <1>2, <1>3 DEF RtkInv, OnlyReceived
<1>5. RtkSingleUse'
  BY <1>2, <1>3 DEF RtkInv, RtkSingleUse
<1>6. MatchesAreNear'
  BY <1>2, <1>3 DEF RtkInv, MatchesAreNear
<1> QED
  BY <1>2, <1>4, <1>5, <1>6 DEF RtkInv, RtkQueueSorted

LEMMA RtkInvStep == TypeOK /\ RtkInv /\ Step => RtkInv'
<1> SUFFICES ASSUME TypeOK, RtkInv, Step PROVE RtkInv'
  OBVIOUS
<1> USE DEF RtkInv, OnlyReceived, RtkSingleUse, RtkQueueSorted, MatchesAreNear
<1>1. CASE SyncedCallback
  <2>1. PICK kf \in Keyframe : EnqueueSynced(kf) \/ \E dense \in BOOLEAN : SkipSynced(kf, dense)
    BY <1>1, SyncedCases
  <2>2. /\ UNCHANGED <<rtk_queue, rtk_seen, match, nodes, input>>
        /\ worker = "commit" => worker' = "commit"
    BY <2>1 DEF EnqueueSynced, SkipSynced, Notified, rtkVars, graphVars, threadVars
  <2> QED
    BY <2>2
<1>2. CASE RejectKeyframe \/ TakeKeyframe
  <2>1. match = 0 /\ UNCHANGED <<rtk_queue, rtk_seen, match, nodes>>
    BY <1>2 DEF RejectKeyframe, TakeKeyframe, rtkVars, graphVars
  <2> QED
    BY <2>1
<1>3. CASE LocalOdometryCallback \/ UNCHANGED vars
           \/ RequestSave \/ NotifySave \/ RequestStop \/ NotifyStop \/ Join \/ FinalReconstruct
  <2>1. /\ UNCHANGED <<rtk_queue, rtk_seen, match, nodes, input>>
        /\ worker = "commit" => worker' = "commit"
    BY <1>3 DEF LocalOdometryCallback, vars, RequestSave, NotifySave, RequestStop,
         NotifyStop, Join, FinalReconstruct, Notified, rtkVars, graphVars, threadVars, queueVars
  <2> QED
    BY <2>1
<1>4. CASE EvaluatePredicate \/ Block \/ SpuriousWakeup \/ TakeNothing
           \/ UpdateGlobalCorrection \/ ExchangeSave \/ RebuildMap
  <2>1. worker # "commit" /\ UNCHANGED <<rtk_queue, rtk_seen, match, nodes, input>>
    BY <1>4 DEF EvaluatePredicate, Block, SpuriousWakeup, TakeNothing,
         UpdateGlobalCorrection, ExchangeSave, RebuildMap, rtkVars, graphVars, queueVars
  <2> QED
    BY <2>1
<1> HIDE DEF RtkInv, OnlyReceived, RtkSingleUse, RtkQueueSorted, MatchesAreNear
<1> QED
  BY <1>1, <1>2, <1>3, <1>4, RtkAccept, RtkFind, RtkCommit DEF Step

LEMMA RtkInvariant == SafeSpec => []RtkInv
<1>1. Init => RtkInv
  BY DEF Init, RtkInv, OnlyReceived, RtkSingleUse, RtkQueueSorted, MatchesAreNear,
         Distinct, Sorted
<1>2. TypeOK /\ RtkInv /\ [Next]_vars => RtkInv'
  BY NextIsStep, RtkInvStep
<1> QED
  BY <1>1, <1>2, TypeCorrect, PTL DEF SafeSpec

(* "The same RTK observation can correspond to only one graph node": no    *)
(* order of receipt, purge, match and commit uses one twice.               *)
THEOREM RtkUsedOnce == SafeSpec => []RtkSingleUse
<1>1. RtkInv => RtkSingleUse
  BY DEF RtkInv
<1> QED
  BY <1>1, RtkInvariant, PTL

(* The ordered insertion of gpsHandler and navSatFixHandler and the erased *)
(* prefixes of findNearestRtk keep rtk_queue_ in time order.               *)
THEOREM RtkSorted == SafeSpec => []RtkQueueSorted
<1>1. RtkInv => RtkQueueSorted
  BY DEF RtkInv
<1> QED
  BY <1>1, RtkInvariant, PTL

(* Nodes more than twice the tolerance apart have their observations in    *)
(* the order of the nodes, although each is only the nearest one.          *)
THEOREM RtkOrdered == SafeSpec => []RtkOrderFollowsNodes
<1>1. TypeOK /\ RtkInv => RtkOrderFollowsNodes
  <2> SUFFICES ASSUME TypeOK, RtkInv, NEW i \in DOMAIN nodes, NEW j \in DOMAIN nodes,
                      nodes[i].rtk # 0, nodes[j].rtk # 0,
                      nodes[j].stamp - nodes[i].stamp > 2 * RtkTolerance
               PROVE  nodes[i].rtk < nodes[j].rtk
    BY DEF RtkOrderFollowsNodes
  <2>1. \A n \in DOMAIN nodes : nodes[n].stamp \in Int /\ nodes[n].rtk \in Int
    <3>1. \A n \in DOMAIN nodes : nodes[n] \in Node
      BY DEF TypeOK, GraphOK
    <3>2. \A node \in Node : node.rtk \in RtkStamps \cup {0}
      BY DEF Node
    <3>3. RtkStamps \cup {0} \subseteq Int
      BY BackendAssumption
    <3>4. \A n \in DOMAIN nodes : nodes[n].stamp \in Int
      BY StampTypes
    <3> QED
      BY <3>1, <3>2, <3>3, <3>4, Zenon
  <2>2. RtkTolerance \in Int
    BY BackendAssumption
  <2>3. /\ ~ (Distance(nodes[i].rtk, nodes[i].stamp) > RtkTolerance)
        /\ ~ (Distance(nodes[j].rtk, nodes[j].stamp) > RtkTolerance)
    BY DEF RtkInv, MatchesAreNear
  <2> QED
    BY <2>1, <2>2, <2>3 DEF Distance
<1> QED
  BY <1>1, RtkInvariant, TypeCorrect, PTL

(***************************************************************************)
(* The published correction                                                *)
(***************************************************************************)

(* A part a / Unit of the way, rounded down, neither overshoots nor turns. *)
LEMMA SmoothingStep ==
  ASSUME NEW a \in 1 .. Unit, NEW from \in Int, NEW to \in Int, NEW low \in Int, NEW high \in Int,
         low <= from, from <= high, low <= to, to <= high,
         NEW s, s = from + (a * (to - from)) \div Unit
  PROVE  /\ s \in Int /\ low <= s /\ s <= high
         /\ Unit * Distance(s, from) < a * (high - low) + Unit
<1> DEFINE d == to - from
           m == a * d
           n == a * (high - low)
           q == m \div Unit
<1>1. d \in Int /\ high - low \in Int /\ a \in Int /\ a >= 1 /\ a <= 1000
  BY DEF Unit
<1>2. \A x, y \in Int : x * y \in Int
  OBVIOUS
<1>3. m \in Int /\ n \in Int
  <2> HIDE DEF d
  <2> QED
    BY <1>1, <1>2
<1>4. \A x, y, z \in Int : x >= 0 /\ y <= z => x * y <= x * z
  OBVIOUS
<1>5. /\ d >= 0 => a * 0 <= m /\ m <= n
      /\ d <= 0 => m <= a * 0 /\ a * (low - high) <= m
  <2>1. low - high \in Int /\ 0 \in Int /\ (d >= 0 => d <= high - low) /\ low - high <= d
    BY <1>1
  <2> HIDE DEF d
  <2> QED
    BY <1>1, <1>4, <2>1
<1>6. /\ d >= 0 => m <= 1000 * d
      /\ d <= 0 => 1000 * d <= m
  <2>1. d \in Int
    BY <1>1
  <2>2. \A x \in 1 .. 1000, y \in Int : /\ y >= 0 => x * y <= 1000 * y
                                       /\ y <= 0 => 1000 * y <= x * y
    OBVIOUS
  <2>3. a \in 1 .. 1000
    BY DEF Unit
  <2> HIDE DEF d
  <2> QED
    BY <2>1, <2>2, <2>3
<1>7. a * 0 = 0 /\ a * (low - high) = -n
  <2>1. \A x, y, z \in Int : x * 0 = 0 /\ x * (y - z) = -(x * (z - y))
    OBVIOUS
  <2> QED
    BY <1>1, <2>1
<1>8. q \in Int /\ 1000 * q <= m /\ m < 1000 * q + 1000
  <2> HIDE DEF m
  <2> QED
    BY <1>3 DEF Unit
<1>9. s = from + q
  OBVIOUS
<1> HIDE DEF m, n, q
<1>10. CASE d >= 0
  <2>1. 0 <= q /\ q <= d
    BY <1>1, <1>3, <1>5, <1>6, <1>7, <1>8, <1>10
  <2>2. s \in Int /\ Distance(s, from) = q
    BY <1>8, <1>9, <2>1 DEF Distance
  <2>3. Unit * q < n + Unit
    BY <1>3, <1>5, <1>8, <1>10 DEF Unit
  <2>4. low <= s /\ s <= high
    BY <1>8, <1>9, <2>1
  <2> QED
    BY <2>2, <2>3, <2>4 DEF n
<1>11. CASE d < 0
  <2>1. q <= 0 /\ d <= q
    BY <1>1, <1>3, <1>5, <1>6, <1>7, <1>8, <1>11
  <2>2. s \in Int /\ Distance(s, from) = -q
    BY <1>8, <1>9, <2>1 DEF Distance
  <2>3. Unit * (-q) < n + Unit
    BY <1>3, <1>5, <1>7, <1>8, <1>11 DEF Unit
  <2>4. low <= s /\ s <= high
    BY <1>8, <1>9, <2>1
  <2> QED
    BY <2>2, <2>3, <2>4 DEF n
<1> QED
  BY <1>1, <1>10, <1>11

(* What holds between two odometry messages: the smoothed correction lies  *)
(* between two targets, and is what was broadcast since the first of them. *)
SmoothedBetween == \E low, high \in targets : low <= smoothed /\ smoothed <= high
CorrectionInv ==
  /\ correction_initialized => correction_target \in targets /\ SmoothedBetween
  /\ published.targeted => correction_initialized /\ published.correction = smoothed

(* The body of CorrectionEased.                                            *)
Eases ==
  published'.targeted =>
    \E low, high \in targets :
      /\ low <= published'.correction /\ published'.correction <= high
      /\ published.targeted =>
           Unit * Distance(published'.correction, published.correction)
             < correction_smoothing_alpha * (high - low) + Unit

(* Only two operations touch the correction.                               *)
LEMMA CorrectionFrame ==
  Step => \/ LocalOdometryCallback \/ UpdateGlobalCorrection \/ UNCHANGED correctionVars
<1> SUFFICES ASSUME Step, ~LocalOdometryCallback, ~UpdateGlobalCorrection
             PROVE  UNCHANGED correctionVars
  OBVIOUS
<1>1. CASE FinalReconstruct \/ RebuildMap
  BY <1>1 DEF FinalReconstruct, RebuildMap
<1>2. CASE SyncedCallback
  BY <1>2, SyncedCases DEF EnqueueSynced, SkipSynced, outputVars
<1>3. CASE AcceptRtk \/ UNCHANGED vars
           \/ RequestSave \/ NotifySave \/ RequestStop \/ NotifyStop \/ Join
           \/ EvaluatePredicate \/ Block \/ SpuriousWakeup \/ TakeKeyframe \/ TakeNothing
           \/ RejectKeyframe \/ FindNearestRtk \/ CommitKeyframe \/ ExchangeSave
  <2>1. UNCHANGED outputVars
    BY <1>3 DEF AcceptRtk, vars, RequestSave, NotifySave, RequestStop, NotifyStop, Join,
         EvaluatePredicate, Block, SpuriousWakeup, TakeKeyframe, TakeNothing,
         RejectKeyframe, FindNearestRtk, CommitKeyframe, ExchangeSave
  <2> QED
    BY <2>1 DEF outputVars
<1> QED
  BY <1>1, <1>2, <1>3 DEF Step

(* The smoothed correction and its target, between two targets of which    *)
(* neither is beyond it.                                                   *)
LEMMA CommonHull ==
  ASSUME OutputsOK, CorrectionInv, correction_initialized
  PROVE  \E low, high \in targets :
           /\ low \in Int /\ high \in Int
           /\ low <= smoothed /\ smoothed <= high
           /\ low <= correction_target /\ correction_target <= high
<1>1. PICK low, high \in targets : low <= smoothed /\ smoothed <= high
  BY DEF CorrectionInv, SmoothedBetween
<1>2. correction_target \in targets /\ smoothed \in Int
  BY DEF CorrectionInv, OutputsOK
<1>3. low \in Int /\ high \in Int /\ correction_target \in Int
  BY <1>1, <1>2, BackendAssumption DEF OutputsOK
<1>4. CASE correction_target < low
  BY <1>1, <1>2, <1>3, <1>4
<1>5. CASE correction_target > high
  BY <1>1, <1>2, <1>3, <1>5
<1>6. CASE low <= correction_target /\ correction_target <= high
  BY <1>1, <1>3, <1>6
<1> QED
  BY <1>3, <1>4, <1>5, <1>6

(* Nothing broadcast, or the same again.                                   *)
LEMMA UnmovedEases ==
  ASSUME OutputsOK, CorrectionInv, UNCHANGED published
  PROVE  Eases
<1> SUFFICES ASSUME published.targeted PROVE Eases
  BY DEF Eases
<1>1. correction_initialized /\ published.correction = smoothed
  BY DEF CorrectionInv
<1>2. PICK low, high \in targets : /\ low \in Int /\ high \in Int
                                   /\ low <= smoothed /\ smoothed <= high
  BY <1>1, CommonHull
<1>3. /\ smoothed \in Int /\ correction_smoothing_alpha \in 1 .. 1000
  BY DEF OutputsOK, Unit
<1>4. correction_smoothing_alpha * (high - low) >= 0
      /\ correction_smoothing_alpha * (high - low) \in Int
  <2>1. \A x \in 1 .. 1000, y \in Int : y >= 0 => x * y >= 0 /\ x * y \in Int
    OBVIOUS
  <2>2. high - low \in Int /\ high - low >= 0
    BY <1>2, <1>3
  <2> QED
    BY <1>3, <2>1, <2>2
<1>5. Unit * Distance(smoothed, smoothed) = 0
  BY <1>3 DEF Distance, Unit
<1>6. Unit * Distance(smoothed, smoothed) < correction_smoothing_alpha * (high - low) + Unit
  BY <1>4, <1>5 DEF Unit
<1> QED
  BY <1>1, <1>2, <1>6 DEF Eases

LEMMA CorrectionStep ==
  ASSUME OutputsOK, CorrectionInv, Step
  PROVE  CorrectionInv' /\ Eases
<1>1. CASE LocalOdometryCallback
  <2>1. /\ smoothed' = IF correction_initialized THEN SmoothCorrectionStep ELSE smoothed
        /\ published' = [correction |-> IF correction_initialized THEN smoothed' ELSE 0,
                         targeted |-> correction_initialized]
        /\ UNCHANGED <<correction_smoothing_alpha, correction_initialized,
                       correction_target, targets>>
    BY <1>1 DEF LocalOdometryCallback
  <2>2. CASE ~correction_initialized
    BY <2>1, <2>2 DEF CorrectionInv, Eases
  <2>3. CASE correction_initialized
    <3>1. PICK low, high \in targets :
             /\ low \in Int /\ high \in Int
             /\ low <= smoothed /\ smoothed <= high
             /\ low <= correction_target /\ correction_target <= high
      BY <2>3, CommonHull
    <3>2. /\ smoothed \in Int /\ correction_target \in Int
          /\ correction_smoothing_alpha \in 1 .. Unit
      BY DEF OutputsOK
    <3>3. smoothed' = smoothed
            + (correction_smoothing_alpha * (correction_target - smoothed)) \div Unit
      BY <2>1, <2>3 DEF SmoothCorrectionStep
    <3>4. /\ low <= smoothed' /\ smoothed' <= high
          /\ Unit * Distance(smoothed', smoothed)
               < correction_smoothing_alpha * (high - low) + Unit
      BY <3>1, <3>2, <3>3, SmoothingStep
    <3>5. published'.correction = smoothed' /\ published'.targeted
      BY <2>1, <2>3
    <3>6. published.targeted => published.correction = smoothed
      BY DEF CorrectionInv
    <3>7. Eases
      BY <3>1, <3>4, <3>5, <3>6 DEF Eases
    <3>8. SmoothedBetween'
      BY <2>1, <3>1, <3>4 DEF SmoothedBetween
    <3>9. CorrectionInv'
      BY <2>1, <2>3, <3>5, <3>8 DEF CorrectionInv
    <3> QED
      BY <3>7, <3>9
  <2> QED
    BY <2>2, <2>3
<1>2. CASE UpdateGlobalCorrection
  <2>1. /\ correction_target' \in Corrections
        /\ targets' = targets \cup {correction_target'}
        /\ smoothed' = IF correction_initialized THEN smoothed ELSE correction_target'
        /\ correction_initialized' = TRUE /\ published' = published
    BY <1>2 DEF UpdateGlobalCorrection
  <2>2. correction_target' \in Int
    BY <2>1, BackendAssumption
  <2>3. SmoothedBetween'
    <3>1. CASE correction_initialized
      BY <2>1, <3>1 DEF CorrectionInv, SmoothedBetween
    <3>2. CASE ~correction_initialized
      <4>1. smoothed' = correction_target' /\ correction_target' <= correction_target'
        BY <2>1, <2>2, <3>2
      <4> QED
        BY <2>1, <4>1 DEF SmoothedBetween
    <3> QED
      BY <3>1, <3>2
  <2>4. CorrectionInv'
    BY <2>1, <2>3 DEF CorrectionInv
  <2> QED
    BY <2>1, <2>4, UnmovedEases
<1>3. CASE UNCHANGED correctionVars
  <2>1. UNCHANGED <<correction_initialized, correction_target, smoothed, published, targets>>
    BY <1>3 DEF correctionVars
  <2>2. CorrectionInv'
    BY <2>1 DEF CorrectionInv, SmoothedBetween
  <2> QED
    BY <2>1, <2>2, UnmovedEases
<1> QED
  BY <1>1, <1>2, <1>3, CorrectionFrame

(* updateGlobalCorrection and smoothCorrectionStep, run by two threads:    *)
(* what is broadcast stays between the targets there have been and moves   *)
(* by at most the part alpha of their distance, whatever the parameter.    *)
THEOREM CorrectionIsEased == SafeSpec => CorrectionEased
<1>1. Init => CorrectionInv
  BY DEF Init, CorrectionInv
<1>2. TypeOK /\ CorrectionInv /\ [Next]_vars => CorrectionInv' /\ [Eases]_vars
  BY NextIsStep, CorrectionStep DEF TypeOK
<1>3. [Eases]_vars =>
        [published'.targeted =>
           \E low, high \in targets :
             /\ low <= published'.correction /\ published'.correction <= high
             /\ published.targeted =>
                  Unit * Distance(published'.correction, published.correction)
                    < correction_smoothing_alpha * (high - low) + Unit]_vars
  BY DEF Eases
<1> QED
  BY <1>1, <1>2, <1>3, TypeCorrect, PTL DEF SafeSpec, CorrectionEased

(***************************************************************************)
(* The hand-off is a bounded channel                                       *)
(***************************************************************************)

(* The ROS thread requests the stop once, and runs no callback afterwards. *)
StopIsLast == stop_requested <=> main \in {"stopNotify", "join", "final", "done"}

LEMMA StopStep == StopIsLast /\ Step => StopIsLast'
<1> SUFFICES ASSUME StopIsLast, Step PROVE StopIsLast'
  OBVIOUS
<1> USE DEF StopIsLast
<1>1. CASE SyncedCallback
  BY <1>1, SyncedCases DEF EnqueueSynced, SkipSynced, threadVars
<1>2. CASE AcceptRtk \/ LocalOdometryCallback \/ UNCHANGED vars
  BY <1>2 DEF AcceptRtk, LocalOdometryCallback, vars, threadVars
<1>3. CASE RequestSave \/ NotifySave \/ RequestStop \/ NotifyStop \/ Join \/ FinalReconstruct
  BY <1>3 DEF RequestSave, NotifySave, RequestStop, NotifyStop, Join, FinalReconstruct
<1>4. CASE EvaluatePredicate \/ Block \/ SpuriousWakeup \/ TakeKeyframe \/ TakeNothing
           \/ RejectKeyframe \/ FindNearestRtk \/ CommitKeyframe \/ UpdateGlobalCorrection
           \/ ExchangeSave \/ RebuildMap
  BY <1>4 DEF EvaluatePredicate, Block, SpuriousWakeup, TakeKeyframe, TakeNothing,
              RejectKeyframe, FindNearestRtk, CommitKeyframe, UpdateGlobalCorrection,
              ExchangeSave, RebuildMap
<1> QED
  BY <1>1, <1>2, <1>3, <1>4 DEF Step

LEMMA StopInvariant == SafeSpec => []StopIsLast
<1>1. Init => StopIsLast
  BY DEF Init, StopIsLast
<1>2. StopIsLast /\ [Next]_vars => StopIsLast'
  BY NextIsStep, StopStep
<1> QED
  BY <1>1, <1>2, PTL DEF SafeSpec

LEMMA ChannelStep ==
  ASSUME TypeOK, StopIsLast, Step
  PROVE  Channel!ChanNext \/ UNCHANGED Channel!chanVars
<1>1. CASE SyncedCallback
  <2>1. PICK kf \in Keyframe : EnqueueSynced(kf) \/ \E dense \in BOOLEAN : SkipSynced(kf, dense)
    BY <1>1, SyncedCases
  <2>2. CASE EnqueueSynced(kf)
    <3>1. /\ main = "spin" /\ Push(kf)
          /\ UNCHANGED <<stop_requested, taken>>
      BY <2>2 DEF EnqueueSynced
    <3>2. ~ stop_requested
      BY <3>1 DEF StopIsLast
    <3>3. Len(keyframe_queue) \in Nat /\ MaxPending \in Nat
      BY StampTypes, BackendAssumption
    <3>4. Channel!Send(kf)
      <4>1. CASE Len(keyframe_queue) >= MaxPending
        <5>1. ~ (Len(keyframe_queue) < MaxPending)
          BY <3>3, <4>1
        <5> QED
          BY <3>1, <3>2, <4>1, <5>1 DEF Push, Channel!Send
      <4>2. CASE ~ (Len(keyframe_queue) >= MaxPending)
        <5>1. Len(keyframe_queue) < MaxPending
          BY <3>3, <4>2
        <5> QED
          BY <3>1, <3>2, <4>2, <5>1 DEF Push, Channel!Send
      <4> QED
        BY <4>1, <4>2
    <3> QED
      BY <3>4 DEF Channel!ChanNext
  <2>3. CASE \E dense \in BOOLEAN : SkipSynced(kf, dense)
    BY <2>3 DEF SkipSynced, threadVars, Channel!chanVars
  <2> QED
    BY <2>1, <2>2, <2>3
<1>2. CASE TakeKeyframe
  BY <1>2 DEF TakeKeyframe, Channel!ChanNext, Channel!Receive
<1>3. CASE RequestStop
  BY <1>3 DEF RequestStop, queueVars, StopIsLast, Channel!ChanNext, Channel!Close
<1>4. CASE AcceptRtk \/ LocalOdometryCallback \/ UNCHANGED vars
           \/ RequestSave \/ NotifySave \/ NotifyStop \/ Join \/ FinalReconstruct
           \/ EvaluatePredicate \/ Block \/ SpuriousWakeup \/ TakeNothing
           \/ RejectKeyframe \/ FindNearestRtk \/ CommitKeyframe \/ UpdateGlobalCorrection
           \/ ExchangeSave \/ RebuildMap
  <2>1. UNCHANGED <<keyframe_queue, taken, evicted, stop_requested>>
    BY <1>4 DEF AcceptRtk, LocalOdometryCallback, vars, RequestSave, NotifySave, NotifyStop,
         Join, FinalReconstruct, EvaluatePredicate, Block, SpuriousWakeup, TakeNothing,
         RejectKeyframe, FindNearestRtk, CommitKeyframe, UpdateGlobalCorrection,
         ExchangeSave, RebuildMap, threadVars, queueVars
  <2> QED
    BY <2>1 DEF Channel!chanVars
<1> QED
  BY <1>1, <1>2, <1>3, <1>4 DEF Step

(* syncedCallback, backendWorker and the destructor implement the bounded, *)
(* closable channel: nothing is lost but the oldest frames of a full queue,*)
(* nothing is duplicated or reordered, nothing enters after the stop.      *)
THEOREM ChannelRefined == SafeSpec => Channel!ChanSafeSpec
<1>1. Init => Channel!ChanInit
  BY DEF Init, Channel!ChanInit
<1>2. TypeOK /\ StopIsLast /\ [Next]_vars => [Channel!ChanNext]_(Channel!chanVars)
  BY NextIsStep, ChannelStep
<1> QED
  BY <1>1, <1>2, TypeCorrect, StopInvariant, PTL DEF SafeSpec, Channel!ChanSafeSpec

(***************************************************************************)
(* Shutdown loses nothing                                                  *)
(***************************************************************************)

(* The worker leaves its loop on an empty queue, the destructor goes on    *)
(* only after that, and every keyframe taken is a node, refused or in      *)
(* hand: what makes FinalMapComplete inductive.                            *)
DrainedBeforeDone ==
  /\ worker = "done" => keyframe_queue = <<>> /\ stop_requested
  /\ main \in {"final", "done"} => worker = "done"

MapFollows ==
  /\ main = "done" => map.stamps = Stamps(nodes)
  /\ nodes = <<>> => map.stamps = <<>>

EveryTakenAccounted ==
  StampSet(taken) = StampSet(nodes) \cup rejected \cup (IF Holding THEN {input.stamp} ELSE {})

FinalInv == DrainedBeforeDone /\ MapFollows /\ EveryTakenAccounted

LEMMA StampSetAppend ==
  ASSUME NEW S, NEW q \in Seq(S), NEW e \in S
  PROVE  StampSet(Append(q, e)) = StampSet(q) \cup {e.stamp}
<1>1. /\ DOMAIN Append(q, e) = DOMAIN q \cup {Len(q) + 1}
      /\ \A i \in DOMAIN q : Append(q, e)[i] = q[i]
      /\ Append(q, e)[Len(q) + 1] = e
  OBVIOUS
<1> DEFINE a == Append(q, e)
<1> HIDE DEF a
<1>2. StampSet(a) = {a[i].stamp : i \in DOMAIN q} \cup {a[Len(q) + 1].stamp}
  BY <1>1 DEF StampSet, a
<1>3. {a[i].stamp : i \in DOMAIN q} = StampSet(q)
  BY <1>1 DEF StampSet, a
<1> QED
  BY <1>1, <1>2, <1>3 DEF a

LEMMA StampsOfNone == Stamps(<<>>) = <<>>
BY DEF Stamps

LEMMA DrainedStep == TypeOK /\ StopIsLast /\ DrainedBeforeDone /\ Step => DrainedBeforeDone'
<1> SUFFICES ASSUME TypeOK, StopIsLast, DrainedBeforeDone, Step PROVE DrainedBeforeDone'
  OBVIOUS
<1> USE DEF DrainedBeforeDone, StopIsLast
<1>1. CASE SyncedCallback
  <2>1. PICK kf \in Keyframe : EnqueueSynced(kf) \/ \E dense \in BOOLEAN : SkipSynced(kf, dense)
    BY <1>1, SyncedCases
  <2>2. main = "spin" /\ main' = "spin" /\ worker # "done" /\ (worker' = "done" => worker = "done")
    BY <2>1 DEF EnqueueSynced, SkipSynced, Notified, threadVars
  <2> QED
    BY <2>2
<1>2. CASE AcceptRtk \/ LocalOdometryCallback \/ UNCHANGED vars
  BY <1>2 DEF AcceptRtk, LocalOdometryCallback, vars, threadVars, queueVars
<1>3. CASE RequestSave \/ NotifySave \/ RequestStop \/ NotifyStop \/ Join \/ FinalReconstruct
  BY <1>3 DEF RequestSave, NotifySave, RequestStop, NotifyStop, Join, FinalReconstruct,
              Notified, queueVars
<1>4. CASE EvaluatePredicate \/ Block \/ SpuriousWakeup \/ TakeKeyframe \/ TakeNothing
  BY <1>4 DEF EvaluatePredicate, Block, SpuriousWakeup, TakeKeyframe, TakeNothing, queueVars
<1>5. CASE RejectKeyframe \/ FindNearestRtk \/ CommitKeyframe \/ UpdateGlobalCorrection
           \/ ExchangeSave \/ RebuildMap
  BY <1>5 DEF RejectKeyframe, FindNearestRtk, CommitKeyframe, UpdateGlobalCorrection,
              ExchangeSave, RebuildMap
<1> QED
  BY <1>1, <1>2, <1>3, <1>4, <1>5 DEF Step

LEMMA MapStep == TypeOK /\ DrainedBeforeDone /\ MapFollows /\ Step => MapFollows'
<1> SUFFICES ASSUME TypeOK, DrainedBeforeDone, MapFollows, Step PROVE MapFollows'
  OBVIOUS
<1>1. CASE FinalReconstruct \/ RebuildMap
  <2>1. ReconstructFinalMap /\ UNCHANGED nodes
    BY <1>1 DEF FinalReconstruct, RebuildMap, graphVars
  <2>2. CASE nodes = <<>>
    BY <2>1, <2>2, StampsOfNone DEF ReconstructFinalMap, MapFollows
  <2>3. CASE nodes # <<>>
    <3>1. map'.stamps = Stamps(nodes)
      BY <2>1, <2>3 DEF ReconstructFinalMap, Stamps
    <3> QED
      BY <2>1, <2>3, <3>1 DEF MapFollows
  <2> QED
    BY <2>2, <2>3
<1>2. CASE CommitKeyframe
  <2>1. main # "done" /\ UNCHANGED <<main, map>>
    BY <1>2 DEF CommitKeyframe, DrainedBeforeDone, outputVars
  <2>2. nodes' # <<>>
    <3>1. Len(nodes') = Len(nodes) + 1 /\ Len(nodes) \in Nat
      BY <1>2, CommitAppends, StampTypes DEF TypeOK
    <3> QED
      BY <3>1
  <2> QED
    BY <2>1, <2>2 DEF MapFollows
<1>3. CASE SyncedCallback
  BY <1>3, SyncedCases DEF EnqueueSynced, SkipSynced, threadVars, graphVars, outputVars, MapFollows
<1>4. CASE AcceptRtk \/ LocalOdometryCallback \/ UNCHANGED vars
           \/ RequestSave \/ NotifySave \/ RequestStop \/ NotifyStop \/ Join
           \/ EvaluatePredicate \/ Block \/ SpuriousWakeup \/ TakeKeyframe \/ TakeNothing
           \/ RejectKeyframe \/ FindNearestRtk \/ UpdateGlobalCorrection \/ ExchangeSave
  <2>1. UNCHANGED <<nodes, map>> /\ (main' = "done" => main = "done")
    BY <1>4 DEF AcceptRtk, LocalOdometryCallback, vars, RequestSave, NotifySave, RequestStop,
         NotifyStop, Join, EvaluatePredicate, Block, SpuriousWakeup, TakeKeyframe, TakeNothing,
         RejectKeyframe, FindNearestRtk, UpdateGlobalCorrection, ExchangeSave,
         threadVars, graphVars, outputVars
  <2> QED
    BY <2>1 DEF MapFollows
<1> QED
  BY <1>1, <1>2, <1>3, <1>4 DEF Step

LEMMA TakenStep == TypeOK /\ EveryTakenAccounted /\ Step => EveryTakenAccounted'
<1> SUFFICES ASSUME TypeOK, EveryTakenAccounted, Step PROVE EveryTakenAccounted'
  OBVIOUS
<1>1. CASE TakeKeyframe
  <2>1. /\ Holding' /\ ~ Holding /\ UNCHANGED <<nodes, rejected>>
        /\ input' = Head(keyframe_queue) /\ taken' = Append(taken, Head(keyframe_queue))
    BY <1>1 DEF TakeKeyframe, Holding, graphVars
  <2>2. Head(keyframe_queue) \in Keyframe
    BY <1>1 DEF TakeKeyframe, TypeOK, QueuesOK
  <2>3. StampSet(taken') = StampSet(taken) \cup {input'.stamp}
    BY <2>1, <2>2, StampSetAppend DEF TypeOK, QueuesOK
  <2>4. StampSet(nodes)' = StampSet(nodes)
    BY <2>1 DEF StampSet
  <2>5. StampSet(taken)' = StampSet(taken')
    BY DEF StampSet
  <2> QED
    BY <2>1, <2>3, <2>4, <2>5 DEF EveryTakenAccounted
<1>2. CASE RejectKeyframe
  <2>1. /\ Holding /\ ~ Holding' /\ UNCHANGED <<nodes, taken>>
        /\ rejected' = rejected \cup {input.stamp}
    BY <1>2 DEF RejectKeyframe, Holding
  <2>2. StampSet(nodes)' = StampSet(nodes) /\ StampSet(taken)' = StampSet(taken)
    BY <2>1 DEF StampSet
  <2> QED
    BY <2>1, <2>2 DEF EveryTakenAccounted
<1>3. CASE CommitKeyframe
  <2> DEFINE node == [stamp |-> input.stamp, pose |-> input.pose, rtk |-> match]
  <2>1. /\ Holding /\ ~ Holding' /\ UNCHANGED <<rejected, taken>>
        /\ nodes' = Append(nodes, node)
    BY <1>3 DEF CommitKeyframe, Holding
  <2>2. node \in Node /\ node.stamp = input.stamp
    BY KeyframeType DEF TypeOK, QueuesOK, RtkOK, Node
  <2> HIDE DEF node
  <2>3. StampSet(nodes') = StampSet(nodes) \cup {input.stamp}
    BY <2>1, <2>2, StampSetAppend DEF TypeOK, GraphOK
  <2>4. StampSet(nodes)' = StampSet(nodes') /\ StampSet(taken)' = StampSet(taken)
    BY <2>1 DEF StampSet
  <2> QED
    BY <2>1, <2>3, <2>4 DEF EveryTakenAccounted
<1>4. CASE SyncedCallback \/ AcceptRtk \/ LocalOdometryCallback \/ UNCHANGED vars
           \/ RequestSave \/ NotifySave \/ RequestStop \/ NotifyStop \/ Join \/ FinalReconstruct
           \/ EvaluatePredicate \/ Block \/ SpuriousWakeup \/ TakeNothing
           \/ FindNearestRtk \/ UpdateGlobalCorrection \/ ExchangeSave \/ RebuildMap
  <2>1. UNCHANGED <<taken, nodes, rejected, input>> /\ (Holding' <=> Holding)
    <3>1. CASE SyncedCallback
      BY <3>1, SyncedCases DEF EnqueueSynced, SkipSynced, Notified, threadVars, graphVars, Holding
    <3>2. CASE AcceptRtk \/ LocalOdometryCallback \/ UNCHANGED vars
           \/ RequestSave \/ NotifySave \/ RequestStop \/ NotifyStop \/ Join \/ FinalReconstruct
      BY <3>2 DEF AcceptRtk, LocalOdometryCallback, vars, RequestSave, NotifySave,
         RequestStop, NotifyStop, Join, FinalReconstruct, Notified, threadVars, queueVars,
         graphVars, Holding
    <3>3. CASE EvaluatePredicate \/ Block \/ SpuriousWakeup \/ TakeNothing
           \/ FindNearestRtk \/ UpdateGlobalCorrection \/ ExchangeSave \/ RebuildMap
      BY <3>3 DEF EvaluatePredicate, Block, SpuriousWakeup, TakeNothing, FindNearestRtk,
         UpdateGlobalCorrection, ExchangeSave, RebuildMap, queueVars, graphVars, Holding
    <3> QED
      BY <1>4, <3>1, <3>2, <3>3
  <2> QED
    BY <2>1 DEF EveryTakenAccounted, StampSet
<1> QED
  BY <1>1, <1>2, <1>3, <1>4 DEF Step

(* When the destructor returns, every keyframe that was queued and not     *)
(* evicted is in the map or was refused by shouldCreateKeyframe.           *)
THEOREM FinalMapIsComplete == SafeSpec => []FinalMapComplete
<1>1. Init => FinalInv
  BY StampsOfNone DEF Init, FinalInv, DrainedBeforeDone, MapFollows, EveryTakenAccounted,
                      StampSet, Holding
<1>2. TypeOK /\ StopIsLast /\ FinalInv /\ [Next]_vars => FinalInv'
  BY NextIsStep, DrainedStep, MapStep, TakenStep DEF FinalInv
<1>3. FinalInv => FinalMapComplete
  BY DEF FinalInv, DrainedBeforeDone, MapFollows, EveryTakenAccounted, FinalMapComplete, Holding
<1> QED
  BY <1>1, <1>2, <1>3, TypeCorrect, StopInvariant, PTL DEF SafeSpec

(***************************************************************************)
(* The two keyframe gates agree unless a frame was lost                    *)
(***************************************************************************)
LossBefore(stamp) == \E lost \in evicted : lost.stamp < stamp

(* A frame is due against the one before it, or one between them was lost. *)
Linked(ref, kf) == KeyframeDue(ref, kf) \/ LossBefore(kf.stamp)

LastNode == nodes[Len(nodes)]

QueueLinked ==
  \A k \in DOMAIN keyframe_queue :
    k > 1 => KeyframeDue(keyframe_queue[k - 1], keyframe_queue[k])

HeadLinked ==
  keyframe_queue # <<>> =>
    /\ Holding => Linked(input, keyframe_queue[1])
    /\ ~ Holding /\ nodes # <<>> => Linked(LastNode, keyframe_queue[1])

InputLinked == worker = "process" /\ nodes # <<>> => Linked(LastNode, input)

(* What last_enqueued_local_pose_ describes: the youngest queued frame, the *)
(* one the worker holds or the last node, unless frames have been lost.    *)
LastEnqueuedKnown ==
  /\ keyframe_queue # <<>> => last_enqueued = <<keyframe_queue[Len(keyframe_queue)]>>
  /\ keyframe_queue = <<>> /\ Holding => last_enqueued = <<input>>
  /\ keyframe_queue = <<>> /\ ~ Holding /\ nodes # <<>> =>
       \/ /\ Len(last_enqueued) = 1
          /\ last_enqueued[1].pose = LastNode.pose
          /\ last_enqueued[1].stamp = LastNode.stamp
       \/ LossBefore(synced_stamp)

GateInv ==
  QueueLinked /\ HeadLinked /\ InputLinked /\ LastEnqueuedKnown /\ SecondGateOnlyAfterLoss

(* A loss stays a loss, and precedes every later stamp.                    *)
LEMMA LossKept ==
  ASSUME evicted \subseteq Keyframe, NEW a \in Nat, NEW b \in Nat, a <= b, LossBefore(a),
         evicted \subseteq evicted'
  PROVE  LossBefore(b) /\ LossBefore(b)'
<1>1. PICK lost \in evicted : lost.stamp < a
  BY DEF LossBefore
<1>2. lost.stamp \in Nat
  BY <1>1, KeyframeType, BackendAssumption
<1>3. lost.stamp < b
  BY <1>1, <1>2
<1> QED
  BY <1>1, <1>3, Zenon DEF LossBefore

LEMMA GateEnqueue ==
  ASSUME TypeOK, OrderInv, GateInv, NEW kf \in Keyframe, EnqueueSynced(kf)
  PROVE  GateInv'
<1> DEFINE q == keyframe_queue
<1>1. /\ kf.stamp > synced_stamp /\ synced_stamp' = kf.stamp /\ Selected(kf)
      /\ last_enqueued' = <<kf>> /\ Push(kf) /\ UNCHANGED <<nodes, input, rejected>>
      /\ Holding' = Holding /\ (worker' = "process" => worker = "process")
  BY DEF EnqueueSynced, graphVars, Holding, Notified
<1>2. /\ q' \in Seq(Keyframe) /\ Len(q') \in 1 .. MaxPending /\ q'[Len(q')] = kf
      /\ \A i \in 1 .. Len(q') - 1 :
           IF Len(q) >= MaxPending
             THEN i + 1 \in DOMAIN q /\ q'[i] = q[i + 1]
             ELSE i \in DOMAIN q /\ q'[i] = q[i]
      /\ evicted \subseteq evicted'
  BY <1>1, PushProperties DEF TypeOK, QueuesOK, Push
<1>3. /\ kf.stamp \in Nat /\ synced_stamp \in Nat /\ input.stamp \in Nat
      /\ \A k \in DOMAIN q : q[k].stamp \in Nat
      /\ \A i \in DOMAIN nodes : nodes[i].stamp \in Nat
      /\ DOMAIN q = 1 .. Len(q) /\ Len(q) \in Nat
      /\ rejected \subseteq Nat /\ evicted \subseteq Keyframe /\ q \in Seq(Keyframe)
      /\ MaxPending \in Nat \ {0}
  BY StampTypes, KeyframeType, BackendAssumption DEF TypeOK, GraphOK, QueuesOK
<1>4. q' # <<>> /\ DOMAIN q' = 1 .. Len(q') /\ Len(q') \in Nat \ {0}
  BY <1>2
<1>5. SecondGateOnlyAfterLoss'
  BY <1>1, <1>2, <1>3 DEF GateInv, SecondGateOnlyAfterLoss
<1>6. InputLinked'
  <2>1. LossBefore(input.stamp) => LossBefore(input.stamp)'
    BY <1>1, <1>2 DEF LossBefore
  <2> QED
    BY <1>1, <2>1 DEF GateInv, InputLinked, Linked, LastNode, KeyframeDue
<1>7. LastEnqueuedKnown'
  BY <1>1, <1>2, <1>4 DEF LastEnqueuedKnown
<1>8. q # <<>> => KeyframeDue(q[Len(q)], kf)
  BY <1>1, <1>3 DEF GateInv, LastEnqueuedKnown, Selected
<1>9. CASE Len(q) >= MaxPending
  <2>1. q # <<>> /\ Len(q) = MaxPending /\ 1 \in DOMAIN q
    <3>1. Len(q) <= MaxPending
      BY DEF TypeOK, QueuesOK
    <3> DEFINE n == Len(q)
    <3>2. n \in Nat /\ MaxPending \in Nat \ {0} /\ n <= MaxPending /\ n >= MaxPending
      BY <1>3, <1>9, <3>1
    <3> HIDE DEF n
    <3>3. n = MaxPending /\ n # 0 /\ 1 \in 1 .. n
      BY <3>2
    <3> QED
      BY <1>3, <3>3, EmptySeq DEF n
  <2>2. q' = Append(Tail(q), kf) /\ evicted' = evicted \cup {Head(q)}
    BY <1>1, <1>9 DEF Push
  <2>3. Len(q') = Len(q) /\ \A i \in 1 .. Len(q) : q'[i] = IF i < Len(q) THEN q[i + 1] ELSE kf
    BY <1>3, <2>1, <2>2, AppendToTail
  <2>4. q[1] \in evicted' /\ q[1].stamp <= synced_stamp
    BY <2>1, <2>2, <1>3 DEF OrderInv, UpToSynced
  <2>5. q[1].stamp < q'[1].stamp
    <3>1. CASE Len(q) = 1
      <4>1. q'[1] = kf
        BY <1>2, <2>3, <3>1
      <4>2. q[1].stamp \in Nat
        BY <1>3, <2>1
      <4> QED
        BY <1>1, <1>3, <2>4, <4>1, <4>2
    <3>2. CASE Len(q) # 1
      <4>1. q'[1] = q[2] /\ 2 \in DOMAIN q
        BY <1>3, <2>1, <2>3, <3>2
      <4> QED
        BY <2>1, <4>1 DEF OrderInv, GraphInTimeOrder, TimeOrdered
    <3> QED
      BY <3>1, <3>2
  <2>6. HeadLinked'
    BY <1>1, <2>4, <2>5, Zenon DEF HeadLinked, Linked, LossBefore
  <2>7. QueueLinked'
    <3> SUFFICES ASSUME NEW k \in DOMAIN q', k > 1
                 PROVE  KeyframeDue(q'[k - 1], q'[k])
      BY DEF QueueLinked, KeyframeDue
    <3>1. /\ k \in 1 .. Len(q) /\ k - 1 \in 1 .. Len(q) /\ k - 1 < Len(q)
          /\ q'[k - 1] = q[k] /\ k \in DOMAIN q
      BY <1>3, <1>4, <2>3
    <3>2. CASE k = Len(q)
      BY <1>8, <2>1, <2>3, <3>1, <3>2
    <3>3. CASE k < Len(q)
      <4>1. q'[k] = q[k + 1] /\ k + 1 \in DOMAIN q /\ k + 1 > 1 /\ (k + 1) - 1 = k
        BY <1>3, <2>3, <3>1, <3>3
      <4>2. KeyframeDue(q[(k + 1) - 1], q[k + 1])
        BY <4>1 DEF GateInv, QueueLinked
      <4> QED
        BY <3>1, <4>1, <4>2
    <3> QED
      BY <1>3, <3>1, <3>2, <3>3
  <2> QED
    BY <1>5, <1>6, <1>7, <2>6, <2>7 DEF GateInv
<1>10. CASE ~ (Len(q) >= MaxPending)
  <2>1. q' = Append(q, kf) /\ evicted' = evicted
    BY <1>1, <1>10 DEF Push
  <2>2. Len(q') = Len(q) + 1 /\ (\A i \in 1 .. Len(q) : q'[i] = q[i]) /\ q'[Len(q) + 1] = kf
    BY <1>3, <2>1
  <2>3. QueueLinked'
    <3> SUFFICES ASSUME NEW k \in DOMAIN q', k > 1
                 PROVE  KeyframeDue(q'[k - 1], q'[k])
      BY DEF QueueLinked, KeyframeDue
    <3>1. k - 1 \in DOMAIN q /\ k - 1 \in 1 .. Len(q) /\ q'[k - 1] = q[k - 1]
      BY <1>3, <1>4, <2>2
    <3>2. CASE k \in DOMAIN q
      BY <1>3, <2>2, <3>1, <3>2 DEF GateInv, QueueLinked
    <3>3. CASE k = Len(q) + 1
      <4>1. k - 1 = Len(q) /\ q # <<>>
        BY <1>3, <3>1, <3>3
      <4> QED
        BY <1>8, <2>2, <3>1, <3>3, <4>1
    <3> QED
      BY <1>3, <1>4, <2>2, <3>2, <3>3
  <2>4. CASE q # <<>>
    <3>1. 1 \in 1 .. Len(q) /\ q'[1] = q[1]
      BY <1>3, <2>2, <2>4
    <3>2. HeadLinked'
      <4>1. LossBefore(q[1].stamp)' = LossBefore(q[1].stamp)'
        OBVIOUS
      <4> QED
        BY <1>1, <2>1, <2>4, <3>1
        DEF GateInv, HeadLinked, Linked, LossBefore, LastNode, KeyframeDue
    <3> QED
      BY <1>5, <1>6, <1>7, <2>3, <3>2 DEF GateInv
  <2>5. CASE q = <<>>
    <3>1. q'[1] = kf
      BY <2>2, <2>5
    <3>2. Holding => KeyframeDue(input, kf)
      BY <1>1, <2>5 DEF GateInv, LastEnqueuedKnown, Selected
    <3>3. ~ Holding /\ nodes # <<>> => Linked(LastNode, kf)
      <4> SUFFICES ASSUME ~ Holding, nodes # <<>> PROVE Linked(LastNode, kf)
        OBVIOUS
      <4>1. CASE LossBefore(synced_stamp)
        <5>1. PICK lost \in evicted : lost.stamp < synced_stamp
          BY <4>1 DEF LossBefore
        <5>2. lost.stamp \in Nat
          BY <1>3, <5>1, KeyframeType, BackendAssumption
        <5>3. lost.stamp < kf.stamp
          BY <1>1, <1>3, <5>1, <5>2
        <5> QED
          BY <5>1, <5>3, Zenon DEF Linked, LossBefore
      <4>2. CASE /\ Len(last_enqueued) = 1
                 /\ last_enqueued[1].pose = LastNode.pose
                 /\ last_enqueued[1].stamp = LastNode.stamp
        <5>1. 1 \in DOMAIN last_enqueued
          BY <4>2 DEF TypeOK, QueuesOK
        <5>2. KeyframeDue(last_enqueued[1], kf)
          BY <1>1, <5>1, Zenon DEF Selected
        <5> QED
          BY <4>2, <5>2 DEF Linked, KeyframeDue
      <4> QED
        BY <2>5, <4>1, <4>2 DEF GateInv, LastEnqueuedKnown
    <3>4. HeadLinked'
      BY <1>1, <2>1, <3>1, <3>2, <3>3 DEF HeadLinked, Linked, LossBefore, LastNode, KeyframeDue
    <3> QED
      BY <1>5, <1>6, <1>7, <2>3, <3>4 DEF GateInv
  <2> QED
    BY <2>4, <2>5
<1> QED
  BY <1>9, <1>10

LEMMA GateTake ==
  ASSUME TypeOK, OrderInv, GateInv, TakeKeyframe
  PROVE  GateInv'
<1> DEFINE q == keyframe_queue
<1>1. q \in Seq(Keyframe) /\ q # <<>> /\ Len(q) \in Nat \ {0}
  BY EmptySeq DEF TypeOK, QueuesOK, TakeKeyframe
<1>2. /\ q' \in Seq(Keyframe) /\ Len(q') = Len(q) - 1
      /\ \A k \in 1 .. Len(q') : q'[k] = q[k + 1]
      /\ input' = q[1]
  <2>1. q' = Tail(q) /\ input' = Head(q) /\ Head(q) = q[1]
    BY <1>1 DEF TakeKeyframe
  <2>2. /\ Tail(q) \in Seq(Keyframe) /\ Len(Tail(q)) = Len(q) - 1
        /\ \A k \in 1 .. Len(Tail(q)) : Tail(q)[k] = q[k + 1]
    BY <1>1, HeadTailProperties
  <2> QED
    BY <2>1, <2>2
<1>3. /\ ~ Holding /\ Holding' /\ worker' = "process"
      /\ UNCHANGED <<nodes, last_enqueued, synced_stamp, evicted, rejected>>
  BY DEF TakeKeyframe, graphVars, Holding
<1> HIDE DEF q
<1>4. \A k \in DOMAIN q' : k \in 1 .. Len(q') /\ k + 1 \in DOMAIN q /\ q'[k] = q[k + 1] /\ k \in Nat
  BY <1>1, <1>2
<1>5. q' # <<>> => /\ 1 \in DOMAIN q' /\ Len(q') \in DOMAIN q' /\ Len(q') + 1 = Len(q)
                   /\ q'[1] = q[2] /\ 2 \in DOMAIN q /\ q'[Len(q')] = q[Len(q)]
  BY <1>1, <1>2, <1>4
<1>6. QueueLinked'
  <2> SUFFICES ASSUME NEW k \in DOMAIN q', k > 1 PROVE KeyframeDue(q'[k - 1], q'[k])
    BY DEF QueueLinked, KeyframeDue, q
  <2>1. /\ k - 1 \in DOMAIN q' /\ (k - 1) + 1 = k /\ (k + 1) - 1 = k /\ k + 1 > 1
        /\ q'[k - 1] = q[k] /\ q'[k] = q[k + 1] /\ k + 1 \in DOMAIN q
    BY <1>2, <1>4
  <2>2. KeyframeDue(q[(k + 1) - 1], q[k + 1])
    BY <2>1 DEF GateInv, QueueLinked, q
  <2> QED
    BY <2>1, <2>2
<1>7. HeadLinked'
  <2> SUFFICES ASSUME q' # <<>> PROVE KeyframeDue(input', q'[1])
    BY <1>3 DEF HeadLinked, Linked, KeyframeDue, q
  <2>1. KeyframeDue(q[2 - 1], q[2])
    <3>1. 2 \in DOMAIN q /\ 2 > 1
      BY <1>5
    <3> QED
      BY <3>1, Zenon DEF GateInv, QueueLinked, q
  <2> QED
    BY <1>2, <1>5, <2>1
<1>8. InputLinked'
  <2>1. nodes # <<>> => Linked(LastNode, q[1])
    BY <1>1, <1>3 DEF GateInv, HeadLinked, q
  <2> QED
    BY <1>2, <1>3, <2>1 DEF InputLinked, Linked, LossBefore, LastNode, KeyframeDue
<1>9. LastEnqueuedKnown'
  <2>1. last_enqueued = <<q[Len(q)]>>
    BY <1>1 DEF GateInv, LastEnqueuedKnown, q
  <2>2. CASE q' # <<>>
    BY <1>3, <1>5, <2>1, <2>2 DEF LastEnqueuedKnown, q
  <2>3. CASE q' = <<>>
    <3>1. Len(q) = 1
      BY <1>1, <1>2, <2>3
    <3> QED
      BY <1>2, <1>3, <2>1, <2>3, <3>1 DEF LastEnqueuedKnown, q
  <2> QED
    BY <2>2, <2>3
<1>10. SecondGateOnlyAfterLoss'
  BY <1>3 DEF GateInv, SecondGateOnlyAfterLoss
<1> QED
  BY <1>6, <1>7, <1>8, <1>9, <1>10 DEF GateInv

(* A frame is refused only after a loss; the frames behind it are later.   *)
LEMMA GateReject ==
  ASSUME TypeOK, OrderInv, GateInv, RejectKeyframe
  PROVE  GateInv'
<1>1. /\ worker = "process" /\ Holding /\ ~ Holding' /\ worker' # "process"
      /\ ~ ShouldCreateKeyframe /\ rejected' = rejected \cup {input.stamp}
      /\ UNCHANGED <<nodes, keyframe_queue, last_enqueued, synced_stamp, evicted>>
  BY DEF RejectKeyframe, Holding
<1>2. LossBefore(input.stamp)
  BY <1>1 DEF ShouldCreateKeyframe, GateInv, InputLinked, Linked, LastNode
<1>3. /\ input.stamp \in Nat /\ synced_stamp \in Nat /\ evicted \subseteq Keyframe
      /\ \A k \in DOMAIN keyframe_queue : keyframe_queue[k].stamp \in Nat
      /\ keyframe_queue # <<>> => 1 \in DOMAIN keyframe_queue
  <2>1. keyframe_queue \in Seq(Keyframe) /\ evicted \subseteq Keyframe
    BY DEF TypeOK, QueuesOK
  <2> QED
    BY <2>1, StampTypes
<1>4. keyframe_queue # <<>> => LossBefore(keyframe_queue[1].stamp)'
  <2> SUFFICES ASSUME keyframe_queue # <<>> PROVE LossBefore(keyframe_queue[1].stamp)'
    OBVIOUS
  <2> DEFINE s == keyframe_queue[1].stamp
  <2>1. s \in Nat /\ input.stamp < s
    BY <1>1, <1>3 DEF OrderInv, GraphInTimeOrder
  <2> HIDE DEF s
  <2>2. LossBefore(s)
    BY <1>1, <1>2, <1>3, <2>1, LossKept
  <2> QED
    BY <1>1, <2>2 DEF LossBefore, s
<1>5. LossBefore(synced_stamp)'
  <2>1. input.stamp <= synced_stamp
    BY <1>1 DEF OrderInv, UpToSynced
  <2>2. LossBefore(synced_stamp)
    BY <1>1, <1>2, <1>3, <2>1, LossKept
  <2> QED
    BY <1>1, <2>2 DEF LossBefore
<1>6. QueueLinked' /\ InputLinked'
  BY <1>1 DEF GateInv, QueueLinked, InputLinked, KeyframeDue
<1>7. HeadLinked'
  BY <1>1, <1>4 DEF HeadLinked, Linked, LossBefore
<1>8. LastEnqueuedKnown'
  BY <1>1, <1>5 DEF GateInv, LastEnqueuedKnown
<1>9. SecondGateOnlyAfterLoss'
  BY <1>1, <1>2 DEF GateInv, SecondGateOnlyAfterLoss, LossBefore
<1> QED
  BY <1>6, <1>7, <1>8, <1>9 DEF GateInv

LEMMA GateCommit ==
  ASSUME TypeOK, OrderInv, GateInv, CommitKeyframe
  PROVE  GateInv'
<1>1. /\ nodes' \in Seq(Node) /\ Len(nodes') = Len(nodes) + 1
      /\ nodes'[Len(nodes) + 1] = [stamp |-> input.stamp, pose |-> input.pose, rtk |-> match]
  BY CommitAppends DEF TypeOK
<1>2. LastNode'.stamp = input.stamp /\ LastNode'.pose = input.pose
  BY <1>1 DEF LastNode
<1>3. /\ Holding /\ ~ Holding' /\ worker' # "process"
      /\ UNCHANGED <<keyframe_queue, last_enqueued, synced_stamp, evicted, rejected>>
  BY DEF CommitKeyframe, Holding
<1>4. QueueLinked' /\ InputLinked' /\ SecondGateOnlyAfterLoss'
  BY <1>3 DEF GateInv, QueueLinked, InputLinked, SecondGateOnlyAfterLoss, KeyframeDue
<1>5. HeadLinked'
  BY <1>2, <1>3 DEF GateInv, HeadLinked, Linked, LossBefore, KeyframeDue
<1>6. LastEnqueuedKnown'
  <2>1. keyframe_queue = <<>> => last_enqueued = <<input>>
    BY <1>3 DEF GateInv, LastEnqueuedKnown
  <2>2. keyframe_queue # <<>> => last_enqueued = <<keyframe_queue[Len(keyframe_queue)]>>
    BY DEF GateInv, LastEnqueuedKnown
  <2> QED
    BY <1>2, <1>3, <2>1, <2>2 DEF LastEnqueuedKnown
<1> QED
  BY <1>4, <1>5, <1>6 DEF GateInv

LEMMA GateStep == TypeOK /\ OrderInv /\ GateInv /\ Step => GateInv'
<1> SUFFICES ASSUME TypeOK, OrderInv, GateInv, Step PROVE GateInv'
  OBVIOUS
<1>1. CASE SyncedCallback
  <2>1. PICK kf \in Keyframe : EnqueueSynced(kf) \/ \E dense \in BOOLEAN : SkipSynced(kf, dense)
    BY <1>1, SyncedCases
  <2>2. CASE \E dense \in BOOLEAN : SkipSynced(kf, dense)
    <3>1. /\ kf.stamp > synced_stamp /\ synced_stamp' = kf.stamp
          /\ UNCHANGED <<keyframe_queue, input, nodes, worker, last_enqueued, evicted, rejected>>
      BY <2>2 DEF SkipSynced, threadVars, graphVars
    <3>2. kf.stamp \in Nat /\ synced_stamp \in Nat /\ synced_stamp' \in Nat
      BY <3>1, StampTypes, KeyframeType, BackendAssumption
    <3>3. synced_stamp <= kf.stamp /\ evicted \subseteq Keyframe
      BY <3>1, <3>2 DEF TypeOK, QueuesOK
    <3>4. LossBefore(synced_stamp) => LossBefore(kf.stamp)
      BY <3>1, <3>2, <3>3, LossKept
    <3>5. LossBefore(synced_stamp) => LossBefore(synced_stamp)'
      BY <3>1, <3>4 DEF LossBefore
    <3>6. LastEnqueuedKnown'
      BY <3>1, <3>5 DEF GateInv, LastEnqueuedKnown, LastNode, Holding
    <3> QED
      BY <3>1, <3>6 DEF GateInv, QueueLinked, HeadLinked, InputLinked, Linked, LossBefore,
                        KeyframeDue, LastNode, Holding, SecondGateOnlyAfterLoss
  <2> QED
    BY <2>1, <2>2, GateEnqueue
<1>2. CASE FindNearestRtk
  BY <1>2 DEF FindNearestRtk, queueVars, graphVars, GateInv, QueueLinked, HeadLinked, InputLinked,
              LastEnqueuedKnown, Linked, LossBefore, KeyframeDue, LastNode, Holding,
              SecondGateOnlyAfterLoss
<1>3. CASE AcceptRtk \/ LocalOdometryCallback \/ UNCHANGED vars
           \/ RequestSave \/ NotifySave \/ RequestStop \/ NotifyStop \/ Join \/ FinalReconstruct
           \/ EvaluatePredicate \/ Block \/ SpuriousWakeup \/ TakeNothing
           \/ UpdateGlobalCorrection \/ ExchangeSave \/ RebuildMap
  <2>1. UNCHANGED <<nodes, input, keyframe_queue, synced_stamp, last_enqueued, evicted, rejected>>
    BY <1>3 DEF AcceptRtk, LocalOdometryCallback, vars, RequestSave, NotifySave, RequestStop,
         NotifyStop, Join, FinalReconstruct, EvaluatePredicate, Block, SpuriousWakeup,
         TakeNothing, UpdateGlobalCorrection, ExchangeSave, RebuildMap, queueVars, graphVars
  <2>2. Holding' = Holding /\ (worker' = "process" => worker = "process")
    BY <1>3 DEF AcceptRtk, LocalOdometryCallback, vars, RequestSave, NotifySave, RequestStop,
         NotifyStop, Join, FinalReconstruct, EvaluatePredicate, Block, SpuriousWakeup,
         TakeNothing, UpdateGlobalCorrection, ExchangeSave, RebuildMap, threadVars,
         Notified, Holding
  <2> QED
    BY <2>1, <2>2 DEF GateInv, QueueLinked, HeadLinked, InputLinked, LastEnqueuedKnown, Linked,
                      LossBefore, KeyframeDue, LastNode, SecondGateOnlyAfterLoss
<1> QED
  BY <1>1, <1>2, <1>3, GateTake, GateReject, GateCommit DEF Step

(* shouldCreateKeyframe refuses a frame that syncedCallback selected only  *)
(* if an earlier frame was evicted from the full queue: without overload   *)
(* the second gate never loses a keyframe.                                 *)
THEOREM SecondGateJustified == SafeSpec => []SecondGateOnlyAfterLoss
<1>1. Init => OrderInv /\ GateInv
  BY DEF Init, OrderInv, UpToSynced, GraphInTimeOrder, TimeOrdered, Before, Holding, GateInv,
         QueueLinked, HeadLinked, InputLinked, LastEnqueuedKnown, SecondGateOnlyAfterLoss
<1>2. TypeOK /\ OrderInv /\ GateInv /\ [Next]_vars => OrderInv' /\ GateInv'
  BY NextIsStep, OrderStep, GateStep
<1>3. GateInv => SecondGateOnlyAfterLoss
  BY DEF GateInv
<1> QED
  BY <1>1, <1>2, <1>3, TypeCorrect, PTL DEF SafeSpec

(***************************************************************************)
(* The search for the nearest RTK observation                              *)
(***************************************************************************)
ChoosesNearest ==
  worker = "process" /\ worker' = "commit" =>
    \A k \in DOMAIN rtk_queue :
      Distance(rtk_queue[k], input.stamp) >=
        IF match' = 0 THEN RtkTolerance + 1 ELSE Distance(match', input.stamp)

LEMMA FindNearestChooses ==
  ASSUME RtkTolerance <= RtkHorizon, TypeOK, RtkQueueSorted, FindNearestRtk
  PROVE  ChoosesNearest
<1> DEFINE q == rtk_queue
           s == input.stamp
           limit == s - RtkHorizon
           fresh == Expire(q, limit)
<1>1. q \in Seq(Nat) /\ Sorted(q) /\ s \in Nat /\ RtkHorizon \in Nat /\ RtkTolerance \in Nat
      /\ limit \in Int
  <2>1. q \in Seq(RtkStamps) /\ RtkStamps \subseteq Nat
    BY BackendAssumption DEF TypeOK, RtkOK
  <2>2. q \in Seq(Nat)
    BY <2>1, SeqMonotonic, Zenon
  <2>3. s \in Nat /\ RtkHorizon \in Nat /\ RtkTolerance \in Nat
    BY StampTypes, BackendAssumption
  <2> QED
    BY <2>2, <2>3 DEF RtkQueueSorted
<1>2. \/ fresh = <<>> /\ match' = 0
      \/ fresh # <<>> /\ NearestIndex(fresh, s) \in DOMAIN fresh
           /\ MatchRtk(fresh, NearestIndex(fresh, s))
  BY DEF FindNearestRtk
<1>3. \A k \in DOMAIN q : q[k] \in Nat /\ q[k] # 0 /\ Distance(q[k], s) \in Nat
  <2> TAKE k \in DOMAIN q
  <2>1. q[k] \in RtkStamps
    BY DEF TypeOK, RtkOK
  <2>2. q[k] \in Nat /\ q[k] # 0 /\ q[k] \in Int /\ s \in Int
    BY <1>1, <2>1, BackendAssumption
  <2> QED
    BY <2>2, DistanceProperties
<1> HIDE DEF s, q
<1>4. PICK n \in 0 .. Len(q) : fresh = DropFront(q, n) /\ \A i \in 1 .. n : q[i] < limit
  <2> HIDE DEF limit
  <2> QED
    BY <1>1, ExpireDropsOld
<1>5. /\ fresh \in Seq(Nat) /\ Len(fresh) = Len(q) - n
      /\ \A i \in 1 .. Len(q) - n : fresh[i] = q[n + i]
      /\ Sorted(fresh)
  BY <1>1, <1>4, DropFrontProperties, DropFrontKeeps
<1> HIDE DEF fresh
<1>6. \A k \in DOMAIN q : \/ k \in 1 .. n /\ Distance(q[k], s) > RtkHorizon
                         \/ \E i \in DOMAIN fresh : fresh[i] = q[k]
  <2> TAKE k \in DOMAIN q
  <2>1. k \in 1 .. Len(q) /\ n \in Nat /\ Len(q) \in Nat /\ DOMAIN fresh = 1 .. Len(q) - n
    BY <1>1, <1>5
  <2>2. CASE k <= n
    <3>1. k \in 1 .. n
      BY <2>1, <2>2
    <3>2. q[k] < limit /\ q[k] \in Nat
      BY <1>3, <1>4, <3>1
    <3> DEFINE x == q[k]
    <3> HIDE DEF x
    <3>3. x < s - RtkHorizon /\ x \in Nat
      BY <3>2 DEF limit, x
    <3>4. Distance(x, s) > RtkHorizon
      BY <1>1, <3>3 DEF Distance
    <3> QED
      BY <3>1, <3>4 DEF x
  <2>3. CASE k > n
    <3>1. k - n \in 1 .. Len(q) - n /\ n + (k - n) = k
      BY <2>1, <2>3
    <3>2. fresh[k - n] = q[k]
      BY <1>5, <3>1
    <3> QED
      BY <2>1, <3>1, <3>2
  <2> QED
    BY <2>1, <2>2, <2>3
<1>7. CASE fresh = <<>> /\ match' = 0
  <2>1. \A k \in DOMAIN q : Distance(q[k], s) > RtkHorizon
    <3>1. DOMAIN fresh = {}
      BY <1>7
    <3> QED
      BY <1>6, <3>1
  <2>2. \A k \in DOMAIN q : Distance(q[k], s) >= RtkTolerance + 1
    BY <1>1, <1>3, <2>1
  <2> QED
    BY <1>7, <2>2 DEF ChoosesNearest, s, q
<1>8. CASE /\ fresh # <<>> /\ NearestIndex(fresh, s) \in DOMAIN fresh
           /\ MatchRtk(fresh, NearestIndex(fresh, s))
  <2> DEFINE best == NearestIndex(fresh, s)
             x == fresh[best]
             d == Distance(x, s)
  <2>1. best \in DOMAIN fresh /\ \A i \in DOMAIN fresh : Distance(fresh[best], s) <= Distance(fresh[i], s)
    BY <1>1, <1>5, <1>8, NearestIndexIsNearest
  <2>2. MatchRtk(fresh, best)
    BY <1>8
  <2> HIDE DEF best
  <2>3. x \in Nat /\ d \in Nat
    <3>1. x \in Nat /\ x \in Int /\ s \in Int
      BY <1>1, <1>5, <2>1
    <3> QED
      BY <3>1, DistanceProperties
  <2>4. x # 0
    <3>1. best \in 1 .. Len(q) - n /\ n \in Nat /\ Len(q) \in Nat /\ DOMAIN q = 1 .. Len(q)
      BY <1>1, <1>5, <2>1
    <3>2. x = q[n + best]
      BY <1>5, <3>1
    <3>3. n + best \in DOMAIN q
      BY <3>1
    <3> QED
      BY <1>3, <3>2, <3>3
  <2>5. CASE d > RtkTolerance
    <3>1. match' = 0
      BY <2>2, <2>5 DEF MatchRtk, s
    <3>2. \A k \in DOMAIN q : Distance(q[k], s) >= RtkTolerance + 1
      <4> TAKE k \in DOMAIN q
      <4> DEFINE e == Distance(q[k], s)
      <4>1. e > RtkHorizon \/ d <= e
        BY <1>6, <2>1
      <4>2. e \in Nat
        BY <1>3
      <4> HIDE DEF e, d
      <4>3. e >= RtkTolerance + 1
        BY <1>1, <2>3, <2>5, <4>1, <4>2
      <4> QED
        BY <4>3 DEF e
    <3> QED
      BY <3>1, <3>2 DEF ChoosesNearest, s, q
  <2>6. CASE ~ (d > RtkTolerance)
    <3>1. match' = x
      BY <2>2, <2>6 DEF MatchRtk, s
    <3>2. \A k \in DOMAIN q : Distance(q[k], s) >= d
      <4> TAKE k \in DOMAIN q
      <4> DEFINE e == Distance(q[k], s)
      <4>1. e > RtkHorizon \/ d <= e
        BY <1>6, <2>1
      <4>2. e \in Nat
        BY <1>3
      <4> HIDE DEF e, d
      <4>3. e >= d
        BY <1>1, <2>3, <2>6, <4>1, <4>2
      <4> QED
        BY <4>3 DEF e
    <3> QED
      BY <2>4, <3>1, <3>2 DEF ChoosesNearest, s, q
  <2> QED
    BY <2>5, <2>6
<1> QED
  BY <1>2, <1>7, <1>8

(* With a tolerance within the five seconds that the queue is kept for, a  *)
(* keyframe gets the nearest of all queued observations and goes without   *)
(* one only if none lies within the tolerance: neither the purge of old    *)
(* observations nor the early exit of findNearestRtk's loop loses it.      *)
THEOREM NearestIsChosen ==
  ASSUME RtkTolerance <= RtkHorizon
  PROVE  SafeSpec => NearestChosen
<1>1. TypeOK /\ RtkQueueSorted /\ [Next]_vars => [ChoosesNearest]_vars
  <2> SUFFICES ASSUME TypeOK, RtkQueueSorted, Step, worker = "process", worker' = "commit"
               PROVE  ChoosesNearest
    BY NextIsStep DEF ChoosesNearest
  <2>1. FindNearestRtk
    <3>1. CASE SyncedCallback
      BY <3>1, SyncedCases DEF EnqueueSynced, SkipSynced, Notified, threadVars
    <3>2. CASE AcceptRtk \/ LocalOdometryCallback \/ UNCHANGED vars
           \/ RequestSave \/ NotifySave \/ RequestStop \/ NotifyStop \/ Join \/ FinalReconstruct
      BY <3>2 DEF AcceptRtk, LocalOdometryCallback, vars, RequestSave, NotifySave,
         RequestStop, NotifyStop, Join, FinalReconstruct, Notified, threadVars
    <3>3. CASE EvaluatePredicate \/ Block \/ SpuriousWakeup \/ TakeKeyframe \/ TakeNothing
           \/ RejectKeyframe \/ CommitKeyframe \/ UpdateGlobalCorrection \/ ExchangeSave \/ RebuildMap
      BY <3>3 DEF EvaluatePredicate, Block, SpuriousWakeup, TakeKeyframe, TakeNothing, RejectKeyframe,
         CommitKeyframe, UpdateGlobalCorrection, ExchangeSave, RebuildMap
    <3> QED
      BY <3>1, <3>2, <3>3 DEF Step
  <2> QED
    BY <2>1, FindNearestChooses
<1>2. [ChoosesNearest]_vars =>
        [worker = "process" /\ worker' = "commit" =>
           \A k \in DOMAIN rtk_queue :
             Distance(rtk_queue[k], input.stamp) >=
               IF match' = 0 THEN RtkTolerance + 1 ELSE Distance(match', input.stamp)]_vars
  BY DEF ChoosesNearest
<1> QED
  BY <1>1, <1>2, TypeCorrect, RtkSorted, PTL DEF SafeSpec, NearestChosen

=============================================================================
