---------------------------- MODULE OdometryProofs ----------------------------
(***************************************************************************)
(* Theorems about the parts that OdometryMC runs, with the constants that *)
(* it leaves open.  The LiDAR update, for any number of threads, points    *)
(* and iterations.  The synchronisation without a camera, for any scans    *)
(* and messages.  Preprocessing, for any lines, gaps and thinning.  The    *)
(* pixels around a patch, for any image and grid.  The visual map, for any *)
(* map, camera and number of frames.                                       *)
(***************************************************************************)
EXTENDS OdometryMC, FiniteSetTheorems, SequenceTheorems, WellFoundedInduction, TLAPS

(* The loop of an iteration and its threads.  A thread past the search of  *)
(* a point has one in hand, and only while the threads run.                *)
MatchTypeOK ==
  /\ lidarPc \in {"iterate", "search", "gate", "rows", "solve", "done"}
  /\ at \in [Threads -> Nat] /\ threadStep \in [Threads -> {"search", "lock", "read", "write"}]
  /\ word \in [Threads -> SUBSET Nat] /\ mylock \subseteq Threads
  /\ IsFiniteSet(useful_ptpl) /\ useful_ptpl \subseteq Nat /\ matched \subseteq Nat
  /\ \A t \in Threads : at[t] <= Len(Work[t])
  /\ \A t \in Threads :
       threadStep[t] # "search" => lidarPc = "search" /\ at[t] < Len(Work[t])

(* The mutex: a thread between its load and its store of the word holds    *)
(* it, nobody else does, and the word it has loaded is still current.      *)
Holders == \A t \in Threads : threadStep[t] \in {"read", "write"} <=> t \in mylock
OneHolder == \A t, u \in mylock : t = u
WordCurrent == \A t \in Threads : threadStep[t] = "write" => word[t] = useful_ptpl

(* A point whose thread has passed it has the flag it should have; one     *)
(* that is still to come has none, and no match but for the one in hand.   *)
InHand(t, k) == k = at[t] + 1 /\ threadStep[t] # "search"
PointSettled(t, k) ==
  /\ Work[t][k] \in useful_ptpl => k <= at[t] /\ Work[t][k] \in matched
  /\ Work[t][k] \in matched => InHand(t, k) \/ Work[t][k] \in useful_ptpl
OnlyPoints == \A p \in matched : \E t \in Threads : \E k \in DOMAIN Work[t] : p = Work[t][k]
Settled ==
  lidarPc = "search" =>
    /\ \A t \in Threads : \A k \in DOMAIN Work[t] : PointSettled(t, k)
    /\ OnlyPoints /\ useful_ptpl \subseteq matched

(* What the iteration makes of the flags.                                  *)
ListComplete ==
  lidarPc \in {"gate", "rows", "solve"} =>
    ptpl_list \in Match!InOrder(useful_ptpl) /\ useful_ptpl = matched
RowsCounted ==
  lidarPc \in {"rows", "solve"} =>
    /\ use_rtk \in BOOLEAN
    /\ effct_feat_num = Len(ptpl_list) + (IF use_rtk THEN 3 ELSE 0)
RowsWritten ==
  lidarPc = "solve" =>
    rows = [i \in 1..effct_feat_num |->
              IF i <= Len(ptpl_list) THEN <<"lidar", ptpl_list[i]>>
              ELSE <<"rtk", i - Len(ptpl_list)>>]
UpdatedOnce ==
  /\ lidarPc # "done" => covUpdates = 0
  /\ lidarPc = "done" => covUpdates = 1 /\ inCov = inState

MatchInv ==
  /\ MatchTypeOK /\ Holders /\ OneHolder /\ WordCurrent /\ Settled
  /\ ListComplete /\ RowsCounted /\ RowsWritten /\ UpdatedOnce

-------------------------------------------------------------------------------
(* What the module is instantiated with: a thread's points are numbers,    *)
(* and every point is searched once.                                       *)
LEMMA MatchConstants ==
  /\ Work \in [Threads -> Seq(Nat)] /\ RtkGood \in BOOLEAN
  /\ \A t, u \in Threads : \A i \in DOMAIN Work[t], j \in DOMAIN Work[u] :
       Work[t][i] = Work[u][j] => t = u /\ i = j
BY LidarAssumption DEF Match!LidarUpdateAssumption

LEMMA MatchInitially ==
  ASSUME Match!Init
  PROVE  MatchInv
<1>1. MatchTypeOK
  BY MatchConstants, FS_EmptySet DEF Match!Init, MatchTypeOK
<1> QED
  BY <1>1 DEF Match!Init, MatchInv, Holders, OneHolder, WordCurrent, Settled, ListComplete,
              RowsCounted, RowsWritten, UpdatedOnce

(* The point a thread has in hand is one of its points.                    *)
LEMMA PointInHand ==
  ASSUME MatchTypeOK, NEW t \in Threads, Match!Busy(t)
  PROVE  /\ at[t] + 1 \in DOMAIN Work[t] /\ at[t] \in Nat /\ lidarPc = "search"
         /\ Match!Point(t) = Work[t][at[t] + 1] /\ Match!Point(t) \in Nat
         /\ at[t] + 1 <= Len(Work[t])
<1>1. Work[t] \in Seq(Nat)
  BY MatchConstants
<1> QED
  BY <1>1 DEF MatchTypeOK, Match!Busy, Match!Point

(* A flag or a match is looked up by a point, and a point has one place.   *)
LEMMA OnePlace ==
  ASSUME NEW t \in Threads, NEW u \in Threads, NEW i \in DOMAIN Work[t],
         NEW j \in DOMAIN Work[u], Work[t][i] = Work[u][j]
  PROVE  t = u /\ i = j
BY MatchConstants

(* StateEstimation, the start of an iteration.                             *)
LEMMA MatchIterate ==
  ASSUME MatchInv, Match!Iterate
  PROVE  MatchInv'
<1>1. /\ lidarPc' = "search" /\ at' = [t \in Threads |-> 0]
      /\ threadStep' = [t \in Threads |-> "search"] /\ useful_ptpl' = {} /\ matched' = {}
      /\ UNCHANGED <<word, mylock, covUpdates>> /\ lidarPc = "iterate"
  BY DEF Match!Iterate, Match!ekf
<1>2. MatchTypeOK'
  BY <1>1, MatchConstants, FS_EmptySet DEF MatchInv, MatchTypeOK
<1>3. Holders' /\ OneHolder' /\ WordCurrent'
  BY <1>1 DEF MatchInv, MatchTypeOK, Holders, OneHolder, WordCurrent
<1>4. Settled'
  BY <1>1 DEF Settled, PointSettled, OnlyPoints
<1> QED
  BY <1>1, <1>2, <1>3, <1>4
  DEF MatchInv, ListComplete, RowsCounted, RowsWritten, UpdatedOnce

(* build_single_residual: a plane is found for the point or not.           *)
LEMMA MatchSearch ==
  ASSUME MatchInv, NEW t \in Threads, Match!Search(t)
  PROVE  MatchInv'
<1>1. /\ Match!Busy(t) /\ threadStep[t] = "search"
      /\ UNCHANGED <<lidarPc, word, mylock, useful_ptpl, covUpdates>>
  BY DEF Match!Search, Match!ekf
<1>2. /\ at[t] + 1 \in DOMAIN Work[t] /\ at[t] \in Nat /\ lidarPc = "search"
      /\ Match!Point(t) = Work[t][at[t] + 1] /\ Match!Point(t) \in Nat
      /\ at[t] + 1 <= Len(Work[t]) /\ at[t] < Len(Work[t])
  BY <1>1, PointInHand DEF MatchInv, Match!Busy
<1>3. t \notin mylock
  BY <1>1 DEF MatchInv, Holders
<1>4. CASE at' = [at EXCEPT ![t] = @ + 1] /\ UNCHANGED <<threadStep, matched>>
  <2>1. MatchTypeOK'
    BY <1>1, <1>2, <1>4 DEF MatchInv, MatchTypeOK
  <2>2. Holders' /\ OneHolder' /\ WordCurrent'
    BY <1>1, <1>4 DEF MatchInv, Holders, OneHolder, WordCurrent
  <2>3. Settled'
    <3>1. ASSUME NEW u \in Threads, NEW k \in DOMAIN Work[u]
          PROVE  PointSettled(u, k)'
      <4>1. PointSettled(u, k)
        BY <1>2 DEF MatchInv, Settled
      <4>2. at[u] \in Nat /\ at'[u] \in Nat /\ at[u] <= at'[u] /\ (u # t => at'[u] = at[u])
            /\ k \in Int
        BY <1>4, MatchConstants DEF MatchInv, MatchTypeOK
      <4> QED
        BY <1>1, <1>4, <4>1, <4>2 DEF PointSettled, InHand
    <3>2. OnlyPoints' /\ useful_ptpl' \subseteq matched'
      BY <1>1, <1>2, <1>4 DEF MatchInv, Settled, OnlyPoints
    <3> QED
      BY <3>1, <3>2 DEF Settled
  <2> QED
    BY <1>1, <1>2, <2>1, <2>2, <2>3
    DEF MatchInv, ListComplete, RowsCounted, RowsWritten, UpdatedOnce
<1>5. CASE /\ threadStep' = [threadStep EXCEPT ![t] = "lock"]
           /\ matched' \in Match!build_single_residual(t) /\ UNCHANGED at
  <2>1. matched' = matched \/ matched' = matched \cup {Match!Point(t)}
    BY <1>5 DEF Match!build_single_residual
  <2>2. MatchTypeOK'
    BY <1>1, <1>2, <1>5, <2>1 DEF MatchInv, MatchTypeOK
  <2>3. Holders' /\ OneHolder' /\ WordCurrent'
    BY <1>1, <1>3, <1>5 DEF MatchInv, MatchTypeOK, Holders, OneHolder, WordCurrent
  <2>4. Settled'
    <3>1. ASSUME NEW u \in Threads, NEW k \in DOMAIN Work[u]
          PROVE  PointSettled(u, k)'
      <4>1. PointSettled(u, k)
        BY <1>2 DEF MatchInv, Settled
      <4>2. CASE Work[u][k] = Match!Point(t)
        <5>1. u = t /\ k = at[t] + 1
          BY <1>2, <4>2, OnePlace
        <5>2. threadStep'[t] = "lock"
          BY <1>5 DEF MatchInv, MatchTypeOK
        <5> QED
          BY <1>1, <1>2, <1>5, <4>1, <5>1, <5>2, <2>1 DEF PointSettled, InHand
      <4>3. CASE Work[u][k] # Match!Point(t)
        <5>1. Work[u][k] \in matched' <=> Work[u][k] \in matched
          BY <2>1, <4>3
        <5>2. InHand(u, k) => InHand(u, k)'
          BY <1>1, <1>5 DEF InHand, MatchInv, MatchTypeOK
        <5> QED
          BY <1>1, <1>5, <4>1, <5>1, <5>2 DEF PointSettled
      <4> QED
        BY <4>2, <4>3
    <3>2. OnlyPoints' /\ useful_ptpl' \subseteq matched'
      BY <1>1, <1>2, <2>1 DEF MatchInv, Settled, OnlyPoints
    <3> QED
      BY <3>1, <3>2 DEF Settled
  <2> QED
    BY <1>1, <1>2, <2>2, <2>3, <2>4
    DEF MatchInv, ListComplete, RowsCounted, RowsWritten, UpdatedOnce
<1> QED
  BY <1>4, <1>5 DEF Match!Search

(* The mutex is taken when nobody holds it.                                *)
LEMMA MatchLock ==
  ASSUME MatchInv, NEW t \in Threads, Match!Lock(t)
  PROVE  MatchInv'
<1>1. /\ threadStep[t] = "lock" /\ mylock = {} /\ mylock' = {t}
      /\ threadStep' = [threadStep EXCEPT ![t] = "read"] /\ lidarPc = "search"
      /\ UNCHANGED <<lidarPc, at, word, useful_ptpl, matched, covUpdates>>
  BY DEF Match!Lock, Match!Busy, Match!ekf
<1>2. MatchTypeOK'
  BY <1>1 DEF MatchInv, MatchTypeOK
<1>3. Holders' /\ OneHolder' /\ WordCurrent'
  BY <1>1 DEF MatchInv, MatchTypeOK, Holders, OneHolder, WordCurrent
<1>4. Settled'
  BY <1>1 DEF MatchInv, MatchTypeOK, Settled, PointSettled, InHand, OnlyPoints
<1> QED
  BY <1>1, <1>2, <1>3, <1>4
  DEF MatchInv, ListComplete, RowsCounted, RowsWritten, UpdatedOnce

(* The word is loaded.                                                     *)
LEMMA MatchRead ==
  ASSUME MatchInv, NEW t \in Threads, Match!Read(t)
  PROVE  MatchInv'
<1>1. /\ threadStep[t] = "read" /\ word' = [word EXCEPT ![t] = useful_ptpl]
      /\ threadStep' = [threadStep EXCEPT ![t] = "write"] /\ lidarPc = "search"
      /\ UNCHANGED <<lidarPc, at, mylock, useful_ptpl, matched, covUpdates>>
  BY DEF Match!Read, Match!Busy, Match!ekf
<1>2. MatchTypeOK'
  BY <1>1 DEF MatchInv, MatchTypeOK
<1>3. Holders' /\ OneHolder' /\ WordCurrent'
  BY <1>1 DEF MatchInv, MatchTypeOK, Holders, OneHolder, WordCurrent
<1>4. Settled'
  BY <1>1 DEF MatchInv, MatchTypeOK, Settled, PointSettled, InHand, OnlyPoints
<1> QED
  BY <1>1, <1>2, <1>3, <1>4
  DEF MatchInv, ListComplete, RowsCounted, RowsWritten, UpdatedOnce

(* The word is stored with the bit of the point: nobody else has a word in *)
(* hand, and no other bit changes.                                         *)
LEMMA MatchWrite ==
  ASSUME MatchInv, NEW t \in Threads, Match!Write(t)
  PROVE  MatchInv'
<1> DEFINE p == Match!Point(t)
<1>1. /\ Match!Busy(t) /\ threadStep[t] = "write" /\ mylock' = mylock \ {t}
      /\ useful_ptpl' = IF p \in matched THEN word[t] \cup {p} ELSE word[t] \ {p}
      /\ threadStep' = [threadStep EXCEPT ![t] = "search"]
      /\ at' = [at EXCEPT ![t] = @ + 1] /\ word' = [word EXCEPT ![t] = {}]
      /\ UNCHANGED <<lidarPc, matched, covUpdates>>
  BY DEF Match!Write, Match!ekf
<1>2. /\ at[t] + 1 \in DOMAIN Work[t] /\ at[t] \in Nat /\ lidarPc = "search"
      /\ p = Work[t][at[t] + 1] /\ p \in Nat /\ at[t] + 1 <= Len(Work[t])
  BY <1>1, PointInHand DEF MatchInv
<1> HIDE DEF p
<1>3. mylock = {t} /\ word[t] = useful_ptpl
  BY <1>1 DEF MatchInv, Holders, OneHolder, WordCurrent
<1>4. p \notin useful_ptpl
  <2>1. PointSettled(t, at[t] + 1)
    BY <1>2 DEF MatchInv, Settled
  <2> QED
    BY <1>2, <2>1 DEF PointSettled
<1>5. useful_ptpl' = IF p \in matched THEN useful_ptpl \cup {p} ELSE useful_ptpl
  BY <1>1, <1>3, <1>4
<1>6. MatchTypeOK'
  <2>1. IsFiniteSet(useful_ptpl') /\ useful_ptpl' \subseteq Nat
    BY <1>2, <1>5, FS_AddElement DEF MatchInv, MatchTypeOK
  <2> QED
    BY <1>1, <1>2, <2>1 DEF MatchInv, MatchTypeOK
<1>7. Holders' /\ OneHolder'
  BY <1>1, <1>3 DEF MatchInv, MatchTypeOK, Holders, OneHolder
<1>8. WordCurrent'
  <2>1. \A u \in Threads : threadStep'[u] = "write" => u # t /\ threadStep[u] = "write"
    BY <1>1 DEF MatchInv, MatchTypeOK
  <2>2. \A u \in Threads : threadStep[u] = "write" => u = t
    BY <1>3 DEF MatchInv, Holders
  <2> QED
    BY <2>1, <2>2 DEF WordCurrent
<1>9. Settled'
  <2>1. ASSUME NEW u \in Threads, NEW k \in DOMAIN Work[u]
        PROVE  PointSettled(u, k)'
    <3>1. PointSettled(u, k) /\ k \in Int /\ at[u] \in Nat
      BY <1>2, MatchConstants DEF MatchInv, MatchTypeOK, Settled
    <3>2. CASE Work[u][k] = p
      <4>1. u = t /\ k = at[t] + 1
        BY <1>2, <3>2, OnePlace
      <4>2. at'[t] = at[t] + 1
        BY <1>1 DEF MatchInv, MatchTypeOK
      <4> QED
        BY <1>1, <1>2, <1>4, <1>5, <3>2, <4>1, <4>2 DEF PointSettled
    <3>3. CASE Work[u][k] # p
      <4>1. Work[u][k] \in useful_ptpl' <=> Work[u][k] \in useful_ptpl
        BY <1>5, <3>3
      <4>2. at'[u] \in Nat /\ at[u] <= at'[u]
        BY <1>1, <3>1 DEF MatchInv, MatchTypeOK
      <4>3. InHand(u, k) => InHand(u, k)'
        <5>1. InHand(u, k) => u # t
          BY <1>2, <3>3 DEF InHand
        <5> QED
          BY <1>1, <5>1 DEF InHand, MatchInv, MatchTypeOK
      <4> QED
        BY <1>1, <3>1, <4>1, <4>2, <4>3 DEF PointSettled
    <3> QED
      BY <3>2, <3>3
  <2>2. OnlyPoints' /\ useful_ptpl' \subseteq matched'
    BY <1>1, <1>2, <1>5 DEF MatchInv, Settled, OnlyPoints
  <2> QED
    BY <2>1, <2>2 DEF Settled
<1> QED
  BY <1>1, <1>2, <1>6, <1>7, <1>8, <1>9
  DEF MatchInv, ListComplete, RowsCounted, RowsWritten, UpdatedOnce

(* The instance has its own names for the library's operators.             *)
LEMMA SameOperators ==
  /\ \A S : Match!Cardinality(S) = Cardinality(S)
  /\ \A f : Match!Range(f) = Range(f)
<1>1. \A S : Match!Cardinality(S) = Cardinality(S)
  BY Zenon DEF Match!Cardinality, Cardinality
<1>2. \A f : Match!Range(f) = Range(f)
  BY DEF Match!Range, Range
<1> QED
  BY <1>1, <1>2

(* A set listed in order is listed whole, and nothing twice.               *)
LEMMA InOrderLists ==
  ASSUME NEW S, IsFiniteSet(S), S \subseteq Nat, NEW s \in Match!InOrder(S)
  PROVE  /\ s \in Seq(Nat) /\ Len(s) \in Nat /\ DOMAIN s = 1..Len(s)
         /\ \A i, j \in 1..Len(s) : s[i] = s[j] => i = j
         /\ Range(s) = S
<1> DEFINE n == Cardinality(S)
<1>1. n \in Nat
  BY FS_CardinalityType
<1>2. /\ s \in [1..n -> S] /\ DOMAIN s = 1..n
      /\ \A i, j \in 1..n : i < j => s[i] < s[j]
  <2>1. Match!Cardinality(S) = n
    BY SameOperators
  <2> QED
    BY <2>1 DEF Match!InOrder
<1>3. IsFiniteSet(1..n) /\ Cardinality(1..n) = n
  <2>1. 1 \in Int /\ n \in Int /\ (IF 1 > n THEN 0 ELSE n - 1 + 1) = n
    BY <1>1
  <2> HIDE DEF n
  <2> QED
    BY <2>1, FS_Interval
<1>4. Cardinality(S) = n
  OBVIOUS
<1> HIDE DEF n
<1>5. s \in Seq(Nat) /\ Len(s) = n
  <2>1. s \in [1..n -> Nat]
    BY <1>2
  <2> QED
    BY <1>1, <2>1
<1>6. \A i, j \in 1..n : s[i] = s[j] => i = j
  <2> SUFFICES ASSUME NEW i \in 1..n, NEW j \in 1..n, s[i] = s[j] PROVE i = j
    OBVIOUS
  <2>1. s[i] \in Nat /\ s[j] \in Nat
    BY <1>2
  <2>2. ~ (i < j) /\ ~ (j < i)
    BY <1>2, <2>1
  <2> QED
    BY <1>1, <2>2
<1>7. s \in Injection(1..n, S)
  BY <1>2, <1>6 DEF Injection, IsInjective
<1>8. s \in Surjection(1..n, S)
  BY <1>3, <1>4, <1>7, FS_Injection
<1>9. Range(s) = S
  BY <1>2, <1>8, Zenon DEF Surjection, Range
<1> QED
  BY <1>1, <1>2, <1>5, <1>6, <1>9

(* The end of the parallel loop: every thread has passed all its points.   *)
LEMMA MatchCollect ==
  ASSUME MatchInv, Match!Collect
  PROVE  MatchInv'
<1>1. /\ lidarPc = "search" /\ lidarPc' = "gate"
      /\ \A t \in Threads : at[t] = Len(Work[t])
      /\ ptpl_list' \in Match!InOrder(useful_ptpl)
      /\ UNCHANGED <<at, threadStep, word, mylock, useful_ptpl, matched, covUpdates>>
  BY DEF Match!Collect, Match!loop, Match!ekf
<1>2. MatchTypeOK' /\ Holders' /\ OneHolder' /\ WordCurrent'
  <2>1. \A t \in Threads : Len(Work[t]) \in Nat
    BY MatchConstants
  <2>2. MatchTypeOK'
    BY <1>1, <2>1 DEF MatchInv, MatchTypeOK
  <2> QED
    BY <1>1, <2>2 DEF MatchInv, Holders, OneHolder, WordCurrent
<1>3. matched \subseteq useful_ptpl
  <2> SUFFICES ASSUME NEW p \in matched PROVE p \in useful_ptpl
    OBVIOUS
  <2>0. PICK t \in Threads : \E k \in DOMAIN Work[t] : p = Work[t][k]
    BY <1>1 DEF MatchInv, Settled, OnlyPoints
  <2>1. PICK k \in DOMAIN Work[t] : p = Work[t][k]
    BY <2>0
  <2>2. PointSettled(t, k)
    BY <1>1 DEF MatchInv, Settled
  <2>3. ~ InHand(t, k)
    BY <1>1, MatchConstants DEF MatchInv, MatchTypeOK, InHand
  <2> QED
    BY <2>1, <2>2, <2>3 DEF PointSettled
<1>4. useful_ptpl = matched
  BY <1>1, <1>3 DEF MatchInv, Settled
<1> QED
  BY <1>1, <1>2, <1>4
  DEF MatchInv, Settled, ListComplete, RowsCounted, RowsWritten, UpdatedOnce

(* After the threads nothing of theirs moves.                              *)
LEMMA ThreadsRest ==
  ASSUME MatchTypeOK, Holders, OneHolder, WordCurrent,
         lidarPc \notin {"search"}, lidarPc' \in {"iterate", "gate", "rows", "solve", "done"},
         UNCHANGED <<at, threadStep, word, mylock, useful_ptpl, matched>>
  PROVE  MatchTypeOK' /\ Holders' /\ OneHolder' /\ WordCurrent' /\ Settled'
<1>1. MatchTypeOK'
  BY DEF MatchTypeOK
<1> QED
  BY <1>1 DEF Holders, OneHolder, WordCurrent, Settled

(* The gate on the innovation of the fix counts the rows.                  *)
LEMMA MatchGate ==
  ASSUME MatchInv, Match!Gate
  PROVE  MatchInv'
<1>1. /\ lidarPc = "gate" /\ lidarPc' = "rows" /\ use_rtk' \in BOOLEAN
      /\ effct_feat_num' = Len(ptpl_list) + (IF use_rtk' THEN 3 ELSE 0)
      /\ UNCHANGED <<at, threadStep, word, mylock, useful_ptpl, matched, ptpl_list, covUpdates>>
  BY MatchConstants DEF Match!Gate, Match!loop
<1>2. MatchTypeOK' /\ Holders' /\ OneHolder' /\ WordCurrent' /\ Settled'
  BY <1>1, ThreadsRest DEF MatchInv
<1> QED
  BY <1>1, <1>2 DEF MatchInv, ListComplete, RowsCounted, RowsWritten, UpdatedOnce

(* The rows are written: those of the residuals, then those of the fix.    *)
LEMMA MatchRows ==
  ASSUME MatchInv, Match!Rows
  PROVE  MatchInv'
<1>1. /\ lidarPc = "rows" /\ lidarPc' = "solve"
      /\ UNCHANGED <<at, threadStep, word, mylock, useful_ptpl, matched, ptpl_list, use_rtk,
                     effct_feat_num, covUpdates>>
  BY DEF Match!Rows, Match!loop
<1>2. MatchTypeOK' /\ Holders' /\ OneHolder' /\ WordCurrent' /\ Settled'
  BY <1>1, ThreadsRest DEF MatchInv
<1>3. Len(ptpl_list) \in Nat /\ DOMAIN ptpl_list = 1..Len(ptpl_list)
  BY <1>1, InOrderLists DEF MatchInv, MatchTypeOK, ListComplete
<1>4. rows' = [i \in 1..effct_feat_num |->
                 IF i <= Len(ptpl_list) THEN <<"lidar", ptpl_list[i]>>
                 ELSE <<"rtk", i - Len(ptpl_list)>>]
  <2>1. \A i \in 1..effct_feat_num :
          /\ i <= Len(ptpl_list) => i \in DOMAIN ptpl_list
          /\ ~ (i <= Len(ptpl_list)) => use_rtk /\ i - Len(ptpl_list) \in 1..3
    BY <1>1, <1>3 DEF MatchInv, RowsCounted
  <2> QED
    BY <2>1 DEF Match!Rows, Match!LidarRows
<1> QED
  BY <1>1, <1>2, <1>4 DEF MatchInv, ListComplete, RowsCounted, RowsWritten, UpdatedOnce

(* The last iteration is one that stops, so the covariance is updated.     *)
LEMMA MatchSolve ==
  ASSUME MatchInv, Match!Solve
  PROVE  MatchInv'
<1>1. /\ lidarPc = "solve" /\ inState' = Range(rows)
      /\ UNCHANGED <<at, threadStep, word, mylock, useful_ptpl, matched>>
      /\ \/ /\ lidarPc' = "done" /\ inCov' = Range(rows) /\ covUpdates' = covUpdates + 1
         \/ lidarPc' = "iterate" /\ covUpdates' = covUpdates
  BY SameOperators DEF Match!Solve, Match!Stops, Match!loop
<1>2. MatchTypeOK' /\ Holders' /\ OneHolder' /\ WordCurrent' /\ Settled'
  BY <1>1, ThreadsRest DEF MatchInv
<1> QED
  BY <1>1, <1>2 DEF MatchInv, ListComplete, RowsCounted, RowsWritten, UpdatedOnce

LEMMA MatchStill ==
  ASSUME MatchInv, UNCHANGED lidarVars
  PROVE  MatchInv'
<1>1. /\ UNCHANGED <<lidarPc, at, threadStep, word, mylock, useful_ptpl, matched, ptpl_list>>
      /\ UNCHANGED <<use_rtk, effct_feat_num, rows, inState, inCov, covUpdates>>
  BY DEF lidarVars
<1> QED
  BY <1>1 DEF MatchInv, MatchTypeOK, Holders, OneHolder, WordCurrent, Settled, PointSettled,
              InHand, OnlyPoints, ListComplete, RowsCounted, RowsWritten, UpdatedOnce

LEMMA MatchStep ==
  ASSUME MatchInv, Match!Next
  PROVE  MatchInv'
BY MatchSearch, MatchLock, MatchRead, MatchWrite, MatchIterate, MatchCollect, MatchGate,
   MatchRows, MatchSolve DEF Match!Next, Match!Thread, Match!Main

(* A row is of one residual or of one coordinate of the fix.               *)
LEMMA MatchMeaning ==
  ASSUME MatchInv
  PROVE  Match!MatchesKept /\ Match!RowsFilled /\ Match!CovarianceOnce
<1>1. Match!MatchesKept
  BY InOrderLists, SameOperators DEF MatchInv, MatchTypeOK, ListComplete, Match!MatchesKept
<1>2. Match!RowsFilled
  <2> SUFFICES ASSUME lidarPc = "solve"
               PROVE  /\ \A i \in DOMAIN rows : rows[i][1] \in {"lidar", "rtk"}
                      /\ Cardinality(Range(rows)) = effct_feat_num
    BY SameOperators DEF Match!RowsFilled
  <2>1. /\ Len(ptpl_list) \in Nat /\ ptpl_list \in Seq(Nat)
        /\ \A i, j \in 1..Len(ptpl_list) : ptpl_list[i] = ptpl_list[j] => i = j
    BY InOrderLists DEF MatchInv, MatchTypeOK, ListComplete
  <2>2. effct_feat_num \in Nat
    BY <2>1 DEF MatchInv, RowsCounted
  <2>3. /\ DOMAIN rows = 1..effct_feat_num
        /\ \A i \in 1..effct_feat_num :
             rows[i] = IF i <= Len(ptpl_list) THEN <<"lidar", ptpl_list[i]>>
                       ELSE <<"rtk", i - Len(ptpl_list)>>
    BY DEF MatchInv, RowsWritten
  <2>4. \A i, j \in 1..effct_feat_num : rows[i] = rows[j] => i = j
    <3> SUFFICES ASSUME NEW i \in 1..effct_feat_num, NEW j \in 1..effct_feat_num,
                        rows[i] = rows[j]
                 PROVE  i = j
      OBVIOUS
    <3>1. i \in Nat /\ j \in Nat /\ i >= 1 /\ j >= 1
      BY <2>2
    <3>2. CASE i <= Len(ptpl_list) /\ j <= Len(ptpl_list)
      <4>1. ptpl_list[i] = ptpl_list[j]
        BY <2>3, <3>2
      <4> QED
        BY <2>1, <3>1, <3>2, <4>1
    <3>3. CASE ~ (i <= Len(ptpl_list)) /\ ~ (j <= Len(ptpl_list))
      <4>1. i - Len(ptpl_list) = j - Len(ptpl_list)
        BY <2>3, <3>3
      <4> QED
        BY <2>1, <3>1, <4>1
    <3>4. CASE i <= Len(ptpl_list) /\ ~ (j <= Len(ptpl_list))
      <4>1. rows[i][1] = "lidar" /\ rows[j][1] = "rtk"
        BY <2>3, <3>4
      <4> QED
        BY <4>1
    <3>5. CASE ~ (i <= Len(ptpl_list)) /\ j <= Len(ptpl_list)
      <4>1. rows[j][1] = "lidar" /\ rows[i][1] = "rtk"
        BY <2>3, <3>5
      <4> QED
        BY <4>1
    <3> QED
      BY <3>2, <3>3, <3>4, <3>5
  <2>5. rows \in Bijection(1..effct_feat_num, Range(rows))
    <3>1. rows \in [1..effct_feat_num -> Range(rows)]
      <4>1. rows = [i \in 1..effct_feat_num |-> rows[i]]
        BY DEF MatchInv, RowsWritten
      <4> QED
        BY <2>3, <4>1 DEF Range
    <3>2. \A r \in Range(rows) : \E i \in 1..effct_feat_num : rows[i] = r
      BY <2>3 DEF Range
    <3> QED
      BY <2>3, <2>4, <3>1, <3>2 DEF Bijection, Injection, Surjection, IsInjective
  <2>6. Cardinality(Range(rows)) = effct_feat_num
    <3>1. ExistsBijection(1..effct_feat_num, Range(rows))
      BY <2>5 DEF ExistsBijection
    <3> QED
      BY <2>2, <3>1, FS_CountingElements
  <2> QED
    BY <2>3, <2>6
<1>3. Match!CovarianceOnce
  BY DEF MatchInv, UpdatedOnce, Match!CovarianceOnce
<1> QED
  BY <1>1, <1>2, <1>3

-------------------------------------------------------------------------------
(* Whatever moves, the update stays as it is unless it is the part.        *)
LEMMA MatchPart ==
  ASSUME part = "match" => MatchInv, [OdometryNext]_allVars
  PROVE  (part = "match" => MatchInv)'
<1>1. part' = part
  BY DEF OdometryNext, Only, Rests, allVars
<1>2. CASE part = "match"
  <2>1. Match!Next \/ UNCHANGED lidarVars
    <3>1. ASSUME NEW g \in Groups \ {"lidar"}, Only(g) PROVE UNCHANGED lidarVars
      <4>1. Still("lidar")
        BY <3>1 DEF Only, Groups
      <4> QED
        BY <4>1 DEF Still
    <3>2. {"voxels", "map", "visual", "window", "preprocess", "modes"} \subseteq Groups \ {"lidar"}
      BY DEF Groups
    <3>3. UNCHANGED allVars => UNCHANGED lidarVars
      BY DEF allVars
    <3> QED
      BY <3>1, <3>2, <3>3 DEF OdometryNext, Rests
  <2> QED
    BY <1>1, <1>2, <2>1, MatchStep, MatchStill
<1> QED
  BY <1>1, <1>2

(* StateEstimation: no match is lost between the threads that write bits   *)
(* of one word, every row of the measurement is filled once, and the       *)
(* covariance is updated once, with the measurement the state was.         *)
THEOREM MeasurementIsComplete == OdometrySpec => []MeasurementComplete
<1>1. OdometryInit => (part = "match" => MatchInv)
  BY MatchInitially DEF OdometryInit
<1>2. (part = "match" => MatchInv) /\ [OdometryNext]_allVars => (part = "match" => MatchInv)'
  BY MatchPart
<1>3. (part = "match" => MatchInv) => MeasurementComplete
  BY MatchMeaning DEF MeasurementComplete
<1> QED
  BY <1>1, <1>2, <1>3, PTL DEF OdometrySpec

LEMMA LeastMember ==
  ASSUME NEW T \in SUBSET Nat, T # {}
  PROVE  \E n \in T : \A m \in T : n <= m
<1> DEFINE Less == OpToRel(<, Nat)
<1>1. \E x \in T : \A y \in T : ~ (<<y, x>> \in Less)
  BY NatLessThanWellFounded, WFMin
<1>2. \A x, y \in T : y < x => <<y, x>> \in Less
  BY DEF OpToRel
<1> HIDE DEF Less
<1>3. PICK x \in T : \A y \in T : ~ (<<y, x>> \in Less)
  BY <1>1
<1>4. \A y \in T : ~ (y < x)
  BY <1>2, <1>3, Zenon
<1>5. \A y \in T : x <= y
  BY <1>4
<1> QED
  BY <1>5

(***************************************************************************)
(* Scans without a camera                                                  *)
(***************************************************************************)

(* The settings of a mode, and the scans it stores.                        *)
WithImu(p) == ModeSettings[p].mode = "ONLY_LIO"
ScanOf(p) ==
  {s \in [head : ModeSettings[p].scans, size : ModeSettings[p].sizes, last : Nat] :
     /\ s.last = IF s.size > 1 THEN ModeSettings[p].span ELSE 0
     /\ s.size > 0 \/ ModeSettings[p].stores_empty}

FrontTyped(p) ==
  /\ lid_raw \in Seq(ScanOf(p)) /\ lid_header \in Seq(Nat)
  /\ last_lidar \in ModeSettings[p].scans \cup {-1}
  /\ delivered \in Seq(Nat) /\ handled \in Seq([head : Nat, beg : Nat])
  /\ imu_buffer \in Seq(ModeSettings[p].imus)
  /\ last_imu_stamp \in ModeSettings[p].imus \cup {-1}
  /\ meas.imu \in Seq(ModeSettings[p].imus) /\ meas.end \in Nat
  /\ lidar_pushed \in BOOLEAN /\ step \in {"spin", "process", "undefined"}
  /\ imu_need_init \in BOOLEAN /\ init_iter_num \in Nat \ {0}
  /\ last_imu \in Nat /\ last_prop_end \in Nat

(* The buffers: a scan with its header, scans and messages in order.       *)
ScansInOrder(p) ==
  /\ Len(lid_raw) = Len(lid_header)
  /\ \A i \in DOMAIN lid_raw : lid_header[i] = lid_raw[i].head /\ lid_raw[i].head <= last_lidar
  /\ \A i, j \in DOMAIN lid_raw : i < j => lid_raw[i].head < lid_raw[j].head
ImusInOrder(p) ==
  /\ \A i \in DOMAIN imu_buffer : imu_buffer[i] <= last_imu_stamp
  /\ \A i, j \in DOMAIN imu_buffer : i < j => imu_buffer[i] < imu_buffer[j]
  /\ ~WithImu(p) => imu_buffer = <<>>

(* A scan that waits for the IMU has an interval and is still buffered.    *)
ScanWaits(p) ==
  lidar_pushed =>
    /\ step = "spin" /\ WithImu(p) /\ lid_raw # <<>>
    /\ Head(lid_raw).size > 1 /\ meas = Front(p)!HeadScan

(* A scan in work: its keyframe is stamped with its end, which is not      *)
(* after the end any later scan has.                                       *)
ScanInWork(p) ==
  step = "process" =>
    /\ \A i \in DOMAIN meas.imu : meas.imu[i] <= meas.end
    /\ WithImu(p) =>
         /\ keyframe_time = meas.end /\ meas.end <= last_imu_stamp
         /\ \A i \in DOMAIN imu_buffer : imu_buffer[i] > meas.end
         /\ meas.end <= last_lidar + ModeSettings[p].span
         /\ \A i \in DOMAIN lid_raw : meas.end <= lid_raw[i].head + ModeSettings[p].span

(* The propagation has used no message after the end of a later scan, and  *)
(* after its first step those still to come follow its end.                *)
ImuBehind(p) ==
  WithImu(p) =>
    /\ last_imu <= last_lidar + ModeSettings[p].span
    /\ \A i \in DOMAIN lid_raw : last_imu <= lid_raw[i].head + ModeSettings[p].span
    /\ step = "process" => last_imu <= meas.end
Propagated(p) ==
  lio # Front(p)!NoLio =>
    /\ WithImu(p) /\ ~imu_need_init
    /\ last_imu <= last_prop_end /\ last_prop_end <= last_imu_stamp
    /\ \A i \in DOMAIN imu_buffer : last_prop_end < imu_buffer[i]
    /\ step = "process" => \A i \in DOMAIN meas.imu : last_prop_end < meas.imu[i]

FrontInv(p) ==
  /\ FrontTyped(p) /\ ScansInOrder(p) /\ ImusInOrder(p) /\ ScanWaits(p) /\ ScanInWork(p)
  /\ ImuBehind(p) /\ Propagated(p)
  /\ Front(p)!ScansConserved /\ Front(p)!MotionCovered
  /\ WithImu(p) => Front(p)!KeyframeStamped
  /\ step = "undefined" => ~WithImu(p) /\ ModeSettings[p].stores_empty
FrontKept == \A q \in Modes : part = q => FrontInv(q)

-----------------------------------------------------------------------------
LEMMA ModeConstants ==
  ASSUME NEW p \in Modes
  PROVE  /\ ModeSettings[p].mode \in {"ONLY_LIO", "ONLY_LO"}
         /\ ModeSettings[p].stores_empty \in BOOLEAN
         /\ ModeSettings[p].scans \subseteq Nat \ {0} /\ ModeSettings[p].imus \subseteq Nat \ {0}
         /\ ModeSettings[p].sizes \subseteq Nat /\ ModeSettings[p].span \in Nat \ {0}
         /\ ModeSettings[p].ini_count \in Nat \ {0}
BY InputsAssumption DEF Front!FrontEndModesAssumption

LEMMA FrontStarts ==
  ASSUME NEW p \in Modes, Front(p)!Init
  PROVE  FrontInv(p)
<1>1. /\ lid_raw = <<>> /\ lid_header = <<>> /\ last_lidar = -1 /\ delivered = <<>>
      /\ imu_buffer = <<>> /\ last_imu_stamp = -1
      /\ lidar_pushed = FALSE /\ keyframe_time = 0 /\ handled = <<>>
      /\ meas.end = 0 /\ meas.imu = <<>> /\ step = "spin" /\ imu_need_init \in BOOLEAN
      /\ init_iter_num = 1 /\ last_imu = 0 /\ last_prop_end \in Nat
      /\ published = [stamp |-> 0, cloud |-> 0] /\ lio = Front(p)!NoLio
  BY DEF Front!Init
<1>2. lio.follows = FALSE
  BY <1>1 DEF Front!NoLio
<1>3. Front(p)!ScansConserved /\ Front(p)!MotionCovered /\ Front(p)!KeyframeStamped
  <2>1. Front(p)!ScansConserved
    <3>1. [i \in DOMAIN handled |-> handled[i].head] = <<>>
      BY <1>1
    <3>2. [i \in DOMAIN lid_raw |-> lid_raw[i].head] = <<>>
      BY <1>1
    <3> QED
      BY <1>1, <3>1, <3>2 DEF Front!ScansConserved
  <2> QED
    BY <1>1, <1>2, <2>1 DEF Front!MotionCovered, Front!KeyframeStamped
<1>4. FrontTyped(p)
  <2>1. /\ <<>> \in Seq(ScanOf(p)) /\ <<>> \in Seq(Nat) /\ <<>> \in Seq([head : Nat, beg : Nat])
        /\ <<>> \in Seq(ModeSettings[p].imus)
    BY EmptySeq
  <2>2. 0 \in Nat /\ 1 \in Nat \ {0}
    OBVIOUS
  <2> QED
    BY <1>1, <2>1, <2>2, Zenon DEF FrontTyped
<1> QED
  BY <1>1, <1>3, <1>4, ModeConstants
     DEF FrontInv, ScansInOrder, ImusInOrder, ScanWaits, ScanInWork, ImuBehind, Propagated

-----------------------------------------------------------------------------
(* Sequences: appending behind a join, and moving the head of its second   *)
(* part to the end of the first.                                           *)
LEMMA AppendBehind ==
  \A a, b \in Seq(Nat), e \in Nat : Append(a \o b, e) = a \o Append(b, e)
<1> TAKE a, b \in Seq(Nat), e \in Nat
<1>1. /\ a \o b \in Seq(Nat) /\ <<e>> \in Seq(Nat)
      /\ Append(a \o b, e) = (a \o b) \o <<e>> /\ Append(b, e) = b \o <<e>>
  BY AppendIsConcat, ConcatProperties
<1> QED
  BY <1>1, ConcatAssociative

LEMMA HeadMoves ==
  \A a, b \in Seq(Nat) : b # <<>> => a \o b = Append(a, Head(b)) \o Tail(b)
<1> DEFINE S == Nat
<1> SUFFICES ASSUME NEW a \in Seq(S), NEW b \in Seq(S), b # <<>>
             PROVE  a \o b = Append(a, Head(b)) \o Tail(b)
  OBVIOUS
<1>1. /\ Head(b) \in S /\ Tail(b) \in Seq(S) /\ <<Head(b)>> \in Seq(S)
      /\ b = <<Head(b)>> \o Tail(b)
  <2>1. Head(b) \in S /\ Tail(b) \in Seq(S) /\ Len(b) \in Nat \ {0}
        /\ Len(Tail(b)) = Len(b) - 1 /\ \A i \in 1 .. Len(Tail(b)) : Tail(b)[i] = b[i + 1]
    BY HeadTailProperties, EmptySeq
  <2>2. <<Head(b)>> \in Seq(S) /\ Len(<<Head(b)>>) = 1 /\ <<Head(b)>>[1] = b[1]
    BY <2>1
  <2>3. /\ <<Head(b)>> \o Tail(b) \in Seq(S) /\ Len(<<Head(b)>> \o Tail(b)) = Len(b)
        /\ \A i \in 1 .. Len(b) : (<<Head(b)>> \o Tail(b))[i] =
                     IF i <= 1 THEN <<Head(b)>>[i] ELSE Tail(b)[i - 1]
    BY <2>1, <2>2, ConcatProperties
  <2>4. \A i \in 1 .. Len(b) : (<<Head(b)>> \o Tail(b))[i] = b[i]
    <3> SUFFICES ASSUME NEW i \in 1 .. Len(b) PROVE (<<Head(b)>> \o Tail(b))[i] = b[i]
      OBVIOUS
    <3>1. CASE i = 1
      BY <2>1, <2>2, <2>3, <3>1
    <3>2. CASE i # 1
      <4>1. i - 1 \in 1 .. Len(Tail(b)) /\ ~ (i <= 1) /\ i - 1 + 1 = i
        BY <2>1, <3>2
      <4> QED
        BY <2>1, <2>3, <4>1
    <3> QED
      BY <3>1, <3>2
  <2> QED
    BY <2>1, <2>2, <2>3, <2>4, SeqEqual
<1>2. Append(a, Head(b)) = a \o <<Head(b)>>
  BY <1>1, AppendIsConcat
<1>3. (a \o <<Head(b)>>) \o Tail(b) = a \o (<<Head(b)>> \o Tail(b))
  BY <1>1, ConcatAssociative
<1> QED
  BY <1>1, <1>2, <1>3

(* The times at the head of the scans of a buffer.                         *)
Heads(s) == [i \in DOMAIN s |-> s[i].head]

LEMMA HeadsOfAppend ==
  ASSUME NEW R, \A r \in R : r.head \in Nat, NEW s \in Seq(R), NEW e \in R
  PROVE  Heads(s) \in Seq(Nat) /\ Heads(Append(s, e)) = Append(Heads(s), e.head)
<1>1. Heads(s) \in Seq(Nat) /\ Len(Heads(s)) = Len(s)
      /\ \A i \in 1 .. Len(s) : Heads(s)[i] = s[i].head
  BY DEF Heads
<1>2. /\ Append(s, e) \in Seq(R) /\ Len(Append(s, e)) = Len(s) + 1
      /\ \A i \in 1 .. Len(s) : Append(s, e)[i] = s[i]
      /\ Append(s, e)[Len(s) + 1] = e
  BY AppendProperties
<1>3. /\ Heads(Append(s, e)) \in Seq(Nat) /\ Len(Heads(Append(s, e))) = Len(s) + 1
      /\ \A i \in 1 .. Len(s) + 1 : Heads(Append(s, e))[i] = Append(s, e)[i].head
  BY <1>2 DEF Heads
<1>4. /\ Append(Heads(s), e.head) \in Seq(Nat) /\ Len(Append(Heads(s), e.head)) = Len(s) + 1
      /\ \A i \in 1 .. Len(s) : Append(Heads(s), e.head)[i] = s[i].head
      /\ Append(Heads(s), e.head)[Len(s) + 1] = e.head
  BY <1>1, AppendProperties
<1>5. \A i \in 1 .. Len(s) + 1 : Heads(Append(s, e))[i] = Append(Heads(s), e.head)[i]
  <2> SUFFICES ASSUME NEW i \in 1 .. Len(s) + 1
               PROVE  Heads(Append(s, e))[i] = Append(Heads(s), e.head)[i]
    OBVIOUS
  <2>1. i \in 1 .. Len(s) \/ i = Len(s) + 1
    OBVIOUS
  <2>2. Heads(Append(s, e))[i] = Append(s, e)[i].head
    BY <1>3
  <2> QED
    BY <1>2, <1>4, <2>1, <2>2
<1> QED
  BY <1>1, <1>3, <1>4, <1>5, SeqEqual

LEMMA HeadsOfTail ==
  ASSUME NEW R, \A r \in R : r.head \in Nat, NEW s \in Seq(R), s # <<>>
  PROVE  /\ Heads(s) \in Seq(Nat) /\ Heads(s) # <<>> /\ Head(Heads(s)) = Head(s).head
         /\ Heads(Tail(s)) = Tail(Heads(s))
<1>1. Heads(s) \in Seq(Nat) /\ Len(Heads(s)) = Len(s) /\ Len(s) \in Nat \ {0}
      /\ \A i \in 1 .. Len(s) : Heads(s)[i] = s[i].head
  BY DEF Heads
<1>2. /\ Tail(s) \in Seq(R) /\ Len(Tail(s)) = Len(s) - 1
      /\ \A i \in 1 .. Len(Tail(s)) : Tail(s)[i] = s[i + 1]
  BY HeadTailProperties
<1>3. /\ Tail(Heads(s)) \in Seq(Nat) /\ Len(Tail(Heads(s))) = Len(s) - 1
      /\ \A i \in 1 .. Len(Tail(s)) : Tail(Heads(s))[i] = s[i + 1].head
  BY <1>1, <1>2, HeadTailProperties
<1>4. /\ Heads(Tail(s)) \in Seq(Nat) /\ Len(Heads(Tail(s))) = Len(s) - 1
      /\ \A i \in 1 .. Len(Tail(s)) : Heads(Tail(s))[i] = s[i + 1].head
  BY <1>2 DEF Heads
<1>5. Heads(Tail(s)) = Tail(Heads(s))
  <2>1. /\ Len(Heads(Tail(s))) = Len(Tail(Heads(s)))
        /\ \A i \in 1 .. Len(Heads(Tail(s))) : Heads(Tail(s))[i] = Tail(Heads(s))[i]
    BY <1>2, <1>3, <1>4
  <2> QED
    BY <1>3, <1>4, <2>1, SeqEqual
<1>6. Head(Heads(s)) = Head(s).head /\ Heads(s) # <<>>
  BY <1>1
<1> QED
  BY <1>1, <1>5, <1>6

-----------------------------------------------------------------------------
LEMMA LidarCallbackKeeps ==
  ASSUME NEW p \in Modes, FrontInv(p), Front(p)!LidarCallback
  PROVE  FrontInv(p)'
<1> DEFINE span == ModeSettings[p].span
<1>1. PICK head \in ModeSettings[p].scans, size \in ModeSettings[p].sizes :
        /\ size > 0 \/ ModeSettings[p].stores_empty
        /\ lid_raw' = Append(lid_raw, [head |-> head, size |-> size,
                                       last |-> IF size > 1 THEN span ELSE 0])
        /\ delivered' = Append(delivered, head) /\ lid_header' = Append(lid_header, head)
        /\ last_lidar' = head /\ head > last_lidar
  BY DEF Front!LidarCallback, Front!Stored
<1>2. /\ step = "spin"
      /\ UNCHANGED <<imu_buffer, last_imu_stamp, lidar_pushed, meas, keyframe_time, handled,
                     step, imu_need_init, init_iter_num, last_imu, last_prop_end,
                     time_last_scan, published, lio>>
  BY DEF Front!LidarCallback, Front!imuBufferVars, Front!syncVars, Front!imuVars
<1> DEFINE scan0 == [head |-> head, size |-> size, last |-> IF size > 1 THEN span ELSE 0]
<1>3. /\ scan0 \in ScanOf(p) /\ head \in Nat /\ scan0.head = head
      /\ lid_raw \in Seq(ScanOf(p)) /\ lid_header \in Seq(Nat) /\ delivered \in Seq(Nat)
      /\ \A r \in ScanOf(p) : r.head \in Nat
      /\ last_lidar \in Int /\ last_imu \in Nat /\ span \in Nat
  <2>1. scan0 \in ScanOf(p) /\ head \in Nat /\ scan0.head = head /\ span \in Nat
    BY <1>1, ModeConstants DEF ScanOf
  <2>2. \A r \in ScanOf(p) : r.head \in Nat
    BY ModeConstants DEF ScanOf
  <2>3. /\ lid_raw \in Seq(ScanOf(p)) /\ lid_header \in Seq(Nat) /\ delivered \in Seq(Nat)
        /\ last_lidar \in ModeSettings[p].scans \cup {-1} /\ last_imu \in Nat
    BY DEF FrontInv, FrontTyped
  <2>4. last_lidar \in Int
    BY <2>3, ModeConstants
  <2> QED
    BY <2>1, <2>2, <2>3, <2>4
<1> DEFINE n == Len(lid_raw)
<1>4. /\ n \in Nat /\ Len(lid_header) = n
      /\ lid_raw' \in Seq(ScanOf(p)) /\ Len(lid_raw') = n + 1 /\ lid_raw'[n + 1] = scan0
      /\ \A i \in 1 .. n : lid_raw'[i] = lid_raw[i]
      /\ lid_header' \in Seq(Nat) /\ Len(lid_header') = n + 1 /\ lid_header'[n + 1] = head
      /\ \A i \in 1 .. n : lid_header'[i] = lid_header[i]
      /\ delivered' \in Seq(Nat)
  BY <1>1, <1>3, AppendProperties DEF FrontInv, ScansInOrder
<1> HIDE DEF scan0
<1>5. DOMAIN lid_raw = 1 .. n /\ DOMAIN lid_raw' = 1 .. n + 1
      /\ \A i \in 1 .. n + 1 : i \in 1 .. n \/ i = n + 1
  BY <1>3, <1>4
<1>6. FrontTyped(p)'
  BY <1>1, <1>2, <1>4 DEF FrontInv, FrontTyped
<1>7. \A i \in 1 .. n : /\ lid_raw[i] \in ScanOf(p) /\ lid_raw[i].head \in Nat
                        /\ lid_raw[i].head <= last_lidar /\ lid_raw[i].head < head
                        /\ lid_header[i] = lid_raw[i].head
  BY <1>1, <1>3, <1>5, ElementOfSeq DEF FrontInv, ScansInOrder
<1>8. ScansInOrder(p)'
  <2>1. \A i \in 1 .. n + 1 : lid_header'[i] = lid_raw'[i].head /\ lid_raw'[i].head <= head
    <3> SUFFICES ASSUME NEW i \in 1 .. n + 1
                 PROVE  lid_header'[i] = lid_raw'[i].head /\ lid_raw'[i].head <= head
      OBVIOUS
    <3>1. CASE i = n + 1
      BY <1>3, <1>4, <3>1
    <3>2. CASE i \in 1 .. n
      <4>1. lid_raw'[i] = lid_raw[i] /\ lid_header'[i] = lid_header[i]
        BY <1>4, <3>2
      <4>2. /\ lid_raw[i].head \in Nat /\ lid_raw[i].head < head
            /\ lid_header[i] = lid_raw[i].head
        BY <1>7, <3>2
      <4> QED
        BY <1>3, <4>1, <4>2
    <3> QED
      BY <1>5, <3>1, <3>2
  <2>2. \A i, j \in 1 .. n + 1 : i < j => lid_raw'[i].head < lid_raw'[j].head
    <3> SUFFICES ASSUME NEW i \in 1 .. n + 1, NEW j \in 1 .. n + 1, i < j
                 PROVE  lid_raw'[i].head < lid_raw'[j].head
      OBVIOUS
    <3>1. i \in 1 .. n
      BY <1>4
    <3>2. CASE j = n + 1
      BY <1>3, <1>4, <1>7, <3>1, <3>2
    <3>3. CASE j \in 1 .. n
      BY <1>4, <1>5, <3>1, <3>3 DEF FrontInv, ScansInOrder
    <3> QED
      BY <1>5, <3>2, <3>3
  <2> QED
    BY <1>1, <1>4, <1>5, <2>1, <2>2 DEF ScansInOrder
<1>9. ImusInOrder(p)' /\ Propagated(p)' /\ ScanInWork(p)'
  BY <1>2 DEF FrontInv, ImusInOrder, Propagated, ScanInWork, Front!NoLio
<1>10. ScanWaits(p)'
  <2> SUFFICES ASSUME lidar_pushed
               PROVE  /\ lid_raw' # <<>> /\ Head(lid_raw').size > 1
                      /\ meas = (Front(p)!HeadScan)'
    BY <1>2 DEF FrontInv, ScanWaits
  <2>1. lid_raw # <<>> /\ 1 \in 1 .. n
    BY <1>3, <1>4 DEF FrontInv, ScanWaits
  <2>2. Head(lid_raw') = Head(lid_raw) /\ Head(lid_header') = Head(lid_header) /\ lid_raw' # <<>>
    BY <1>3, <1>4, <2>1
  <2> QED
    BY <2>2 DEF FrontInv, ScanWaits, Front!HeadScan
<1>11. ImuBehind(p)'
  <2> SUFFICES ASSUME WithImu(p)
               PROVE  /\ last_imu <= head + span
                      /\ \A i \in 1 .. n + 1 : last_imu <= lid_raw'[i].head + span
    BY <1>1, <1>2, <1>5 DEF ImuBehind
  <2>1. last_imu <= last_lidar + span /\ \A i \in 1 .. n : last_imu <= lid_raw[i].head + span
    BY <1>5 DEF FrontInv, ImuBehind
  <2>2. last_imu <= head + span
    BY <1>1, <1>3, <2>1
  <2> QED
    BY <1>3, <1>4, <1>5, <2>1, <2>2
<1>12. Front(p)!ScansConserved'
  <2>1. Heads(lid_raw') = Append(Heads(lid_raw), head) /\ Heads(lid_raw) \in Seq(Nat)
    BY <1>1, <1>3, HeadsOfAppend DEF scan0
  <2>2. Heads(handled) \in Seq(Nat) /\ handled' = handled
    <3>1. handled \in Seq([head : Nat, beg : Nat])
      BY DEF FrontInv, FrontTyped
    <3>2. \A i \in 1 .. Len(handled) : handled[i].head \in Nat
      <4>1. \A i \in 1 .. Len(handled) : handled[i] \in [head : Nat, beg : Nat]
        BY <3>1, ElementOfSeq
      <4> QED
        BY <4>1
    <3> QED
      BY <1>2, <3>1, <3>2 DEF Heads
  <2>3. delivered = Heads(handled) \o Heads(lid_raw)
        /\ \A i \in DOMAIN handled : handled[i].beg = handled[i].head
    BY DEF FrontInv, Front!ScansConserved, Heads
  <2>4. delivered' = Heads(handled) \o Append(Heads(lid_raw), head)
    <3>1. Append(Heads(handled) \o Heads(lid_raw), head)
            = Heads(handled) \o Append(Heads(lid_raw), head)
      <4>1. head \in Nat /\ Heads(handled) \in Seq(Nat) /\ Heads(lid_raw) \in Seq(Nat)
        BY <1>3, <2>1, <2>2
      <4> QED
        BY <4>1, AppendBehind
    <3> QED
      BY <1>1, <2>3, <3>1
  <2> QED
    BY <2>1, <2>2, <2>3, <2>4 DEF Front!ScansConserved, Heads
<1>13. Front(p)!MotionCovered' /\ (WithImu(p) => Front(p)!KeyframeStamped)'
       /\ (step = "undefined" => ~WithImu(p) /\ ModeSettings[p].stores_empty)'
  BY <1>2 DEF FrontInv, Front!MotionCovered, Front!KeyframeStamped, WithImu
<1> QED
  BY <1>6, <1>8, <1>9, <1>10, <1>11, <1>12, <1>13 DEF FrontInv, WithImu

LEMMA ImuCallbackKeeps ==
  ASSUME NEW p \in Modes, FrontInv(p), Front(p)!ImuCallback
  PROVE  FrontInv(p)'
<1>1. PICK stamp \in ModeSettings[p].imus :
        /\ stamp > last_imu_stamp /\ imu_buffer' = Append(imu_buffer, stamp)
        /\ last_imu_stamp' = stamp
  BY DEF Front!ImuCallback
<1>2. /\ step = "spin" /\ WithImu(p)
      /\ UNCHANGED <<lid_raw, lid_header, last_lidar, delivered, lidar_pushed, meas,
                     keyframe_time, handled, step, imu_need_init, init_iter_num, last_imu,
                     last_prop_end, time_last_scan, published, lio>>
  BY DEF Front!ImuCallback, Front!lidarVars, Front!syncVars, Front!imuVars, WithImu
<1> DEFINE n == Len(imu_buffer)
<1>3. /\ imu_buffer \in Seq(ModeSettings[p].imus) /\ n \in Nat /\ stamp \in Nat
      /\ ModeSettings[p].imus \subseteq Nat /\ last_imu_stamp \in Int
  BY ModeConstants DEF FrontInv, FrontTyped
<1>4. /\ imu_buffer' \in Seq(ModeSettings[p].imus) /\ Len(imu_buffer') = n + 1
      /\ imu_buffer'[n + 1] = stamp /\ \A i \in 1 .. n : imu_buffer'[i] = imu_buffer[i]
  BY <1>1, <1>3, AppendProperties
<1>5. DOMAIN imu_buffer = 1 .. n /\ DOMAIN imu_buffer' = 1 .. n + 1
      /\ \A i \in 1 .. n + 1 : i \in 1 .. n \/ i = n + 1
  BY <1>3, <1>4
<1>6. \A i \in 1 .. n : imu_buffer[i] \in Nat /\ imu_buffer[i] < stamp
  BY <1>1, <1>3, <1>5 DEF FrontInv, ImusInOrder
<1>7. FrontTyped(p)'
  BY <1>1, <1>2, <1>4 DEF FrontInv, FrontTyped
<1>8. ImusInOrder(p)'
  <2>1. \A i, j \in 1 .. n + 1 : i < j => imu_buffer'[i] < imu_buffer'[j]
    <3> SUFFICES ASSUME NEW i \in 1 .. n + 1, NEW j \in 1 .. n + 1, i < j
                 PROVE  imu_buffer'[i] < imu_buffer'[j]
      OBVIOUS
    <3>1. i \in 1 .. n
      BY <1>3
    <3> QED
      BY <1>4, <1>5, <1>6, <3>1 DEF FrontInv, ImusInOrder
  <2> QED
    BY <1>1, <1>2, <1>3, <1>4, <1>5, <1>6, <2>1 DEF ImusInOrder, WithImu
<1>9. ScansInOrder(p)' /\ ScanWaits(p)' /\ ScanInWork(p)' /\ ImuBehind(p)'
  BY <1>2 DEF FrontInv, ScansInOrder, ScanWaits, ScanInWork, ImuBehind, WithImu, Front!HeadScan
<1>10. Propagated(p)'
  <2> SUFFICES ASSUME lio # Front(p)!NoLio
               PROVE  /\ ~imu_need_init /\ last_imu <= last_prop_end /\ last_prop_end <= stamp
                      /\ \A i \in 1 .. n + 1 : last_prop_end < imu_buffer'[i]
    BY <1>1, <1>2, <1>5 DEF Propagated, WithImu, Front!NoLio
  <2>1. /\ ~imu_need_init /\ last_imu <= last_prop_end /\ last_prop_end <= last_imu_stamp
        /\ \A i \in 1 .. n : last_prop_end < imu_buffer[i]
        /\ last_prop_end \in Nat
    BY <1>5 DEF FrontInv, FrontTyped, Propagated
  <2> QED
    BY <1>1, <1>3, <1>4, <1>5, <2>1
<1>11. Front(p)!ScansConserved' /\ Front(p)!MotionCovered'
       /\ (WithImu(p) => Front(p)!KeyframeStamped)'
       /\ (step = "undefined" => ~WithImu(p) /\ ModeSettings[p].stores_empty)'
  BY <1>2 DEF FrontInv, Front!ScansConserved, Front!MotionCovered, Front!KeyframeStamped, WithImu
<1> QED
  BY <1>7, <1>8, <1>9, <1>10, <1>11 DEF FrontInv

-----------------------------------------------------------------------------
(* The scan at the head of the buffer, in meas already or not.             *)
LEMMA HeadOfBuffer ==
  ASSUME NEW p \in Modes, FrontInv(p), lid_raw # <<>>
  PROVE  /\ Head(lid_raw) \in ScanOf(p) /\ Head(lid_raw).head \in Nat \ {0}
         /\ Head(lid_raw).last \in Nat /\ Head(lid_header) = Head(lid_raw).head
         /\ Head(lid_raw).size > 1 => Head(lid_raw).last = ModeSettings[p].span
         /\ Head(lid_raw).size \in Nat
         /\ Head(lid_raw).size > 0 \/ ModeSettings[p].stores_empty
         /\ Head(lid_raw) = lid_raw[1] /\ 1 \in DOMAIN lid_raw
<1>1. /\ lid_raw \in Seq(ScanOf(p)) /\ lid_header \in Seq(Nat) /\ Len(lid_raw) = Len(lid_header)
      /\ \A i \in DOMAIN lid_raw : lid_header[i] = lid_raw[i].head
  BY DEF FrontInv, FrontTyped, ScansInOrder
<1>2. /\ Len(lid_raw) \in Nat \ {0} /\ 1 \in DOMAIN lid_raw /\ Head(lid_raw) = lid_raw[1]
      /\ Head(lid_header) = lid_header[1] /\ Head(lid_raw) \in ScanOf(p)
  BY <1>1
<1>3. \A r \in ScanOf(p) :
        /\ r.head \in Nat \ {0} /\ r.last \in Nat /\ r.size \in Nat
        /\ r.size > 1 => r.last = ModeSettings[p].span
        /\ r.size > 0 \/ ModeSettings[p].stores_empty
  BY ModeConstants DEF ScanOf
<1> QED
  BY <1>1, <1>2, <1>3

LEMMA CurrentScan ==
  ASSUME NEW p \in Modes, FrontInv(p), Front(p)!LioReady
  PROVE  /\ Front(p)!Current = Front(p)!HeadScan
         /\ Front(p)!Current.scan = Head(lid_raw) /\ Front(p)!Current.beg = Head(lid_header)
         /\ Front(p)!Current.imu = <<>>
         /\ Front(p)!Current.end = Head(lid_raw).head + ModeSettings[p].span
         /\ lid_raw # <<>> /\ Head(lid_raw).size > 1 /\ step = "spin" /\ WithImu(p)
<1>1. /\ lid_raw # <<>> /\ step = "spin" /\ WithImu(p)
      /\ lidar_pushed \/ Head(lid_raw).size > 1
  BY DEF Front!LioReady, WithImu
<1>2. Head(lid_raw).size > 1 /\ Front(p)!Current = Front(p)!HeadScan
  BY <1>1 DEF FrontInv, ScanWaits, Front!Current
<1> QED
  BY <1>1, <1>2, HeadOfBuffer DEF Front!HeadScan

(* What is left in the buffer is later than the scan that is popped.       *)
LEMMA ScanPopped ==
  ASSUME NEW p \in Modes, FrontInv(p), lid_raw # <<>>, Front(p)!PopScan
  PROVE  /\ lid_raw' \in Seq(ScanOf(p)) /\ lid_header' \in Seq(Nat) /\ ScansInOrder(p)'
         /\ \A i \in DOMAIN lid_raw' :
              /\ i + 1 \in DOMAIN lid_raw /\ lid_raw'[i] = lid_raw[i + 1]
              /\ lid_raw'[i].head \in Nat /\ Head(lid_raw).head < lid_raw'[i].head
<1>1. /\ lid_raw \in Seq(ScanOf(p)) /\ lid_header \in Seq(Nat) /\ Len(lid_raw) = Len(lid_header)
      /\ \A i \in DOMAIN lid_raw : lid_header[i] = lid_raw[i].head /\ lid_raw[i].head <= last_lidar
      /\ \A i, j \in DOMAIN lid_raw : i < j => lid_raw[i].head < lid_raw[j].head
  BY DEF FrontInv, FrontTyped, ScansInOrder
<1>2. lid_raw' = Tail(lid_raw) /\ lid_header' = Tail(lid_header) /\ last_lidar' = last_lidar
  BY DEF Front!PopScan
<1> DEFINE n == Len(lid_raw)
<1>3. /\ n \in Nat \ {0} /\ DOMAIN lid_raw = 1 .. n /\ lid_header # <<>>
  BY <1>1
<1>4. /\ lid_raw' \in Seq(ScanOf(p)) /\ Len(lid_raw') = n - 1
      /\ \A i \in 1 .. n - 1 : lid_raw'[i] = lid_raw[i + 1]
      /\ lid_header' \in Seq(Nat) /\ Len(lid_header') = n - 1
      /\ \A i \in 1 .. n - 1 : lid_header'[i] = lid_header[i + 1]
  BY <1>1, <1>2, <1>3, HeadTailProperties
<1>5. DOMAIN lid_raw' = 1 .. n - 1 /\ \A i \in 1 .. n - 1 : i + 1 \in 1 .. n /\ 1 < i + 1
  BY <1>3, <1>4
<1>6. \A i \in 1 .. n : lid_raw[i].head \in Nat
  BY <1>1, <1>3, ElementOfSeq, ModeConstants DEF ScanOf
<1>7. \A i \in DOMAIN lid_raw' :
              /\ i + 1 \in DOMAIN lid_raw /\ lid_raw'[i] = lid_raw[i + 1]
              /\ lid_raw'[i].head \in Nat /\ Head(lid_raw).head < lid_raw'[i].head
  BY <1>1, <1>3, <1>4, <1>5, <1>6, HeadOfBuffer
<1>8. ScansInOrder(p)'
  <2>1. \A i \in 1 .. n - 1 : lid_header'[i] = lid_raw'[i].head /\ lid_raw'[i].head <= last_lidar
    BY <1>1, <1>3, <1>4, <1>5
  <2>2. \A i, j \in 1 .. n - 1 : i < j => lid_raw'[i].head < lid_raw'[j].head
    <3> SUFFICES ASSUME NEW i \in 1 .. n - 1, NEW j \in 1 .. n - 1, i < j
                 PROVE  lid_raw'[i].head < lid_raw'[j].head
      OBVIOUS
    <3>1. i + 1 \in 1 .. n /\ j + 1 \in 1 .. n /\ i + 1 < j + 1
      BY <1>3
    <3>2. lid_raw[i + 1].head < lid_raw[j + 1].head
      BY <1>1, <1>3, <3>1
    <3> QED
      BY <1>4, <3>2
  <2> QED
    BY <1>2, <1>4, <1>5, <2>1, <2>2 DEF ScansInOrder
<1> QED
  BY <1>4, <1>7, <1>8

(* The popped scan is the next one handled, with its own begin.            *)
LEMMA ScanHandled ==
  ASSUME NEW p \in Modes, FrontInv(p), lid_raw # <<>>, Front(p)!PopScan,
         Front(p)!Handle(Head(lid_raw), Head(lid_header))
  PROVE  Front(p)!ScansConserved' /\ handled' \in Seq([head : Nat, beg : Nat])
<1> DEFINE h == [head |-> Head(lid_raw).head, beg |-> Head(lid_header)]
           R == [head : Nat, beg : Nat]
<1>1. handled' = Append(handled, h) /\ lid_raw' = Tail(lid_raw) /\ delivered' = delivered
  BY DEF Front!Handle, Front!PopScan
<1>2. /\ h \in R /\ h.head = Head(lid_raw).head /\ h.beg = h.head
      /\ handled \in Seq(R) /\ \A r \in R : r.head \in Nat
  BY HeadOfBuffer DEF FrontInv, FrontTyped
<1> HIDE DEF h, R
<1>3. Heads(handled) \in Seq(Nat) /\ Heads(handled') = Append(Heads(handled), h.head)
  BY <1>1, <1>2, HeadsOfAppend
<1>4. /\ Heads(lid_raw) \in Seq(Nat) /\ Heads(lid_raw) # <<>>
      /\ Head(Heads(lid_raw)) = h.head /\ Heads(lid_raw') = Tail(Heads(lid_raw))
  <2>1. lid_raw \in Seq(ScanOf(p)) /\ \A r \in ScanOf(p) : r.head \in Nat
    BY ModeConstants DEF FrontInv, FrontTyped, ScanOf
  <2> QED
    BY <1>1, <1>2, <2>1, HeadsOfTail
<1>5. delivered = Heads(handled) \o Heads(lid_raw)
      /\ \A i \in DOMAIN handled : handled[i].beg = handled[i].head
  BY DEF FrontInv, Front!ScansConserved, Heads
<1>6. delivered' = Heads(handled') \o Heads(lid_raw')
  <2>1. Heads(handled) \o Heads(lid_raw)
          = Append(Heads(handled), Head(Heads(lid_raw))) \o Tail(Heads(lid_raw))
    BY <1>3, <1>4, HeadMoves
  <2> QED
    BY <1>1, <1>3, <1>4, <1>5, <2>1
<1>7. handled' \in Seq(R) /\ \A i \in DOMAIN handled' : handled'[i].beg = handled'[i].head
  <2>1. /\ handled' \in Seq(R) /\ Len(handled') = Len(handled) + 1 /\ Len(handled) \in Nat
        /\ \A i \in 1 .. Len(handled) : handled'[i] = handled[i]
        /\ handled'[Len(handled) + 1] = h
    BY <1>1, <1>2, AppendProperties
  <2>2. \A i \in DOMAIN handled' :
          (i \in DOMAIN handled /\ i \in 1 .. Len(handled)) \/ i = Len(handled) + 1
    BY <1>2, <2>1
  <2> QED
    BY <1>2, <1>5, <2>1, <2>2
<1> QED
  BY <1>6, <1>7 DEF Front!ScansConserved, Heads, R

(* A sequence cut in two.                                                  *)
LEMMA PrefixAndRest ==
  \A S : \A q \in Seq(S) : \A k \in 0 .. Len(q) :
         /\ SubSeq(q, 1, k) \in Seq(S) /\ DOMAIN SubSeq(q, 1, k) = 1 .. k
         /\ \A i \in 1 .. k : SubSeq(q, 1, k)[i] = q[i]
         /\ SubSeq(q, k + 1, Len(q)) \in Seq(S)
         /\ DOMAIN SubSeq(q, k + 1, Len(q)) = 1 .. Len(q) - k
         /\ \A i \in 1 .. Len(q) - k : SubSeq(q, k + 1, Len(q))[i] = q[k + i]
<1> TAKE S
<1> TAKE q \in Seq(S)
<1> TAKE k \in 0 .. Len(q)
<1>1. /\ \A i \in 1 .. k : q[i] \in S
      /\ \A i \in k + 1 .. Len(q) : q[i] \in S
  OBVIOUS
<1>2. 1 \in Int /\ k \in Int /\ k + 1 \in Int /\ Len(q) \in Int
  OBVIOUS
<1>3. /\ SubSeq(q, 1, k) \in Seq(S)
      /\ Len(SubSeq(q, 1, k)) = IF 1 <= k THEN k - 1 + 1 ELSE 0
      /\ \A i \in 1 .. k - 1 + 1 : SubSeq(q, 1, k)[i] = q[1 + i - 1]
  BY <1>1, <1>2, SubSeqProperties
<1>4. /\ SubSeq(q, k + 1, Len(q)) \in Seq(S)
      /\ Len(SubSeq(q, k + 1, Len(q))) = IF k + 1 <= Len(q) THEN Len(q) - (k + 1) + 1 ELSE 0
      /\ \A i \in 1 .. Len(q) - (k + 1) + 1 : SubSeq(q, k + 1, Len(q))[i] = q[k + 1 + i - 1]
  BY <1>1, <1>2, SubSeqProperties
<1>5. Len(SubSeq(q, 1, k)) = k /\ Len(SubSeq(q, k + 1, Len(q))) = Len(q) - k
  BY <1>3, <1>4
<1>6. \A i \in 1 .. k : SubSeq(q, 1, k)[i] = q[i]
  BY <1>3, SMTT(30)
<1>7. \A i \in 1 .. Len(q) - k : SubSeq(q, k + 1, Len(q))[i] = q[k + i]
  BY <1>4, SMTT(30)
<1> QED
  BY <1>3, <1>4, <1>5, <1>6, <1>7, LenProperties

(* The messages popped are those up to the end of the scan.                *)
LEMMA MessagesUpTo ==
  ASSUME NEW p \in Modes, FrontInv(p), NEW end \in Nat
  PROVE  LET k == Front(p)!ImuUpTo(end)
         IN  /\ k \in 0 .. Len(imu_buffer)
             /\ \A i \in 1 .. k : imu_buffer[i] <= end
             /\ \A i \in k + 1 .. Len(imu_buffer) : imu_buffer[i] > end
<1> DEFINE n == Len(imu_buffer)
           T == {i \in DOMAIN imu_buffer : \A j \in 1 .. i : imu_buffer[j] <= end}
           over == {i \in 1 .. n : imu_buffer[i] > end}
<1>1. /\ n \in Nat /\ DOMAIN imu_buffer = 1 .. n /\ \A i \in 1 .. n : imu_buffer[i] \in Nat
      /\ \A i, j \in 1 .. n : i < j => imu_buffer[i] < imu_buffer[j]
  <2>1. imu_buffer \in Seq(ModeSettings[p].imus) /\ ModeSettings[p].imus \subseteq Nat
    BY ModeConstants DEF FrontInv, FrontTyped
  <2>2. n \in Nat /\ DOMAIN imu_buffer = 1 .. n /\ \A i \in 1 .. n : imu_buffer[i] \in Nat
    BY <2>1
  <2> QED
    BY <2>2 DEF FrontInv, ImusInOrder
<1>2. Front(p)!ImuUpTo(end) = Cardinality(T)
  <2>1. \A S : Front(p)!Cardinality(S) = Cardinality(S)
    BY Zenon DEF Front!Cardinality, Cardinality
  <2> QED
    BY <2>1 DEF Front!ImuUpTo
<1>3. \E k \in 0 .. n : /\ T = 1 .. k
                        /\ \A i \in 1 .. k : imu_buffer[i] <= end
                        /\ \A i \in k + 1 .. n : imu_buffer[i] > end
  <2>1. CASE over = {}
    <3>1. \A i \in 1 .. n : imu_buffer[i] <= end
      BY <1>1, <2>1
    <3>2. T = 1 .. n
      BY <1>1, <3>1
    <3> QED
      BY <1>1, <3>1, <3>2
  <2>2. CASE over # {}
    <3>1. over \in SUBSET Nat
      BY <1>1
    <3>2. PICK m \in over : \A i \in over : m <= i
      <4> HIDE DEF over
      <4> QED
        BY <2>2, <3>1, LeastMember
    <3>3. m \in 1 .. n /\ m - 1 \in 0 .. n /\ imu_buffer[m] > end
      BY <1>1, <3>2
    <3>4. \A i \in 1 .. m - 1 : imu_buffer[i] <= end
      <4> SUFFICES ASSUME NEW i \in 1 .. m - 1 PROVE imu_buffer[i] <= end
        OBVIOUS
      <4>1. i \in 1 .. n /\ i \notin over
        BY <1>1, <3>2, <3>3
      <4> QED
        BY <1>1, <4>1
    <3>5. \A i \in m .. n : imu_buffer[i] > end
      <4> SUFFICES ASSUME NEW i \in m .. n PROVE imu_buffer[i] > end
        OBVIOUS
      <4>1. i \in 1 .. n /\ (i = m \/ m < i)
        BY <1>1, <3>3
      <4> QED
        BY <1>1, <3>3, <4>1
    <3>6. T = 1 .. m - 1
      <4>1. \A i \in T : i \in 1 .. m - 1
        <5> SUFFICES ASSUME NEW i \in T PROVE i \in 1 .. m - 1
          OBVIOUS
        <5>1. i \in 1 .. n /\ ~ (m \in 1 .. i)
          BY <1>1, <3>3
        <5> QED
          BY <1>1, <3>3, <5>1
      <4>2. \A i \in 1 .. m - 1 : i \in T
        <5> SUFFICES ASSUME NEW i \in 1 .. m - 1 PROVE i \in T
          OBVIOUS
        <5>1. i \in 1 .. n /\ \A j \in 1 .. i : j \in 1 .. m - 1
          BY <1>1, <3>3
        <5> QED
          BY <1>1, <3>4, <5>1
      <4> QED
        BY <4>1, <4>2
    <3>7. \A i \in (m - 1) + 1 .. n : imu_buffer[i] > end
      BY <1>1, <3>3, <3>5
    <3> QED
      BY <3>3, <3>4, <3>6, <3>7
  <2> QED
    BY <2>1, <2>2
<1>4. PICK k \in 0 .. n : /\ T = 1 .. k
                          /\ \A i \in 1 .. k : imu_buffer[i] <= end
                          /\ \A i \in k + 1 .. n : imu_buffer[i] > end
  BY <1>3
<1>5. Cardinality(T) = k
  <2>1. k \in Nat /\ T = 1 .. k
    BY <1>1, <1>4
  <2>2. Cardinality(1 .. k) = k
    <3>1. 1 \in Int /\ k \in Int
      BY <2>1
    <3>2. Cardinality(1 .. k) = IF 1 > k THEN 0 ELSE k - 1 + 1
      BY <3>1, FS_Interval
    <3> QED
      BY <2>1, <3>2
  <2> QED
    BY <2>1, <2>2
<1> QED
  BY <1>2, <1>4, <1>5
-----------------------------------------------------------------------------
LEMMA WaitImuKeeps ==
  ASSUME NEW p \in Modes, FrontInv(p), Front(p)!WaitImu
  PROVE  FrontInv(p)'
<1>1. /\ Front(p)!LioReady /\ meas' = Front(p)!Current /\ lidar_pushed' = TRUE
      /\ UNCHANGED <<lid_raw, lid_header, last_lidar, delivered, imu_buffer, last_imu_stamp,
                     keyframe_time, handled, step, imu_need_init, init_iter_num, last_imu,
                     last_prop_end, time_last_scan, published, lio>>
  BY DEF Front!WaitImu, Front!lidarVars, Front!imuBufferVars, Front!imuVars
<1>2. /\ Front(p)!Current = Front(p)!HeadScan /\ Front(p)!Current.imu = <<>>
      /\ Front(p)!Current.end = Head(lid_raw).head + ModeSettings[p].span
      /\ lid_raw # <<>> /\ Head(lid_raw).size > 1 /\ step = "spin" /\ WithImu(p)
  BY <1>1, CurrentScan
<1>3. meas' = (Front(p)!HeadScan)'
  BY <1>1, <1>2 DEF Front!HeadScan
<1>4. meas'.end \in Nat /\ meas'.imu \in Seq(ModeSettings[p].imus)
  BY <1>1, <1>2, HeadOfBuffer, ModeConstants
<1>5. FrontTyped(p)'
  BY <1>1, <1>4 DEF FrontInv, FrontTyped
<1>6. ScanWaits(p)' /\ ScanInWork(p)' /\ ImuBehind(p)' /\ Propagated(p)'
  BY <1>1, <1>2, <1>3 DEF FrontInv, ScanWaits, ScanInWork, ImuBehind, Propagated, WithImu,
                          Front!NoLio
<1>7. ScansInOrder(p)' /\ ImusInOrder(p)'
  BY <1>1 DEF FrontInv, ScansInOrder, ImusInOrder, WithImu
<1>8. Front(p)!ScansConserved' /\ Front(p)!MotionCovered'
       /\ (WithImu(p) => Front(p)!KeyframeStamped)'
       /\ (step = "undefined" => ~WithImu(p) /\ ModeSettings[p].stores_empty)'
  BY <1>1 DEF FrontInv, Front!ScansConserved, Front!MotionCovered, Front!KeyframeStamped, WithImu
<1> QED
  BY <1>5, <1>6, <1>7, <1>8 DEF FrontInv

LEMMA SyncLioKeeps ==
  ASSUME NEW p \in Modes, FrontInv(p), Front(p)!SyncLio
  PROVE  FrontInv(p)'
<1> DEFINE span == ModeSettings[p].span
           imus == ModeSettings[p].imus
           end == Head(lid_raw).head + span
           k == Front(p)!ImuUpTo(end)
           n == Len(imu_buffer)
<1>1. /\ Front(p)!LioReady /\ Front(p)!ImuReached /\ Front(p)!PopScan
      /\ meas' = [Front(p)!Current EXCEPT
                    !.imu = SubSeq(imu_buffer, 1, Front(p)!ImuUpTo(Front(p)!Current.end))]
      /\ imu_buffer' = SubSeq(imu_buffer, Front(p)!ImuUpTo(Front(p)!Current.end) + 1,
                              Len(imu_buffer))
      /\ Front(p)!Handle(Front(p)!Current.scan, Front(p)!Current.beg)
      /\ lidar_pushed' = FALSE /\ keyframe_time' = Front(p)!Current.end /\ step' = "process"
      /\ UNCHANGED <<last_imu_stamp, imu_need_init, init_iter_num, last_imu, last_prop_end,
                     time_last_scan, published, lio>>
  BY DEF Front!SyncLio, Front!imuVars, Front!KeyframeAtEnd
<1>2. /\ Front(p)!Current = Front(p)!HeadScan
      /\ Front(p)!Current.scan = Head(lid_raw) /\ Front(p)!Current.beg = Head(lid_header)
      /\ Front(p)!Current.end = end
      /\ lid_raw # <<>> /\ Head(lid_raw).size > 1 /\ step = "spin" /\ WithImu(p)
  BY <1>1, CurrentScan
<1>3. end \in Nat /\ last_imu_stamp >= end /\ span \in Nat /\ Head(lid_raw).head \in Nat
  BY <1>1, <1>2, HeadOfBuffer, ModeConstants DEF Front!ImuReached
<1>4. /\ k \in 0 .. n /\ \A i \in 1 .. k : imu_buffer[i] <= end
      /\ \A i \in k + 1 .. n : imu_buffer[i] > end
  BY <1>3, MessagesUpTo
<1>5. /\ imu_buffer \in Seq(imus) /\ n \in Nat /\ DOMAIN imu_buffer = 1 .. n
      /\ \A i \in 1 .. n : imu_buffer[i] \in imus
      /\ imus \subseteq Nat
  BY ModeConstants DEF FrontInv, FrontTyped
<1>6. /\ meas'.end = end /\ meas'.imu = SubSeq(imu_buffer, 1, k)
      /\ imu_buffer' = SubSeq(imu_buffer, k + 1, n) /\ keyframe_time' = end
  BY <1>1, <1>2 DEF Front!HeadScan
<1> HIDE DEF k, end, n
<1>7. /\ meas'.imu \in Seq(imus) /\ DOMAIN meas'.imu = 1 .. k
      /\ \A i \in 1 .. k : meas'.imu[i] = imu_buffer[i]
      /\ imu_buffer' \in Seq(imus) /\ DOMAIN imu_buffer' = 1 .. n - k
      /\ \A i \in 1 .. n - k : imu_buffer'[i] = imu_buffer[k + i]
  <2> HIDE DEF imus
  <2>1. k \in 0 .. Len(imu_buffer) /\ n = Len(imu_buffer)
    BY <1>4 DEF n
  <2> QED
    BY <1>5, <1>6, <2>1, PrefixAndRest
<1>8. /\ imu_buffer' \in Seq(imus) /\ DOMAIN imu_buffer' = 1 .. n - k
      /\ \A i \in 1 .. n - k : imu_buffer'[i] = imu_buffer[k + i]
  BY <1>7
<1>9. \A i \in 1 .. n - k : k + i \in 1 .. n /\ k + i \in k + 1 .. n
  BY <1>4, <1>5
<1>10. \A i \in 1 .. k : i \in 1 .. n
  BY <1>4, <1>5
<1>11. /\ lid_raw' \in Seq(ScanOf(p)) /\ lid_header' \in Seq(Nat) /\ ScansInOrder(p)'
       /\ \A i \in DOMAIN lid_raw' :
              /\ i + 1 \in DOMAIN lid_raw /\ lid_raw'[i] = lid_raw[i + 1]
              /\ lid_raw'[i].head \in Nat /\ Head(lid_raw).head < lid_raw'[i].head
       /\ last_lidar' = last_lidar /\ delivered' = delivered
  BY <1>1, <1>2, ScanPopped DEF Front!PopScan
<1>12. Front(p)!ScansConserved' /\ handled' \in Seq([head : Nat, beg : Nat])
  BY <1>1, <1>2, ScanHandled
<1>13. FrontTyped(p)'
  BY <1>1, <1>3, <1>6, <1>7, <1>8, <1>11, <1>12 DEF FrontInv, FrontTyped
<1>14. ImusInOrder(p)'
  <2>1. \A i \in 1 .. n - k : imu_buffer'[i] <= last_imu_stamp
    BY <1>5, <1>8, <1>9 DEF FrontInv, ImusInOrder
  <2>2. \A i, j \in 1 .. n - k : i < j => imu_buffer'[i] < imu_buffer'[j]
    <3> SUFFICES ASSUME NEW i \in 1 .. n - k, NEW j \in 1 .. n - k, i < j
                 PROVE  imu_buffer'[i] < imu_buffer'[j]
      OBVIOUS
    <3>1. k + i < k + j
      BY <1>4, <1>5
    <3>2. imu_buffer[k + i] < imu_buffer[k + j]
      BY <1>5, <1>9, <3>1 DEF FrontInv, ImusInOrder
    <3> QED
      BY <1>8, <3>2
  <2> QED
    BY <1>1, <1>2, <1>8, <2>1, <2>2 DEF ImusInOrder, WithImu
<1>15. ScanInWork(p)'
  <2>1. \A i \in 1 .. k : meas'.imu[i] <= end
    BY <1>4, <1>7
  <2>2. \A i \in 1 .. n - k : imu_buffer'[i] > end
    BY <1>4, <1>8, <1>9
  <2>3. end <= last_lidar + span
    <3>1. Head(lid_raw).head <= last_lidar /\ last_lidar \in Int
      <4>1. 1 \in DOMAIN lid_raw /\ Head(lid_raw) = lid_raw[1]
        BY <1>2, HeadOfBuffer
      <4> QED
        BY <4>1, ModeConstants DEF FrontInv, FrontTyped, ScansInOrder
    <3> QED
      BY <1>3, <3>1 DEF end
  <2>4. \A i \in DOMAIN lid_raw' : end <= lid_raw'[i].head + span
    BY <1>3, <1>11 DEF end
  <2> QED
    BY <1>1, <1>3, <1>6, <1>7, <1>8, <1>11, <2>1, <2>2, <2>3, <2>4 DEF ScanInWork
<1>16. ImuBehind(p)'
  <2>1. /\ last_imu <= last_lidar + span
        /\ \A i \in DOMAIN lid_raw : last_imu <= lid_raw[i].head + span
    BY <1>2 DEF FrontInv, ImuBehind
  <2>2. last_imu <= end
    <3>1. 1 \in DOMAIN lid_raw /\ Head(lid_raw) = lid_raw[1]
      BY <1>2, HeadOfBuffer
    <3> QED
      BY <2>1, <3>1 DEF end
  <2>3. \A i \in DOMAIN lid_raw' : last_imu <= lid_raw'[i].head + span
    BY <1>11, <2>1
  <2> QED
    BY <1>1, <1>6, <1>11, <2>1, <2>2, <2>3 DEF ImuBehind
<1>17. Propagated(p)'
  <2> SUFFICES ASSUME lio # Front(p)!NoLio
               PROVE  /\ ~imu_need_init /\ last_imu <= last_prop_end
                      /\ last_prop_end <= last_imu_stamp
                      /\ \A i \in 1 .. n - k : last_prop_end < imu_buffer'[i]
                      /\ \A i \in 1 .. k : last_prop_end < meas'.imu[i]
    BY <1>1, <1>2, <1>7, <1>8 DEF Propagated, WithImu, Front!NoLio
  <2>1. /\ ~imu_need_init /\ last_imu <= last_prop_end /\ last_prop_end <= last_imu_stamp
        /\ \A i \in 1 .. n : last_prop_end < imu_buffer[i]
    BY <1>5 DEF FrontInv, Propagated
  <2> QED
    BY <1>7, <1>8, <1>9, <1>10, <2>1
<1>18. ScanWaits(p)' /\ Front(p)!MotionCovered' /\ (WithImu(p) => Front(p)!KeyframeStamped)'
       /\ (step = "undefined" => ~WithImu(p) /\ ModeSettings[p].stores_empty)'
  BY <1>1 DEF FrontInv, ScanWaits, Front!MotionCovered, Front!KeyframeStamped, WithImu
<1> QED
  BY <1>11, <1>12, <1>13, <1>14, <1>15, <1>16, <1>17, <1>18 DEF FrontInv

LEMMA SyncLoKeeps ==
  ASSUME NEW p \in Modes, FrontInv(p), Front(p)!SyncLo
  PROVE  FrontInv(p)'
<1>1. /\ step = "spin" /\ ModeSettings[p].mode = "ONLY_LO" /\ lid_raw # <<>>
      /\ meas' = Front(p)!HeadScan /\ Front(p)!PopScan
      /\ Front(p)!Handle(Head(lid_raw), Head(lid_header))
      /\ step' = IF Head(lid_raw).size = 0 THEN "undefined" ELSE "process"
      /\ UNCHANGED <<imu_buffer, last_imu_stamp, lidar_pushed, keyframe_time, imu_need_init,
                     init_iter_num, last_imu, last_prop_end, time_last_scan, published, lio>>
  BY DEF Front!SyncLo, Front!imuBufferVars, Front!imuVars
<1>2. ~WithImu(p) /\ lidar_pushed = FALSE
  BY <1>1 DEF WithImu, FrontInv, FrontTyped, ScanWaits
<1>3. meas'.end \in Nat /\ meas'.imu = <<>> /\ <<>> \in Seq(ModeSettings[p].imus)
  BY <1>1, HeadOfBuffer, EmptySeq DEF Front!HeadScan
<1>4. /\ lid_raw' \in Seq(ScanOf(p)) /\ lid_header' \in Seq(Nat) /\ ScansInOrder(p)'
      /\ last_lidar' = last_lidar /\ delivered' = delivered
  BY <1>1, ScanPopped DEF Front!PopScan
<1>5. Front(p)!ScansConserved' /\ handled' \in Seq([head : Nat, beg : Nat])
  BY <1>1, ScanHandled
<1>6. FrontTyped(p)'
  BY <1>1, <1>3, <1>4, <1>5 DEF FrontInv, FrontTyped
<1>7. step' = "undefined" => ModeSettings[p].stores_empty
  <2>1. Head(lid_raw).size > 0 \/ ModeSettings[p].stores_empty
    BY <1>1, HeadOfBuffer
  <2> QED
    BY <1>1, <2>1
<1>8. ScanWaits(p)' /\ ScanInWork(p)' /\ ImuBehind(p)' /\ Propagated(p)' /\ ImusInOrder(p)'
  BY <1>1, <1>2, <1>3 DEF FrontInv, ScanWaits, ScanInWork, ImuBehind, Propagated, ImusInOrder,
                          WithImu, Front!NoLio
<1>9. Front(p)!MotionCovered' /\ (WithImu(p) => Front(p)!KeyframeStamped)'
      /\ (step = "undefined" => ~WithImu(p) /\ ModeSettings[p].stores_empty)'
  BY <1>1, <1>2, <1>7 DEF FrontInv, Front!MotionCovered, Front!KeyframeStamped, WithImu
<1> QED
  BY <1>4, <1>5, <1>6, <1>8, <1>9 DEF FrontInv

-----------------------------------------------------------------------------
(* The pairs of UndistortPcl, as Front!Covered has them, and the ticks     *)
(* they leave no gap in.                                                   *)
PairFrom(q, e, i) == IF q[i] < e THEN e ELSE q[i]
PairTo(q, e, t, i) == IF q[i] < e \/ i # Len(q) - 1 THEN q[i + 1] ELSE t
PairsOf(q, e) == {i \in 1 .. Len(q) - 1 : q[i + 1] >= e}
Propagation(q, e, t) == UNION {PairFrom(q, e, i) + 1 .. PairTo(q, e, t, i) : i \in PairsOf(q, e)}

LEMMA PairsCover ==
  ASSUME NEW l \in Nat, NEW e \in Nat, NEW t \in Nat, NEW imu \in Seq(Nat),
         l <= e, Len(imu) >= 2, \A i \in DOMAIN imu : e < imu[i] /\ imu[i] <= t
  PROVE  Propagation(<<l>> \o imu, e, t) = e + 1 .. t
<1> DEFINE q == <<l>> \o imu
           n == Len(imu)
           begin(i) == PairFrom(q, e, i)
           stop(i) == PairTo(q, e, t, i)
<1>1. n \in Nat /\ n >= 2 /\ \A i \in 1 .. n : imu[i] \in Nat /\ e < imu[i] /\ imu[i] <= t
  OBVIOUS
<1>2. Len(q) = n + 1 /\ q[1] = l /\ \A i \in 1 .. n : q[i + 1] = imu[i]
  <2>1. <<l>> \in Seq(Nat) /\ Len(<<l>>) = 1 /\ <<l>>[1] = l
    OBVIOUS
  <2>2. /\ Len(q) = Len(<<l>>) + Len(imu)
        /\ \A i \in 1 .. Len(<<l>>) + Len(imu) :
             q[i] = IF i <= Len(<<l>>) THEN <<l>>[i] ELSE imu[i - Len(<<l>>)]
    BY <2>1, ConcatProperties
  <2> HIDE DEF q
  <2>3. \A i \in 1 .. n : i + 1 \in 1 .. 1 + n /\ ~ (i + 1 <= 1) /\ i + 1 - 1 = i
    BY <1>1
  <2>4. \A i \in 1 .. n : q[i + 1] = imu[i]
    BY <2>1, <2>2, <2>3
  <2>5. Len(q) = n + 1 /\ q[1] = l
    BY <1>1, <2>1, <2>2
  <2> QED
    BY <2>4, <2>5
<1> HIDE DEF q, n
<1>3. \A i \in 2 .. n : i - 1 \in 1 .. n /\ i - 1 # n /\ i - 1 + 1 = i
  BY <1>1
<1>4. \A i \in 2 .. n : q[i] = imu[i - 1]
  BY <1>2, <1>3
<1>5. PairsOf(q, e) = 1 .. n
  <2>1. \A i \in 1 .. n : q[i + 1] >= e
    <3> SUFFICES ASSUME NEW i \in 1 .. n PROVE q[i + 1] >= e
      OBVIOUS
    <3>1. q[i + 1] = imu[i] /\ imu[i] \in Nat /\ e < imu[i]
      BY <1>1, <1>2
    <3> QED
      BY <3>1
  <2>2. Len(q) - 1 = n
    BY <1>1, <1>2
  <2> QED
    BY <2>1, <2>2 DEF PairsOf
<1>6. begin(1) = e
  BY <1>1, <1>2 DEF PairFrom
<1>7. \A i \in 2 .. n : begin(i) = imu[i - 1]
  BY <1>1, <1>3, <1>4 DEF PairFrom
<1>8. \A i \in 1 .. n : i # n => stop(i) = imu[i]
  BY <1>1, <1>2 DEF PairTo
<1>9. stop(n) = t
  <2>1. Len(q) - 1 = n /\ n \in 2 .. n
    BY <1>1, <1>2
  <2>2. ~ (q[n] < e)
    <3>1. q[n] = imu[n - 1] /\ n - 1 \in 1 .. n
      BY <1>3, <1>4, <2>1
    <3>2. imu[n - 1] \in Nat /\ e < imu[n - 1]
      BY <1>1, <3>1
    <3> QED
      BY <3>1, <3>2
  <2> QED
    BY <2>1, <2>2 DEF PairTo
<1> HIDE DEF begin, stop
<1>10. \A i \in 1 .. n : stop(i) \in Nat /\ stop(i) <= t
  <2> SUFFICES ASSUME NEW i \in 1 .. n PROVE stop(i) \in Nat /\ stop(i) <= t
    OBVIOUS
  <2> QED
    BY <1>1, <1>8, <1>9
<1>11. \A i \in 1 .. n : begin(i) \in Nat /\ begin(i) >= e
  <2> SUFFICES ASSUME NEW i \in 1 .. n PROVE begin(i) \in Nat /\ begin(i) >= e
    OBVIOUS
  <2>1. CASE i = 1
    BY <1>6, <2>1
  <2>2. CASE i # 1
    <3>1. i \in 2 .. n /\ i - 1 \in 1 .. n
      BY <1>1, <2>2
    <3>2. begin(i) = imu[i - 1] /\ imu[i - 1] \in Nat /\ e < imu[i - 1]
      BY <1>1, <1>7, <3>1
    <3> QED
      BY <3>2
  <2> QED
    BY <2>1, <2>2
<1>12. \A i \in 2 .. n : begin(i) = stop(i - 1)
  BY <1>3, <1>7, <1>8
<1> DEFINE all == UNION {begin(i) + 1 .. stop(i) : i \in 1 .. n}
<1>13. \A x \in all : x \in e + 1 .. t
  <2> SUFFICES ASSUME NEW x \in all PROVE x \in e + 1 .. t
    OBVIOUS
  <2>1. PICK i \in 1 .. n : x \in begin(i) + 1 .. stop(i)
    OBVIOUS
  <2> QED
    BY <1>10, <1>11, <2>1
<1>14. \A x \in e + 1 .. t : x \in all
  <2> SUFFICES ASSUME NEW x \in e + 1 .. t PROVE x \in all
    OBVIOUS
  <2> DEFINE reach == {i \in 1 .. n : x <= stop(i)}
  <2>1. n \in reach /\ reach \in SUBSET Nat
    BY <1>1, <1>9
  <2>2. PICK i \in reach : \A m \in reach : i <= m
    <3> HIDE DEF reach
    <3> QED
      BY <2>1, LeastMember
  <2>3. i \in 1 .. n /\ x <= stop(i) /\ stop(i) \in Nat /\ begin(i) \in Nat
    BY <1>10, <1>11, <2>2
  <2>4. begin(i) < x
    <3>1. CASE i = 1
      BY <1>6, <3>1
    <3>2. CASE i # 1
      <4>1. i \in 2 .. n /\ ~ (i <= i - 1)
        BY <1>1, <2>3, <3>2
      <4>2. i - 1 \in 1 .. n /\ begin(i) = stop(i - 1) /\ i - 1 \notin reach
        BY <1>3, <1>12, <2>2, <4>1
      <4>3. ~ (x <= stop(i - 1)) /\ stop(i - 1) \in Nat
        BY <1>10, <4>2
      <4> QED
        BY <4>2, <4>3
    <3> QED
      BY <3>1, <3>2
  <2>5. x \in begin(i) + 1 .. stop(i)
    BY <2>3, <2>4
  <2> QED
    BY <2>3, <2>5
<1>15. all = e + 1 .. t
  BY <1>13, <1>14
<1>16. Propagation(q, e, t) = all
  BY <1>5 DEF Propagation, begin, stop
<1> QED
  BY <1>15, <1>16 DEF q

(* The newest message of a measurement, behind the one before it.          *)
LEMMA LastMessage ==
  ASSUME NEW l \in Nat, NEW imu \in Seq(Nat)
  PROVE  LET q == <<l>> \o imu
         IN  /\ q[Len(q)] \in Nat
             /\ imu = <<>> => q[Len(q)] = l
             /\ imu # <<>> => \E i \in DOMAIN imu : q[Len(q)] = imu[i]
<1> DEFINE q == <<l>> \o imu
           n == Len(imu)
<1>1. n \in Nat /\ DOMAIN imu = 1 .. n /\ \A i \in 1 .. n : imu[i] \in Nat
  OBVIOUS
<1>2. <<l>> \in Seq(Nat) /\ Len(<<l>>) = 1 /\ <<l>>[1] = l
  OBVIOUS
<1>3. /\ Len(q) = Len(<<l>>) + Len(imu)
      /\ \A i \in 1 .. Len(<<l>>) + Len(imu) :
           q[i] = IF i <= Len(<<l>>) THEN <<l>>[i] ELSE imu[i - Len(<<l>>)]
  BY <1>2, ConcatProperties
<1> HIDE DEF q
<1>4. Len(q) = n + 1 /\ q[n + 1] = IF n = 0 THEN l ELSE imu[n]
  BY <1>1, <1>2, <1>3
<1>5. imu = <<>> <=> n = 0
  OBVIOUS
<1> HIDE DEF n
<1>6. n # 0 => n \in 1 .. n
  BY <1>1
<1> QED
  BY <1>1, <1>4, <1>5, <1>6 DEF q

-----------------------------------------------------------------------------
(* What the propagation takes from a measurement is not after its end.     *)
LEMMA LastOfMeasurement ==
  ASSUME NEW p \in Modes, FrontInv(p), WithImu(p), step = "process"
  PROVE  LET q == <<last_imu>> \o meas.imu
         IN  q[Len(q)] \in Nat /\ q[Len(q)] <= meas.end
<1> DEFINE q == <<last_imu>> \o meas.imu
<1>1. /\ last_imu \in Nat /\ meas.imu \in Seq(Nat) /\ meas.end \in Nat
      /\ last_imu <= meas.end /\ \A i \in DOMAIN meas.imu : meas.imu[i] <= meas.end
  BY ModeConstants DEF FrontInv, FrontTyped, ImuBehind, ScanInWork
<1>2. /\ q[Len(q)] \in Nat
      /\ meas.imu = <<>> => q[Len(q)] = last_imu
      /\ meas.imu # <<>> => \E i \in DOMAIN meas.imu : q[Len(q)] = meas.imu[i]
  BY <1>1, LastMessage
<1> HIDE DEF q
<1>3. q[Len(q)] <= meas.end
  BY <1>1, <1>2
<1> QED
  BY <1>2, <1>3 DEF q

LEMMA InitializeImuKeeps ==
  ASSUME NEW p \in Modes, FrontInv(p), Front(p)!InitializeImu
  PROVE  FrontInv(p)'
<1>1. /\ step = "process" /\ imu_need_init /\ step' = "spin"
      /\ UNCHANGED <<lid_raw, lid_header, last_lidar, delivered, imu_buffer, last_imu_stamp,
                     lidar_pushed, meas, keyframe_time, handled, last_prop_end,
                     time_last_scan, published, lio>>
  BY DEF Front!InitializeImu, Front!lidarVars, Front!imuBufferVars, Front!syncVars
<1>2. /\ meas.imu \in Seq(Nat) /\ meas.end \in Nat /\ init_iter_num \in Nat \ {0}
      /\ last_imu \in Nat
  BY ModeConstants DEF FrontInv, FrontTyped
<1>3. /\ init_iter_num' \in Nat \ {0} /\ imu_need_init' \in BOOLEAN
      /\ last_imu' \in Nat /\ (WithImu(p) => last_imu' <= meas.end)
  <2>1. CASE meas.imu = <<>>
    <3>1. UNCHANGED <<init_iter_num, imu_need_init, last_imu>>
      BY <2>1 DEF Front!InitializeImu
    <3> QED
      BY <1>1, <1>2, <3>1 DEF FrontInv, FrontTyped, ImuBehind
  <2>2. CASE meas.imu # <<>>
    <3>1. /\ init_iter_num' = init_iter_num + Len(meas.imu)
          /\ imu_need_init' = (init_iter_num' <= ModeSettings[p].ini_count)
          /\ last_imu' = meas.imu[Len(meas.imu)]
      BY <2>2 DEF Front!InitializeImu, Front!LastOf
    <3>2. Len(meas.imu) \in Nat /\ Len(meas.imu) \in DOMAIN meas.imu
          /\ meas.imu[Len(meas.imu)] \in Nat
      BY <1>2, <2>2
    <3>3. WithImu(p) => last_imu' <= meas.end
      BY <1>1, <3>1, <3>2 DEF FrontInv, ScanInWork
    <3> QED
      BY <1>2, <3>1, <3>2, <3>3
  <2> QED
    BY <2>1, <2>2
<1>4. lio = Front(p)!NoLio
  BY <1>1 DEF FrontInv, Propagated
<1>5. FrontTyped(p)'
  BY <1>1, <1>3 DEF FrontInv, FrontTyped
<1>6. ScansInOrder(p)' /\ ImusInOrder(p)' /\ ScanWaits(p)' /\ ScanInWork(p)' /\ Propagated(p)'
  BY <1>1, <1>4 DEF FrontInv, ScansInOrder, ImusInOrder, ScanWaits, ScanInWork, Propagated,
                    WithImu, Front!NoLio
<1>7. ImuBehind(p)'
  <2> SUFFICES ASSUME WithImu(p)
               PROVE  /\ last_imu' <= last_lidar + ModeSettings[p].span
                      /\ \A i \in DOMAIN lid_raw : last_imu' <= lid_raw[i].head + ModeSettings[p].span
    BY <1>1 DEF ImuBehind, WithImu
  <2>1. /\ last_imu' \in Nat /\ last_imu' <= meas.end /\ meas.end \in Nat
        /\ meas.end <= last_lidar + ModeSettings[p].span
        /\ \A i \in DOMAIN lid_raw : meas.end <= lid_raw[i].head + ModeSettings[p].span
    BY <1>1, <1>2, <1>3 DEF FrontInv, ScanInWork
  <2>2. last_lidar + ModeSettings[p].span \in Int
    <3>1. last_lidar \in ModeSettings[p].scans \cup {-1}
      BY DEF FrontInv, FrontTyped
    <3> QED
      BY <3>1, ModeConstants
  <2>3. \A i \in DOMAIN lid_raw : lid_raw[i].head + ModeSettings[p].span \in Int
    <3>1. lid_raw \in Seq(ScanOf(p)) /\ \A r \in ScanOf(p) : r.head \in Nat
      BY ModeConstants DEF FrontInv, FrontTyped, ScanOf
    <3>2. \A i \in DOMAIN lid_raw : lid_raw[i].head \in Nat
      BY <3>1, ElementOfSeq
    <3> QED
      BY <3>2, ModeConstants
  <2> QED
    BY <2>1, <2>2, <2>3
<1>8. Front(p)!ScansConserved' /\ Front(p)!MotionCovered'
       /\ (WithImu(p) => Front(p)!KeyframeStamped)'
       /\ (step = "undefined" => ~WithImu(p) /\ ModeSettings[p].stores_empty)'
  BY <1>1 DEF FrontInv, Front!ScansConserved, Front!MotionCovered, Front!KeyframeStamped, WithImu
<1> QED
  BY <1>5, <1>6, <1>7, <1>8 DEF FrontInv

LEMMA ProcessLioKeeps ==
  ASSUME NEW p \in Modes, FrontInv(p), Front(p)!ProcessLio
  PROVE  FrontInv(p)'
<1> DEFINE q == <<last_imu>> \o meas.imu
           span == ModeSettings[p].span
<1>1. /\ step = "process" /\ WithImu(p) /\ ~imu_need_init /\ step' = "spin"
      /\ lio' = [from |-> last_prop_end, to |-> meas.end, imus |-> Len(meas.imu),
                 covered |-> Front(p)!Covered, follows |-> lio # Front(p)!NoLio]
      /\ last_prop_end' = meas.end /\ last_imu' = q[Len(q)]
      /\ published' = [stamp |-> keyframe_time, cloud |-> meas.end]
      /\ UNCHANGED <<lid_raw, lid_header, last_lidar, delivered, imu_buffer, last_imu_stamp,
                     lidar_pushed, meas, keyframe_time, handled, imu_need_init, init_iter_num,
                     time_last_scan>>
  BY DEF Front!ProcessLio, Front!lidarVars, Front!imuBufferVars, Front!syncVars, Front!LastOf,
         Front!Publish, WithImu
<1>2. /\ meas.imu \in Seq(Nat) /\ meas.end \in Nat /\ last_imu \in Nat /\ last_prop_end \in Nat
  BY ModeConstants DEF FrontInv, FrontTyped
<1>3. /\ \A i \in DOMAIN meas.imu : meas.imu[i] <= meas.end
      /\ keyframe_time = meas.end /\ meas.end <= last_imu_stamp
      /\ \A i \in DOMAIN imu_buffer : imu_buffer[i] > meas.end
      /\ meas.end <= last_lidar + span
      /\ \A i \in DOMAIN lid_raw : meas.end <= lid_raw[i].head + span
  BY <1>1 DEF FrontInv, ScanInWork
<1>4. q[Len(q)] \in Nat /\ q[Len(q)] <= meas.end
  BY <1>1, LastOfMeasurement
<1> HIDE DEF q
<1>5. last_imu' \in Nat /\ last_imu' <= meas.end
  BY <1>1, <1>4
<1>6. FrontTyped(p)'
  BY <1>1, <1>2, <1>5 DEF FrontInv, FrontTyped
<1>7. ScansInOrder(p)' /\ ImusInOrder(p)' /\ ScanWaits(p)' /\ ScanInWork(p)'
  BY <1>1 DEF FrontInv, ScansInOrder, ImusInOrder, ScanWaits, ScanInWork, WithImu
<1>8. ImuBehind(p)'
  <2>1. last_lidar + span \in Int
    <3>1. last_lidar \in ModeSettings[p].scans \cup {-1}
      BY DEF FrontInv, FrontTyped
    <3> QED
      BY <3>1, ModeConstants
  <2>2. \A i \in DOMAIN lid_raw : lid_raw[i].head + span \in Int
    <3>1. lid_raw \in Seq(ScanOf(p)) /\ \A r \in ScanOf(p) : r.head \in Nat
      BY ModeConstants DEF FrontInv, FrontTyped, ScanOf
    <3>2. \A i \in DOMAIN lid_raw : lid_raw[i].head \in Nat
      BY <3>1, ElementOfSeq
    <3> QED
      BY <3>2, ModeConstants
  <2>3. last_imu' <= last_lidar + span /\ \A i \in DOMAIN lid_raw : last_imu' <= lid_raw[i].head + span
    <3> HIDE DEF span
    <3> QED
      BY <1>2, <1>3, <1>5, <2>1, <2>2
  <2> QED
    BY <1>1, <2>3 DEF ImuBehind
<1>9. Propagated(p)'
  BY <1>1, <1>3, <1>5 DEF Propagated, WithImu
<1>10. Front(p)!MotionCovered'
  <2> SUFFICES ASSUME lio # Front(p)!NoLio, Len(meas.imu) >= 2
               PROVE  Front(p)!Covered = last_prop_end + 1 .. meas.end
    BY <1>1 DEF Front!MotionCovered
  <2>1. last_imu <= last_prop_end /\ \A i \in DOMAIN meas.imu : last_prop_end < meas.imu[i]
    BY <1>1 DEF FrontInv, Propagated
  <2>2. Propagation(<<last_imu>> \o meas.imu, last_prop_end, meas.end)
          = last_prop_end + 1 .. meas.end
    BY <1>2, <1>3, <2>1, PairsCover
  <2>3. Front(p)!Covered = Propagation(<<last_imu>> \o meas.imu, last_prop_end, meas.end)
    BY DEF Front!Covered, Propagation, PairsOf, PairFrom, PairTo
  <2> QED
    BY <2>2, <2>3
<1>11. Front(p)!ScansConserved' /\ Front(p)!KeyframeStamped'
       /\ (step = "undefined" => ~WithImu(p) /\ ModeSettings[p].stores_empty)'
  BY <1>1, <1>3 DEF FrontInv, Front!ScansConserved, Front!KeyframeStamped
<1> QED
  BY <1>6, <1>7, <1>8, <1>9, <1>10, <1>11 DEF FrontInv, WithImu

LEMMA ProcessLoKeeps ==
  ASSUME NEW p \in Modes, FrontInv(p), Front(p)!ProcessLo
  PROVE  FrontInv(p)'
<1>1. /\ step = "process" /\ ~WithImu(p) /\ step' = "spin"
      /\ UNCHANGED <<lid_raw, lid_header, last_lidar, delivered, imu_buffer, last_imu_stamp,
                     lidar_pushed, meas, keyframe_time, handled, imu_need_init, init_iter_num,
                     last_imu, last_prop_end, lio>>
  BY DEF Front!ProcessLo, Front!lidarVars, Front!imuBufferVars, Front!syncVars, WithImu
<1>2. FrontTyped(p)' /\ ScansInOrder(p)' /\ ImusInOrder(p)'
  BY <1>1 DEF FrontInv, FrontTyped, ScansInOrder, ImusInOrder, WithImu
<1>3. ScanWaits(p)' /\ ScanInWork(p)' /\ ImuBehind(p)' /\ Propagated(p)'
  BY <1>1 DEF FrontInv, ScanWaits, ScanInWork, ImuBehind, Propagated, WithImu, Front!NoLio
<1>4. Front(p)!ScansConserved' /\ Front(p)!MotionCovered'
       /\ (step = "undefined" => ~WithImu(p) /\ ModeSettings[p].stores_empty)'
       /\ ~WithImu(p)'
  BY <1>1 DEF FrontInv, Front!ScansConserved, Front!MotionCovered, WithImu
<1> QED
  BY <1>2, <1>3, <1>4 DEF FrontInv

LEMMA FrontStill ==
  ASSUME NEW p \in Modes, FrontInv(p), UNCHANGED modeVars
  PROVE  FrontInv(p)'
<1>1. FrontTyped(p)' /\ ScansInOrder(p)' /\ ImusInOrder(p)'
  BY DEF modeVars, FrontInv, FrontTyped, ScansInOrder, ImusInOrder, WithImu
<1>2. ScanWaits(p)' /\ ScanInWork(p)' /\ ImuBehind(p)' /\ Propagated(p)'
  BY DEF modeVars, FrontInv, ScanWaits, ScanInWork, ImuBehind, Propagated, WithImu, Front!NoLio,
         Front!HeadScan
<1>3. Front(p)!ScansConserved' /\ Front(p)!MotionCovered'
       /\ (WithImu(p) => Front(p)!KeyframeStamped)'
       /\ (step = "undefined" => ~WithImu(p) /\ ModeSettings[p].stores_empty)'
  BY DEF modeVars, FrontInv, Front!ScansConserved, Front!MotionCovered, Front!KeyframeStamped,
         WithImu
<1> QED
  BY <1>1, <1>2, <1>3 DEF FrontInv

LEMMA FrontMeaning ==
  ASSUME NEW p \in Modes, FrontInv(p)
  PROVE  /\ Front(p)!TypeOK /\ Front(p)!ScansConserved /\ Front(p)!ImuOfInterval
         /\ Front(p)!MotionCovered
         /\ ModeSettings[p].mode = "ONLY_LIO" => Front(p)!KeyframeStamped
         /\ (ModeSettings[p].mode = "ONLY_LO" /\ ModeSettings[p].stores_empty) \/ Front(p)!NoEmptyRead
<1>1. Front(p)!TypeOK
  BY DEF FrontInv, FrontTyped, ScansInOrder, ScanWaits, Front!TypeOK, Front!HeadScan
<1>2. Front(p)!ImuOfInterval
  BY DEF FrontInv, FrontTyped, ImusInOrder, ScanInWork, WithImu, Front!ImuOfInterval
<1>3. (ModeSettings[p].mode = "ONLY_LO" /\ ModeSettings[p].stores_empty) \/ Front(p)!NoEmptyRead
  BY ModeConstants DEF FrontInv, WithImu, Front!NoEmptyRead
<1> QED
  BY <1>1, <1>2, <1>3 DEF FrontInv, WithImu

LEMMA FrontStep ==
  ASSUME NEW p \in Modes, FrontInv(p), Front(p)!Next \/ UNCHANGED modeVars
  PROVE  FrontInv(p)'
BY LidarCallbackKeeps, ImuCallbackKeeps, WaitImuKeeps, SyncLioKeeps, SyncLoKeeps,
   InitializeImuKeeps, ProcessLioKeeps, ProcessLoKeeps, FrontStill DEF Front!Next

LEMMA FrontPart ==
  ASSUME FrontKept, [OdometryNext]_allVars
  PROVE  FrontKept'
<1>1. part' = part
  BY DEF OdometryNext, Only, Rests, allVars
<1> SUFFICES ASSUME NEW p \in Modes, part = p PROVE FrontInv(p)'
  BY <1>1 DEF FrontKept, Modes
<1>2. FrontInv(p)
  BY DEF FrontKept
<1>3. Front(p)!Next \/ UNCHANGED modeVars
  <2>1. CASE \E q \in Modes : part = q /\ Front(q)!Next /\ Only("modes")
    BY <2>1
  <2>2. CASE UNCHANGED modeVars
    BY <2>2
  <2>3. ASSUME NEW g \in Groups \ {"modes"}, Only(g) PROVE UNCHANGED modeVars
    <3>1. Still("modes")
      BY <2>3 DEF Only, Groups
    <3> QED
      BY <3>1 DEF Still
  <2>4. {"voxels", "lidar", "map", "visual", "window", "preprocess"} \subseteq Groups \ {"modes"}
    BY DEF Groups
  <2>5. UNCHANGED allVars => UNCHANGED modeVars
    BY DEF allVars
  <2> QED
    BY <2>1, <2>2, <2>3, <2>4, <2>5 DEF OdometryNext, Rests
<1> QED
  BY <1>2, <1>3, FrontStep

(* sync_packages without a camera, for any header times, message stamps,   *)
(* scan sizes and span: whatever arrives in whatever order, every scan is  *)
(* handed over once, in order and with its own begin, no IMU message ends  *)
(* in the wrong interval, the motion between two LIO steps is covered      *)
(* without gap, a keyframe with an IMU carries the end of its scan, and    *)
(* an empty cloud is read only where the callback stores one.              *)
THEOREM ScansAreSynchronised == OdometrySpec => []ScansSynchronised
<1>1. OdometryInit => FrontKept
  BY FrontStarts DEF OdometryInit, FrontKept, OneOf
<1>2. FrontKept /\ [OdometryNext]_allVars => FrontKept'
  BY FrontPart
<1>3. FrontKept => ScansSynchronised
  BY FrontMeaning DEF FrontKept, ScansSynchronised
<1> QED
  BY <1>1, <1>2, <1>3, PTL DEF OdometrySpec

-----------------------------------------------------------------------------
(***************************************************************************)
(* The times of a cloud                                                    *)
(***************************************************************************)
SortedTypes == {"OUST64", "PANDAR128", "ROBOSENSE"}
KeptPoint == [n : Nat, line : Int, curvature : Int, true : Int]
RingState == [is_first : BOOLEAN, first : Int, last : Int, yaw_fp : Int, time_last : Int]

CloudTyped(p) ==
  /\ preprocessPc \in {"points", "done"} /\ pointIndex \in Nat /\ now \in Int
  /\ valid_num \in Nat /\ full \in Int /\ start \in Int /\ given_offset_time \in BOOLEAN
  /\ ring \in [CloudSettings[p].lines -> RingState]
  /\ preprocessPc = "points" => pl_surf \in Seq(KeptPoint)

(* No point kept is later than the last one read, by the handlers that do  *)
(* not sort; the time of a Livox point runs on and never ahead of the      *)
(* clock.                                                                  *)
Latest == CASE lidar = "AVIA" -> full [] lidar = "L515" -> 0 [] OTHER -> now
ReadInOrder(p) ==
  given_offset_time /\ preprocessPc = "points" /\ lidar \notin SortedTypes
    /\ Cloud(p)!LinesConfigured =>
    /\ Cloud(p)!Ordered(pl_surf)
    /\ \A n \in DOMAIN pl_surf : pl_surf[n].curvature <= Latest
ClockAhead(p) ==
  /\ 0 <= now \/ lidar \in SortedTypes
  /\ pointIndex = 0 => now = 0 /\ full = 0 /\ pl_surf = <<>>
  /\ lidar = "AVIA" /\ Cloud(p)!LinesConfigured => 0 <= full /\ full <= now

(* The rotor: what a ring keeps of its first and its last point.           *)
RingTrue(p, l) ==
  ~ring[l].is_first =>
    /\ 0 <= ring[l].first /\ ring[l].first <= ring[l].last /\ ring[l].last <= now
    /\ ring[l].yaw_fp = Cloud(p)!Yaw(start + ring[l].first)
    /\ ring[l].time_last = ring[l].last - ring[l].first
RotorTrue(p) ==
  ~given_offset_time =>
    /\ lidar = "VELO16"
    /\ now < 2 * CloudSettings[p].turn => \A l \in CloudSettings[p].lines : RingTrue(p, l)

CloudInv(p) ==
  /\ CloudTyped(p) /\ ReadInOrder(p) /\ ClockAhead(p) /\ RotorTrue(p)
  /\ Cloud(p)!InOrder /\ Cloud(p)!RingTimes
CloudsKept == \A q \in Clouds : part = q => CloudInv(q)

LEMMA CloudConstants ==
  ASSUME NEW p \in Clouds
  PROVE  /\ CloudSettings[p].lines \subseteq Nat /\ CloudSettings[p].n_scans \in Nat
         /\ CloudSettings[p].filter \in Nat \ {0} /\ CloudSettings[p].gaps \subseteq Int
         /\ CloudSettings[p].jump \in Nat \ {0} /\ CloudSettings[p].turn \in Nat \ {0}
         /\ CloudSettings[p].turn % 2 = 0 /\ CloudSettings[p].starts \subseteq Int
         /\ CloudSettings[p].max_points \in Nat
BY InputsAssumption DEF Cloud!PreprocessAssumption

LEMMA CloudStarts ==
  ASSUME NEW p \in Clouds, Cloud(p)!Init
  PROVE  CloudInv(p)
<1>1. /\ preprocessPc = "points" /\ pointIndex = 0 /\ now = 0 /\ valid_num = 0 /\ full = 0
      /\ start \in Int /\ pl_surf = <<>> /\ given_offset_time \in BOOLEAN
      /\ lidar # "VELO16" => given_offset_time
      /\ ring = [l \in CloudSettings[p].lines |-> Cloud(p)!NoPoint]
  BY CloudConstants DEF Cloud!Init
<1>2. Cloud(p)!NoPoint \in RingState /\ Cloud(p)!NoPoint.is_first
  BY DEF Cloud!NoPoint, RingState
<1>3. ring \in [CloudSettings[p].lines -> RingState]
      /\ \A l \in CloudSettings[p].lines : ring[l].is_first
  BY <1>1, <1>2
<1>4. Cloud(p)!Ordered(<<>>) /\ <<>> \in Seq(KeptPoint)
  BY DEF Cloud!Ordered
<1>5. CloudTyped(p)
  BY <1>1, <1>3, <1>4 DEF CloudTyped
<1>6. RotorTrue(p) /\ ClockAhead(p)
  BY <1>1, <1>3 DEF RotorTrue, RingTrue, ClockAhead
<1>7. ReadInOrder(p) /\ Cloud(p)!InOrder /\ Cloud(p)!RingTimes
  BY <1>1, <1>4 DEF ReadInOrder, Cloud!InOrder, Cloud!RingTimes
<1> QED
  BY <1>5, <1>6, <1>7 DEF CloudInv

-----------------------------------------------------------------------------
(* Angles: what the rotor has swept is the time gone by, up to a turn.     *)
LEMMA Remainder ==
  ASSUME NEW a \in Int, NEW T \in Nat \ {0}
  PROVE  /\ a % T \in 0 .. T - 1
         /\ \E k \in Int : a = T * k + (a % T)
<1>1. a % T \in 0 .. T - 1
  OBVIOUS
<1>2. a = T * (a \div T) + (a % T) /\ a \div T \in Int
  OBVIOUS
<1> QED
  BY <1>1, <1>2

LEMMA OneTurn ==
  ASSUME NEW T \in Nat \ {0}, NEW k \in Int, NEW t \in 0 .. T - 1, NEW d \in Nat,
         d < 2 * T, d = T * k + t
  PROVE  d = t \/ d = t + T
<1>1. k >= 0
  <2> SUFFICES ASSUME k <= -1 PROVE FALSE
    OBVIOUS
  <2>1. T * k <= T * (-1)
    OBVIOUS
  <2> QED
    BY <2>1
<1>2. k <= 1
  <2> SUFFICES ASSUME k >= 2 PROVE FALSE
    OBVIOUS
  <2>1. T * k >= T * 2
    OBVIOUS
  <2> QED
    BY <2>1
<1>3. k = 0 \/ k = 1
  BY <1>1, <1>2
<1>4. CASE k = 0
  BY <1>4
<1>5. CASE k = 1
  BY <1>5
<1> QED
  BY <1>3, <1>4, <1>5

(* The angle from one direction back to another, of a rotor that turns     *)
(* clockwise through d steps, less than two turns.                         *)
LEMMA SweptIsTime ==
  ASSUME NEW p \in Clouds, NEW a \in Int, NEW d \in Nat, NEW r,
         d < 2 * CloudSettings[p].turn, r.yaw_fp = Cloud(p)!Yaw(a)
  PROVE  LET t == Cloud(p)!Swept(r, Cloud(p)!Yaw(a + d))
         IN  t \in Int /\ (d = t \/ d = t + CloudSettings[p].turn)
             /\ t \in 0 .. CloudSettings[p].turn - 1
<1> DEFINE T == CloudSettings[p].turn
           half == T \div 2
           y0 == (-a) % T
           y1 == (-(a + d)) % T
           yaw0 == Cloud(p)!Yaw(a)
           yaw1 == Cloud(p)!Yaw(a + d)
           t == Cloud(p)!Swept(r, yaw1)
<1>1. T \in Nat \ {0} /\ half \in Nat /\ -a \in Int /\ -(a + d) \in Int
  BY CloudConstants
<1>2. y0 \in 0 .. T - 1 /\ y1 \in 0 .. T - 1
  BY <1>1, Remainder
<1>3. PICK k0 \in Int : -a = T * k0 + y0
  BY <1>1, Remainder
<1>4. PICK k1 \in Int : -(a + d) = T * k1 + y1
  BY <1>1, Remainder
<1>5. yaw0 = (IF y0 > half THEN y0 - T ELSE y0) /\ yaw1 = (IF y1 > half THEN y1 - T ELSE y1)
  BY DEF Cloud!Yaw
<1>6. t = IF yaw1 <= yaw0 THEN yaw0 - yaw1 ELSE yaw0 - yaw1 + T
  BY DEF Cloud!Swept
<1>7. half < T /\ T - half >= 0 /\ T <= half + half + 1
  BY <1>1
<1> HIDE DEF T, half, y0, y1, yaw0, yaw1, t
<1>8. yaw0 \in Int /\ yaw1 \in Int /\ yaw0 - yaw1 < T /\ yaw1 - yaw0 < T
      /\ (yaw0 = y0 \/ yaw0 = y0 - T) /\ (yaw1 = y1 \/ yaw1 = y1 - T)
  BY <1>1, <1>2, <1>5, <1>7
<1>9. t \in 0 .. T - 1 /\ t \in Int /\ (t = yaw0 - yaw1 \/ t = yaw0 - yaw1 + T)
  BY <1>1, <1>6, <1>8
<1>10. \E m \in Int : t = y0 - y1 + T * m
  <2>1. t = y0 - y1 + T * 0 \/ t = y0 - y1 + T * 1 \/ t = y0 - y1 + T * 2 \/ t = y0 - y1 + T * (-1)
    BY <1>1, <1>2, <1>8, <1>9
  <2> QED
    BY <2>1
<1>11. PICK m \in Int : t = y0 - y1 + T * m
  BY <1>10
<1>12. d = T * (k0 - k1) + (y0 - y1)
  <2>1. T * (k0 - k1) = T * k0 - T * k1
    BY <1>1
  <2>2. T * k0 \in Int /\ T * k1 \in Int
    BY <1>1
  <2>3. d = -a - (-(a + d))
    OBVIOUS
  <2>4. d = (T * k0 + y0) - (T * k1 + y1)
    <3> DEFINE u == -a
               v == -(a + d)
    <3>1. d = u - v /\ u = T * k0 + y0 /\ v = T * k1 + y1
      BY <1>3, <1>4, <2>3
    <3> HIDE DEF u, v
    <3> QED
      BY <3>1
  <2> QED
    BY <1>2, <2>1, <2>2, <2>4
<1>13. d = T * (k0 - k1 - m) + t
  <2>1. T * (k0 - k1 - m) = T * (k0 - k1) - T * m
    BY <1>1
  <2>2. T * (k0 - k1) \in Int /\ T * m \in Int
    BY <1>1
  <2> QED
    BY <1>2, <1>11, <1>12, <2>1, <2>2
<1>14. d = t \/ d = t + T
  <2>1. d < 2 * T
    BY DEF T
  <2>2. k0 - k1 - m \in Int
    OBVIOUS
  <2> DEFINE k == k0 - k1 - m
  <2>3. k \in Int /\ d = T * k + t
    BY <1>13, <2>2
  <2> HIDE DEF k
  <2> QED
    BY <1>1, <1>9, <2>1, <2>3, OneTurn
<1> QED
  BY <1>9, <1>14 DEF t, T, yaw1

-----------------------------------------------------------------------------
(* A point kept at the end, when it is not earlier than those before it.   *)
LEMMA KeptLast ==
  ASSUME NEW p \in Clouds, NEW s \in Seq(KeptPoint), NEW e \in KeptPoint, Cloud(p)!Ordered(s),
         \A n \in DOMAIN s : s[n].curvature <= e.curvature
  PROVE  /\ Append(s, e) \in Seq(KeptPoint) /\ Cloud(p)!Ordered(Append(s, e))
         /\ \A n \in DOMAIN Append(s, e) : Append(s, e)[n].curvature <= e.curvature
<1> DEFINE k == Len(s)
           q == Append(s, e)
<1>1. /\ k \in Nat /\ DOMAIN s = 1 .. k /\ q \in Seq(KeptPoint) /\ DOMAIN q = 1 .. k + 1
      /\ \A n \in 1 .. k : q[n] = s[n]
      /\ q[k + 1] = e
  BY AppendProperties
<1>2. \A n \in 1 .. k + 1 : n \in 1 .. k \/ n = k + 1
  BY <1>1
<1>3. e.curvature \in Int
  BY DEF KeptPoint
<1> HIDE DEF q, k
<1>4. \A n \in 1 .. k + 1 : q[n].curvature <= e.curvature
  BY <1>1, <1>2, <1>3
<1>5. \A m, n \in 1 .. k + 1 : m <= n => q[m].curvature <= q[n].curvature
  <2> SUFFICES ASSUME NEW m \in 1 .. k + 1, NEW n \in 1 .. k + 1, m <= n
               PROVE  q[m].curvature <= q[n].curvature
    OBVIOUS
  <2>1. CASE n = k + 1
    BY <1>1, <1>4, <2>1
  <2>2. CASE n \in 1 .. k
    <3>1. m \in 1 .. k
      BY <1>1, <2>2
    <3> QED
      BY <1>1, <2>2, <3>1 DEF Cloud!Ordered
  <2> QED
    BY <1>2, <2>1, <2>2
<1> QED
  BY <1>1, <1>4, <1>5 DEF Cloud!Ordered, q

(* What every handler does first.                                          *)
LEMMA Taken ==
  ASSUME NEW p \in Clouds, CloudInv(p), NEW types, Cloud(p)!Take(types)
  PROVE  /\ preprocessPc = "points" /\ lidar \in types /\ pointIndex' = pointIndex + 1
         /\ pointIndex \in Nat /\ pointIndex' \in Nat /\ pointIndex' # 0
         /\ pl_surf \in Seq(KeptPoint)
  BY DEF Cloud!Take, CloudInv, CloudTyped

LEMMA DistanceAhead ==
  ASSUME NEW p \in Clouds, NEW a \in Int, NEW b \in Int, b <= a
  PROVE  Cloud(p)!Abs(a - b) = a - b
BY DEF Cloud!Abs

LEMMA AviaKeeps ==
  ASSUME NEW p \in Clouds, CloudInv(p), Cloud(p)!avia_handler
  PROVE  CloudInv(p)'
<1> DEFINE set == CloudSettings[p]
<1>1. /\ preprocessPc = "points" /\ lidar = "AVIA" /\ pointIndex' = pointIndex + 1
      /\ pointIndex \in Nat /\ pointIndex' \in Nat /\ pointIndex' # 0
      /\ pl_surf \in Seq(KeptPoint)
  BY Taken DEF Cloud!avia_handler
<1>2. UNCHANGED <<preprocessPc, lidar, given_offset_time, ring, start>>
  BY DEF Cloud!avia_handler
<1>3. PICK gap \in set.gaps, line \in set.lines, blind \in BOOLEAN :
          /\ gap >= 0 /\ now' = IF pointIndex = 0 THEN 0 ELSE now + gap
          /\ IF line < set.n_scans
             THEN /\ valid_num' = valid_num + 1
                  /\ full' = Cloud(p)!AviaTime(now')
                  /\ IF valid_num' % set.filter = 0 /\ ~blind
                     THEN Cloud(p)!Keep(line, full', now') ELSE UNCHANGED pl_surf
             ELSE full' = 0 /\ UNCHANGED <<valid_num, pl_surf>>
  BY DEF Cloud!avia_handler
<1>4. /\ now \in Int /\ full \in Int /\ valid_num \in Nat /\ gap \in Int /\ line \in Int
      /\ line \in set.lines /\ set.n_scans \in Nat /\ set.jump \in Nat \ {0}
      /\ 0 <= now /\ given_offset_time
      /\ pointIndex = 0 => now = 0 /\ full = 0 /\ pl_surf = <<>>
  BY <1>1, CloudConstants DEF CloudInv, CloudTyped, ClockAhead, RotorTrue, SortedTypes
<1> HIDE DEF set
<1>5. now' \in Int /\ now <= now' /\ 0 <= now'
  BY <1>3, <1>4
<1>6. full' \in Int /\ valid_num' \in Nat
  BY <1>3, <1>4, <1>5 DEF Cloud!AviaTime, set
<1> DEFINE e == [n |-> pointIndex, line |-> line, curvature |-> full', true |-> now']
<1>7. /\ pl_surf' = pl_surf \/ pl_surf' = Append(pl_surf, e)
      /\ e \in KeptPoint /\ e.curvature = full'
  BY <1>1, <1>3, <1>4, <1>5, <1>6 DEF Cloud!Keep, KeptPoint
<1> HIDE DEF e
<1>8. pl_surf' \in Seq(KeptPoint)
  BY <1>1, <1>7, AppendProperties
<1>9. CloudTyped(p)'
  BY <1>1, <1>2, <1>5, <1>6, <1>8 DEF CloudInv, CloudTyped
<1>10. ASSUME Cloud(p)!LinesConfigured
       PROVE  0 <= full /\ full <= now /\ 0 <= full' /\ full' <= now' /\ full <= full'
  <2>1. line < set.n_scans
    BY <1>1, <1>3, <1>10 DEF Cloud!LinesConfigured, set
  <2>2. 0 <= full /\ full <= now
    BY <1>1, <1>10 DEF CloudInv, ClockAhead
  <2>3. full' = Cloud(p)!AviaTime(now')
    BY <1>3, <2>1
  <2>4. CASE pointIndex = 0
    BY <1>3, <1>4, <2>2, <2>3, <2>4 DEF Cloud!AviaTime
  <2>5. CASE pointIndex # 0
    <3>1. full' = IF Cloud(p)!Abs(now' - full) < set.jump THEN now' ELSE full + 1
      BY <2>3, <2>5 DEF Cloud!AviaTime, set
    <3>2. Cloud(p)!Abs(now' - full) = now' - full
      <4>1. full \in Int /\ now' \in Int /\ full <= now'
        BY <1>4, <1>5, <2>2
      <4> QED
        BY <4>1, DistanceAhead
    <3> QED
      BY <1>4, <1>5, <2>2, <3>1, <3>2
  <2> QED
    BY <2>2, <2>4, <2>5
<1>11. Cloud(p)!LinesConfigured' <=> Cloud(p)!LinesConfigured
  BY <1>2 DEF Cloud!LinesConfigured
<1>12. ClockAhead(p)'
  BY <1>1, <1>2, <1>5, <1>10, <1>11 DEF ClockAhead
<1>13. ReadInOrder(p)'
  <2> SUFFICES ASSUME Cloud(p)!LinesConfigured
               PROVE  /\ Cloud(p)!Ordered(pl_surf')
                      /\ \A n \in DOMAIN pl_surf' : pl_surf'[n].curvature <= full'
    BY <1>1, <1>2, <1>11 DEF ReadInOrder, Latest, Cloud!Ordered
  <2>1. /\ Cloud(p)!Ordered(pl_surf)
        /\ \A n \in DOMAIN pl_surf : pl_surf[n].curvature <= full
    BY <1>1, <1>4 DEF CloudInv, ReadInOrder, SortedTypes, Latest
  <2>2. \A n \in DOMAIN pl_surf : pl_surf[n].curvature \in Int
    <3>1. \A n \in DOMAIN pl_surf : pl_surf[n] \in KeptPoint
      BY <1>1, ElementOfSeq
    <3> QED
      BY <3>1 DEF KeptPoint
  <2>3. \A n \in DOMAIN pl_surf : pl_surf[n].curvature <= full'
    BY <1>4, <1>6, <1>10, <2>1, <2>2
  <2> QED
    BY <1>1, <1>7, <2>1, <2>3, KeptLast
<1>14. RotorTrue(p)' /\ Cloud(p)!InOrder' /\ Cloud(p)!RingTimes'
  BY <1>1, <1>2, <1>4 DEF RotorTrue, Cloud!InOrder, Cloud!RingTimes
<1> QED
  BY <1>9, <1>12, <1>13, <1>14 DEF CloudInv

LEMMA L515Keeps ==
  ASSUME NEW p \in Clouds, CloudInv(p), Cloud(p)!l515_handler
  PROVE  CloudInv(p)'
<1> DEFINE e == [n |-> pointIndex, line |-> 0, curvature |-> 0, true |-> 0]
<1>1. /\ preprocessPc = "points" /\ lidar = "L515" /\ pointIndex' = pointIndex + 1
      /\ pointIndex \in Nat /\ pointIndex' \in Nat /\ pointIndex' # 0
      /\ pl_surf \in Seq(KeptPoint)
  BY Taken DEF Cloud!l515_handler
<1>2. /\ UNCHANGED <<preprocessPc, lidar, now, given_offset_time, valid_num, full, ring, start>>
      /\ pl_surf' = pl_surf \/ pl_surf' = Append(pl_surf, e)
  BY DEF Cloud!l515_handler, Cloud!Keep
<1>3. e \in KeptPoint /\ e.curvature = 0 /\ given_offset_time
  BY <1>1 DEF KeptPoint, CloudInv, RotorTrue
<1> HIDE DEF e
<1>4. pl_surf' \in Seq(KeptPoint)
  BY <1>1, <1>2, <1>3, AppendProperties
<1>5. CloudTyped(p)'
  BY <1>1, <1>2, <1>4 DEF CloudInv, CloudTyped
<1>6. ReadInOrder(p)'
  <2>1. /\ Cloud(p)!Ordered(pl_surf)
        /\ \A n \in DOMAIN pl_surf : pl_surf[n].curvature <= 0
    BY <1>1, <1>3 DEF CloudInv, ReadInOrder, SortedTypes, Latest, Cloud!LinesConfigured
  <2>2. Cloud(p)!Ordered(pl_surf') /\ \A n \in DOMAIN pl_surf' : pl_surf'[n].curvature <= 0
    BY <1>1, <1>2, <1>3, <2>1, KeptLast
  <2> QED
    BY <1>1, <1>2, <2>2 DEF ReadInOrder, Latest, Cloud!Ordered
<1>7. ClockAhead(p)' /\ RotorTrue(p)' /\ Cloud(p)!InOrder' /\ Cloud(p)!RingTimes'
  BY <1>1, <1>2, <1>3 DEF CloudInv, ClockAhead, RotorTrue, Cloud!InOrder, Cloud!RingTimes
<1> QED
  BY <1>5, <1>6, <1>7 DEF CloudInv

LEMMA StampedKeeps ==
  ASSUME NEW p \in Clouds, CloudInv(p), NEW types, NEW gaps \in SUBSET CloudSettings[p].gaps,
         types \subseteq SortedTypes \/ (types = {"XT32"} /\ \A g \in gaps : g >= 0),
         Cloud(p)!Stamped(types, gaps)
  PROVE  CloudInv(p)'
<1> DEFINE e == [n |-> pointIndex, line |-> 0, curvature |-> now', true |-> now']
<1>1. /\ preprocessPc = "points" /\ lidar \in types /\ pointIndex' = pointIndex + 1
      /\ pointIndex \in Nat /\ pointIndex' \in Nat /\ pointIndex' # 0
      /\ pl_surf \in Seq(KeptPoint)
  BY Taken DEF Cloud!Stamped
<1>2. /\ UNCHANGED <<preprocessPc, lidar, given_offset_time, valid_num, full, ring, start>>
      /\ pl_surf' = pl_surf \/ pl_surf' = Append(pl_surf, e)
  BY DEF Cloud!Stamped, Cloud!Keep
<1>3. PICK gap \in gaps : now' = IF pointIndex = 0 THEN 0 ELSE now + gap
  BY DEF Cloud!Stamped
<1>4. now \in Int /\ gap \in Int /\ now' \in Int
  BY <1>3, CloudConstants DEF CloudInv, CloudTyped
<1>5. /\ lidar # "AVIA" /\ lidar # "L515" /\ lidar # "VELO16" /\ given_offset_time
      /\ lidar \in SortedTypes \/ \A g \in gaps : g >= 0
      /\ 0 <= now \/ lidar \in SortedTypes
      /\ pointIndex = 0 => now = 0
  BY <1>1 DEF SortedTypes, CloudInv, RotorTrue, ClockAhead
<1>6. lidar \in SortedTypes \/ (now <= now' /\ 0 <= now')
  BY <1>3, <1>4, <1>5
<1>7. e \in KeptPoint /\ e.curvature = now'
  BY <1>1, <1>4 DEF KeptPoint
<1> HIDE DEF e
<1>8. pl_surf' \in Seq(KeptPoint)
  BY <1>1, <1>2, <1>7, AppendProperties
<1>9. CloudTyped(p)'
  BY <1>1, <1>2, <1>4, <1>8 DEF CloudInv, CloudTyped
<1>10. ReadInOrder(p)'
  <2> SUFFICES ASSUME lidar \notin SortedTypes
               PROVE  /\ Cloud(p)!Ordered(pl_surf')
                      /\ \A n \in DOMAIN pl_surf' : pl_surf'[n].curvature <= now'
    BY <1>1, <1>2, <1>5 DEF ReadInOrder, Latest, Cloud!Ordered
  <2>1. /\ Cloud(p)!Ordered(pl_surf)
        /\ \A n \in DOMAIN pl_surf : pl_surf[n].curvature <= now
    BY <1>1, <1>5 DEF CloudInv, ReadInOrder, Latest, Cloud!LinesConfigured
  <2>2. \A n \in DOMAIN pl_surf : pl_surf[n].curvature \in Int
    <3>1. \A n \in DOMAIN pl_surf : pl_surf[n] \in KeptPoint
      BY <1>1, ElementOfSeq
    <3> QED
      BY <3>1 DEF KeptPoint
  <2>3. \A n \in DOMAIN pl_surf : pl_surf[n].curvature <= now'
    BY <1>4, <1>6, <2>1, <2>2
  <2> QED
    BY <1>1, <1>2, <1>7, <2>1, <2>3, KeptLast
<1>11. ClockAhead(p)' /\ RotorTrue(p)' /\ Cloud(p)!InOrder' /\ Cloud(p)!RingTimes'
  BY <1>1, <1>2, <1>5, <1>6 DEF ClockAhead, RotorTrue, Cloud!InOrder, Cloud!RingTimes
<1> QED
  BY <1>9, <1>10, <1>11 DEF CloudInv

(* A rotor with the times of its points.                                   *)
LEMMA VelodyneStamped ==
  ASSUME NEW p \in Clouds, CloudInv(p), Cloud(p)!velodyne_handler, given_offset_time
  PROVE  CloudInv(p)'
<1>1. /\ preprocessPc = "points" /\ lidar = "VELO16" /\ pointIndex' = pointIndex + 1
      /\ pointIndex \in Nat /\ pointIndex' \in Nat /\ pointIndex' # 0
      /\ pl_surf \in Seq(KeptPoint)
  BY Taken DEF Cloud!velodyne_handler
<1>2. PICK gap \in CloudSettings[p].gaps, line \in CloudSettings[p].lines :
          /\ gap >= 0 /\ now' = now + gap /\ UNCHANGED ring
          /\ \/ pl_surf' = pl_surf
             \/ pl_surf' = Append(pl_surf, [n |-> pointIndex, line |-> line, curvature |-> now',
                                            true |-> now'])
  BY DEF Cloud!velodyne_handler, Cloud!Keep
<1>3. UNCHANGED <<preprocessPc, lidar, given_offset_time, valid_num, full, start>>
  BY DEF Cloud!velodyne_handler
<1> DEFINE e == [n |-> pointIndex, line |-> line, curvature |-> now', true |-> now']
<1>4. now \in Int /\ gap \in Int /\ now' \in Int /\ now <= now' /\ 0 <= now'
  BY <1>1, <1>2, CloudConstants DEF CloudInv, CloudTyped, ClockAhead, SortedTypes
<1>5. e \in KeptPoint /\ e.curvature = now'
  BY <1>1, <1>4, CloudConstants DEF KeptPoint
<1>6. pl_surf' = pl_surf \/ pl_surf' = Append(pl_surf, e)
  BY <1>2
<1> HIDE DEF e
<1>7. pl_surf' \in Seq(KeptPoint)
  BY <1>1, <1>5, <1>6, AppendProperties
<1>8. CloudTyped(p)'
  BY <1>1, <1>2, <1>3, <1>4, <1>7 DEF CloudInv, CloudTyped
<1>9. ReadInOrder(p)'
  <2>1. /\ Cloud(p)!Ordered(pl_surf)
        /\ \A n \in DOMAIN pl_surf : pl_surf[n].curvature <= now
    BY <1>1 DEF CloudInv, ReadInOrder, SortedTypes, Latest, Cloud!LinesConfigured
  <2>2. \A n \in DOMAIN pl_surf : pl_surf[n].curvature \in Int
    <3>1. \A n \in DOMAIN pl_surf : pl_surf[n] \in KeptPoint
      BY <1>1, ElementOfSeq
    <3> QED
      BY <3>1 DEF KeptPoint
  <2>3. \A n \in DOMAIN pl_surf : pl_surf[n].curvature <= now'
    BY <1>4, <2>1, <2>2
  <2>4. Cloud(p)!Ordered(pl_surf') /\ \A n \in DOMAIN pl_surf' : pl_surf'[n].curvature <= now'
    BY <1>1, <1>5, <1>6, <2>1, <2>3, KeptLast
  <2> QED
    BY <1>1, <1>3, <2>4 DEF ReadInOrder, Latest, Cloud!Ordered
<1>10. ClockAhead(p)' /\ RotorTrue(p)' /\ Cloud(p)!InOrder' /\ Cloud(p)!RingTimes'
  BY <1>1, <1>3, <1>4 DEF ClockAhead, RotorTrue, Cloud!InOrder, Cloud!RingTimes
<1> QED
  BY <1>8, <1>9, <1>10 DEF CloudInv

(* A rotor without: the time computed from the yaw is the one gone by.     *)
LEMMA OffsetIsTrue ==
  ASSUME NEW p \in Clouds, CloudInv(p), ~given_offset_time, NEW l \in CloudSettings[p].lines,
         NEW then \in Int, now <= then, then < 2 * CloudSettings[p].turn, ~ring[l].is_first,
         then - ring[l].last < CloudSettings[p].turn
  PROVE  Cloud(p)!OffsetTime(ring[l], Cloud(p)!Yaw(start + then)) = then - ring[l].first
<1> DEFINE r == ring[l]
           T == CloudSettings[p].turn
           d == then - r.first
           t == Cloud(p)!Swept(r, Cloud(p)!Yaw(start + then))
<1>1. now \in Int /\ start \in Int /\ T \in Nat \ {0} /\ r \in RingState
  BY CloudConstants DEF CloudInv, CloudTyped
<1>2. r.first \in Int /\ r.last \in Int
  BY <1>1 DEF RingState
<1>3. now < 2 * T
  BY <1>1
<1>4. /\ 0 <= r.first /\ r.first <= r.last /\ r.last <= now
      /\ r.yaw_fp = Cloud(p)!Yaw(start + r.first) /\ r.time_last = r.last - r.first
  BY <1>3 DEF CloudInv, RotorTrue, RingTrue
<1>5. d \in Nat /\ d < 2 * T /\ start + r.first \in Int /\ start + r.first + d = start + then
      /\ r.time_last <= d /\ d < r.time_last + T /\ r.time_last \in Int
  BY <1>1, <1>2, <1>4
<1>6. t \in Int /\ (d = t \/ d = t + T) /\ t \in 0 .. T - 1
  <2>1. LET u == Cloud(p)!Swept(r, Cloud(p)!Yaw(start + r.first + d))
        IN  u \in Int /\ (d = u \/ d = u + T) /\ u \in 0 .. T - 1
    <3> DEFINE a == start + r.first
    <3>1. a \in Int /\ r.yaw_fp = Cloud(p)!Yaw(a)
      BY <1>4, <1>5
    <3> HIDE DEF a, d, r
    <3>2. LET u == Cloud(p)!Swept(r, Cloud(p)!Yaw(a + d))
          IN  u \in Int /\ (d = u \/ d = u + T) /\ u \in 0 .. T - 1
      BY <1>5, <3>1, SweptIsTime
    <3> QED
      BY <3>2 DEF a
  <2> QED
    BY <1>5, <2>1
<1>7. Cloud(p)!OffsetTime(r, Cloud(p)!Yaw(start + then)) = IF t < r.time_last THEN t + T ELSE t
  BY DEF Cloud!OffsetTime
<1> HIDE DEF t, d, T
<1>8. (IF t < r.time_last THEN t + T ELSE t) = d
  BY <1>1, <1>5, <1>6
<1> QED
  BY <1>7, <1>8 DEF d

LEMMA VelodyneRing ==
  ASSUME NEW p \in Clouds, CloudInv(p), Cloud(p)!velodyne_handler, ~given_offset_time
  PROVE  CloudInv(p)'
<1> DEFINE lines == CloudSettings[p].lines
           T == CloudSettings[p].turn
<1>1. /\ preprocessPc = "points" /\ lidar = "VELO16" /\ pointIndex' = pointIndex + 1
      /\ pointIndex \in Nat /\ pointIndex' \in Nat /\ pointIndex' # 0
      /\ pl_surf \in Seq(KeptPoint)
  BY Taken DEF Cloud!velodyne_handler
<1>2. PICK gap \in CloudSettings[p].gaps, line \in lines :
          LET angle == start + now'
              r == ring[line]
              time == Cloud(p)!OffsetTime(r, Cloud(p)!Yaw(angle))
          IN  /\ gap >= 0 /\ now' = now + gap
              /\ IF r.is_first
                 THEN /\ ring' = [ring EXCEPT ![line] =
                             [is_first |-> FALSE, first |-> now', last |-> now',
                              yaw_fp |-> Cloud(p)!Yaw(angle), time_last |-> 0]]
                      /\ UNCHANGED pl_surf
                 ELSE /\ now' - r.last < T
                      /\ ring' = [ring EXCEPT ![line].time_last = time, ![line].last = now']
                      /\ \/ pl_surf' = pl_surf
                         \/ pl_surf' = Append(pl_surf, [n |-> pointIndex, line |-> line,
                                          curvature |-> time, true |-> now' - r.first])
  BY DEF Cloud!velodyne_handler, Cloud!Keep
<1>3. UNCHANGED <<preprocessPc, lidar, given_offset_time, valid_num, full, start>>
  BY DEF Cloud!velodyne_handler
<1> DEFINE r == ring[line]
           yaw == Cloud(p)!Yaw(start + now')
           time == Cloud(p)!OffsetTime(r, yaw)
           e == [n |-> pointIndex, line |-> line, curvature |-> time, true |-> now' - r.first]
<1>4. /\ now \in Int /\ gap \in Int /\ now' \in Int /\ now <= now' /\ 0 <= now /\ 0 <= now'
      /\ T \in Nat \ {0} /\ start \in Int /\ line \in Int
      /\ ring \in [lines -> RingState] /\ r \in RingState
  BY <1>1, <1>2, CloudConstants DEF CloudInv, CloudTyped, ClockAhead, SortedTypes
<1>5. yaw \in Int
  <2>1. start + now' \in Int
    BY <1>4
  <2>2. (-(start + now')) % T \in Int
    BY <1>4, <2>1, Remainder
  <2> QED
    BY <1>4, <2>2 DEF Cloud!Yaw
<1>6. /\ r.is_first \in BOOLEAN /\ r.first \in Int /\ r.last \in Int /\ r.yaw_fp \in Int
      /\ r.time_last \in Int
  BY <1>4 DEF RingState
<1>7. time \in Int
  <2> HIDE DEF yaw, r
  <2> QED
    BY <1>4, <1>5, <1>6 DEF Cloud!OffsetTime, Cloud!Swept
<1>8. /\ r.is_first => pl_surf' = pl_surf
      /\ pl_surf' = pl_surf \/ pl_surf' = Append(pl_surf, e)
  BY <1>2
<1>9. /\ ~r.is_first => now' - r.last < T
      /\ r.is_first => ring' = [ring EXCEPT ![line] =
                             [is_first |-> FALSE, first |-> now', last |-> now',
                              yaw_fp |-> yaw, time_last |-> 0]]
      /\ ~r.is_first => ring' = [ring EXCEPT ![line].time_last = time, ![line].last = now']
  BY <1>2
<1> HIDE DEF time, yaw, r
<1>10. e \in KeptPoint /\ e.curvature = time /\ e.true = now' - r.first
  BY <1>1, <1>4, <1>6, <1>7 DEF KeptPoint
<1> HIDE DEF e
<1>11. pl_surf' \in Seq(KeptPoint)
  BY <1>1, <1>8, <1>10, AppendProperties
<1> DEFINE r1 == ring'[line]
<1>12. /\ ring' \in [lines -> RingState]
       /\ \A l \in lines \ {line} : ring'[l] = ring[l]
       /\ r1.is_first = FALSE /\ r1.last = now'
       /\ r.is_first => r1.first = now' /\ r1.yaw_fp = yaw /\ r1.time_last = 0
       /\ ~r.is_first => r1.first = r.first /\ r1.yaw_fp = r.yaw_fp /\ r1.time_last = time
  <2>1. CASE r.is_first
    <3> DEFINE new == [is_first |-> FALSE, first |-> now', last |-> now',
                       yaw_fp |-> yaw, time_last |-> 0]
    <3>1. new \in RingState
      BY <1>4, <1>5 DEF RingState
    <3>2. ring' = [ring EXCEPT ![line] = new]
      BY <1>9, <2>1
    <3>3. ring' \in [lines -> RingState] /\ ring'[line] = new
          /\ \A l \in lines \ {line} : ring'[l] = ring[l]
      <4> HIDE DEF new
      <4> QED
        BY <1>4, <3>1, <3>2
    <3> QED
      BY <2>1, <3>3
  <2>2. CASE ~r.is_first
    <3> DEFINE new == [[r EXCEPT !.time_last = time] EXCEPT !.last = now']
    <3>1. /\ new \in RingState /\ new.is_first = r.is_first /\ new.first = r.first
          /\ new.yaw_fp = r.yaw_fp /\ new.time_last = time /\ new.last = now'
      BY <1>4, <1>7 DEF RingState, r
    <3>2. ring' = [ring EXCEPT ![line] = new]
      BY <1>4, <1>9, <2>2 DEF r
    <3>3. ring' \in [lines -> RingState] /\ ring'[line] = new
          /\ \A l \in lines \ {line} : ring'[l] = ring[l]
      <4> HIDE DEF new
      <4> QED
        BY <1>4, <3>1, <3>2
    <3> HIDE DEF new
    <3> QED
      BY <1>6, <2>2, <3>1, <3>3
  <2> QED
    BY <1>6, <2>1, <2>2
<1> HIDE DEF r1
<1>13. CloudTyped(p)'
  BY <1>1, <1>3, <1>4, <1>11, <1>12 DEF CloudInv, CloudTyped
<1>14. ReadInOrder(p)' /\ ClockAhead(p)' /\ Cloud(p)!InOrder'
  BY <1>1, <1>3, <1>4 DEF ReadInOrder, ClockAhead, Cloud!InOrder
<1>15. ASSUME now' < 2 * T
       PROVE  /\ now < 2 * T /\ \A l \in lines : RingTrue(p, l)
              /\ ~r.is_first => time = now' - r.first
  <2>1. now < 2 * T
    BY <1>4, <1>15
  <2>2. \A l \in lines : RingTrue(p, l)
    BY <2>1 DEF CloudInv, RotorTrue
  <2>3. ASSUME ~r.is_first PROVE time = now' - r.first
    BY <1>4, <1>9, <1>15, <2>3, OffsetIsTrue DEF time, yaw, r
  <2> QED
    BY <2>1, <2>2, <2>3
<1>16. RotorTrue(p)'
  <2> SUFFICES ASSUME now' < 2 * T, NEW l \in lines PROVE RingTrue(p, l)'
    BY <1>1, <1>3 DEF RotorTrue
  <2>0. now < 2 * T /\ RingTrue(p, l) /\ RingTrue(p, line) /\ (~r.is_first => time = now' - r.first)
    BY <1>15
  <2>1. CASE l # line
    <3>1. ring'[l] = ring[l] /\ ring[l] \in RingState
      BY <1>4, <1>12, <2>1
    <3>2. ring[l].last \in Int
      BY <3>1 DEF RingState
    <3>3. CASE ring[l].is_first
      BY <3>1, <3>3 DEF RingTrue
    <3>4. CASE ~ring[l].is_first
      <4>1. /\ 0 <= ring[l].first /\ ring[l].first <= ring[l].last
            /\ ring[l].last <= now
            /\ ring[l].yaw_fp = Cloud(p)!Yaw(start + ring[l].first)
            /\ ring[l].time_last = ring[l].last - ring[l].first
        BY <2>0, <3>4 DEF RingTrue
      <4>2. ring[l].last <= now'
        BY <1>4, <3>2, <4>1
      <4>3. /\ ring'[l].first = ring[l].first /\ ring'[l].last = ring[l].last
            /\ ring'[l].yaw_fp = ring[l].yaw_fp /\ ring'[l].time_last = ring[l].time_last
        BY <3>1
      <4>4. /\ 0 <= ring'[l].first /\ ring'[l].first <= ring'[l].last /\ ring'[l].last <= now'
            /\ ring'[l].yaw_fp = Cloud(p)!Yaw(start + ring'[l].first)
            /\ ring'[l].time_last = ring'[l].last - ring'[l].first
        BY <4>1, <4>2, <4>3
      <4> QED
        BY <1>3, <4>4 DEF RingTrue, Cloud!Yaw
    <3> QED
      BY <3>3, <3>4
  <2>2. CASE l = line /\ r.is_first
    <3>1. /\ ring'[l].first = now' /\ ring'[l].last = now' /\ ring'[l].yaw_fp = yaw
          /\ ring'[l].time_last = 0
      BY <1>12, <2>2 DEF r1
    <3>2. yaw = Cloud(p)!Yaw(start + now')
      BY DEF yaw
    <3>3. /\ 0 <= ring'[l].first /\ ring'[l].first <= ring'[l].last /\ ring'[l].last <= now'
          /\ ring'[l].yaw_fp = Cloud(p)!Yaw(start + ring'[l].first)
          /\ ring'[l].time_last = ring'[l].last - ring'[l].first
      <4> HIDE DEF yaw
      <4>1. now' \in Int /\ 0 <= now' /\ now' <= now' /\ now' - now' = 0
        BY <1>4
      <4>2. ring'[l].yaw_fp = Cloud(p)!Yaw(start + ring'[l].first)
        BY <3>1, <3>2
      <4> QED
        BY <3>1, <4>1, <4>2
    <3> QED
      BY <1>3, <3>3 DEF RingTrue, Cloud!Yaw
  <2>3. CASE l = line /\ ~r.is_first
    <3>1. /\ ring'[l].first = r.first /\ ring'[l].last = now' /\ ring'[l].yaw_fp = r.yaw_fp
          /\ ring'[l].time_last = now' - r.first
      BY <1>12, <2>0, <2>3 DEF r1
    <3>2. /\ 0 <= r.first /\ r.first <= r.last /\ r.last <= now
          /\ r.yaw_fp = Cloud(p)!Yaw(start + r.first)
      BY <2>0, <2>3 DEF RingTrue, r
    <3>3. r.first <= now'
      BY <1>4, <1>6, <3>2
    <3> QED
      BY <1>3, <1>4, <3>1, <3>2, <3>3 DEF RingTrue, Cloud!Yaw
  <2> QED
    BY <2>1, <2>2, <2>3
<1>17. Cloud(p)!RingTimes'
  <2> SUFFICES ASSUME now' < 2 * T
               PROVE  \A n \in DOMAIN pl_surf' : pl_surf'[n].curvature = pl_surf'[n].true
    BY <1>3 DEF Cloud!RingTimes
  <2>0. now < 2 * T /\ (~r.is_first => time = now' - r.first)
    BY <1>15
  <2>1. \A n \in DOMAIN pl_surf : pl_surf[n].curvature = pl_surf[n].true
    BY <2>0 DEF CloudInv, Cloud!RingTimes
  <2>2. CASE pl_surf' = pl_surf
    BY <2>1, <2>2
  <2>3. CASE pl_surf' # pl_surf
    <3>1. pl_surf' = Append(pl_surf, e) /\ e.curvature = e.true
      BY <1>8, <1>10, <2>0, <2>3
    <3>2. /\ DOMAIN pl_surf = 1 .. Len(pl_surf) /\ DOMAIN pl_surf' = 1 .. Len(pl_surf) + 1
          /\ \A n \in 1 .. Len(pl_surf) : pl_surf'[n] = pl_surf[n]
          /\ pl_surf'[Len(pl_surf) + 1] = e
          /\ \A n \in 1 .. Len(pl_surf) + 1 : n \in 1 .. Len(pl_surf) \/ n = Len(pl_surf) + 1
      BY <1>1, <1>10, <3>1, AppendProperties
    <3> QED
      BY <2>1, <3>1, <3>2
  <2> QED
    BY <2>2, <2>3
<1> QED
  BY <1>13, <1>14, <1>16, <1>17 DEF CloudInv

LEMMA ProcessKeeps ==
  ASSUME NEW p \in Clouds, CloudInv(p), Cloud(p)!Process
  PROVE  CloudInv(p)'
<1>1. /\ preprocessPc = "points" /\ preprocessPc' = "done"
      /\ pl_surf' \in Cloud(p)!Sorted(pl_surf)
      /\ UNCHANGED <<lidar, pointIndex, now, given_offset_time, valid_num, full, ring, start>>
  BY DEF Cloud!Process
<1>2. lidar \in SortedTypes => Cloud(p)!Ordered(pl_surf')
  BY <1>1 DEF Cloud!Sorted, SortedTypes
<1>3. lidar \notin SortedTypes => pl_surf' = pl_surf
  BY <1>1 DEF Cloud!Sorted, SortedTypes
<1>4. CloudTyped(p)'
  BY <1>1 DEF CloudInv, CloudTyped
<1>5. ReadInOrder(p)'
  BY <1>1 DEF ReadInOrder
<1>6. ClockAhead(p)'
  <2>1. pl_surf = <<>> => pl_surf' = <<>>
    <3> SUFFICES ASSUME lidar \in SortedTypes, pl_surf = <<>> PROVE pl_surf' = <<>>
      BY <1>3
    <3>1. PICK f \in Cloud(p)!Bijection(DOMAIN pl_surf, DOMAIN pl_surf) :
                 pl_surf' = [n \in DOMAIN pl_surf |-> pl_surf[f[n]]]
      BY <1>1 DEF Cloud!Sorted, SortedTypes
    <3> QED
      BY <3>1
  <2> QED
    BY <1>1, <2>1 DEF CloudInv, ClockAhead, Cloud!LinesConfigured
<1>7. Cloud(p)!InOrder'
  <2> SUFFICES ASSUME given_offset_time, Cloud(p)!LinesConfigured
               PROVE  Cloud(p)!Ordered(pl_surf')
    BY <1>1 DEF Cloud!InOrder, Cloud!Ordered, Cloud!LinesConfigured
  <2> QED
    BY <1>1, <1>2, <1>3 DEF CloudInv, ReadInOrder
<1>8. RotorTrue(p)' /\ Cloud(p)!RingTimes'
  <2>1. ~given_offset_time => lidar \notin SortedTypes
    BY DEF CloudInv, RotorTrue, SortedTypes
  <2> QED
    BY <1>1, <1>3, <2>1 DEF CloudInv, RotorTrue, RingTrue, Cloud!RingTimes, Cloud!Yaw
<1> QED
  BY <1>4, <1>5, <1>6, <1>7, <1>8 DEF CloudInv

LEMMA CloudStill ==
  ASSUME NEW p \in Clouds, CloudInv(p), UNCHANGED preprocessVars
  PROVE  CloudInv(p)'
BY DEF preprocessVars, CloudInv, CloudTyped, ReadInOrder, Latest, ClockAhead, RotorTrue, RingTrue,
       Cloud!InOrder, Cloud!RingTimes, Cloud!Ordered, Cloud!LinesConfigured, Cloud!Yaw

LEMMA CloudStep ==
  ASSUME NEW p \in Clouds, CloudInv(p), Cloud(p)!Next \/ UNCHANGED preprocessVars
  PROVE  CloudInv(p)'
<1>1. CASE Cloud(p)!oust64_handler
  BY <1>1, StampedKeeps DEF Cloud!oust64_handler, SortedTypes
<1>2. CASE Cloud(p)!Pandar128_handler
  BY <1>2, StampedKeeps DEF Cloud!Pandar128_handler, SortedTypes
<1>3. CASE Cloud(p)!robosense_handler
  BY <1>3, StampedKeeps DEF Cloud!robosense_handler, SortedTypes
<1>4. CASE Cloud(p)!xt32_handler
  <2> DEFINE gaps == {g \in CloudSettings[p].gaps : g >= 0}
  <2>1. gaps \in SUBSET CloudSettings[p].gaps /\ (\A g \in gaps : g >= 0)
        /\ Cloud(p)!Stamped({"XT32"}, gaps)
    BY <1>4 DEF Cloud!xt32_handler
  <2> HIDE DEF gaps
  <2> QED
    BY <2>1, StampedKeeps
<1> QED
  BY <1>1, <1>2, <1>3, <1>4, AviaKeeps, L515Keeps, VelodyneStamped, VelodyneRing, ProcessKeeps,
     CloudStill DEF Cloud!Next

LEMMA CloudPart ==
  ASSUME CloudsKept, [OdometryNext]_allVars
  PROVE  CloudsKept'
<1>1. part' = part
  BY DEF OdometryNext, Only, Rests, allVars
<1> SUFFICES ASSUME NEW p \in Clouds, part = p PROVE CloudInv(p)'
  BY <1>1 DEF CloudsKept, Clouds
<1>2. CloudInv(p)
  BY DEF CloudsKept
<1>3. Cloud(p)!Next \/ UNCHANGED preprocessVars
  <2>1. ASSUME NEW g \in Groups \ {"preprocess"}, Only(g) PROVE UNCHANGED preprocessVars
    <3>1. Still("preprocess")
      BY <2>1 DEF Only, Groups
    <3> QED
      BY <3>1 DEF Still
  <2>2. {"voxels", "lidar", "map", "visual", "window", "modes"} \subseteq Groups \ {"preprocess"}
    BY DEF Groups
  <2>3. UNCHANGED allVars => UNCHANGED preprocessVars
    BY DEF allVars
  <2> QED
    BY <2>1, <2>2, <2>3 DEF OdometryNext, Rests
<1> QED
  BY <1>2, <1>3, CloudStep

(* The handlers of Preprocess, for any lines, gaps between points, thinning *)
(* and start of the rotor: the last point handed on is the latest, since   *)
(* the handlers that do not sort read points in order; and a time computed *)
(* from the yaw is the time gone by since the ring's first point, in a     *)
(* scan of less than two turns, wherever it starts.                        *)
THEOREM PointTimesAreTrue == OdometrySpec => []PointTimesTrue
<1>1. OdometryInit => CloudsKept
  BY CloudStarts DEF OdometryInit, CloudsKept, OneOf
<1>2. CloudsKept /\ [OdometryNext]_allVars => CloudsKept'
  BY CloudPart
<1>3. CloudsKept => PointTimesTrue
  BY DEF CloudsKept, CloudInv, PointTimesTrue
<1> QED
  BY <1>1, <1>2, <1>3, PTL DEF OdometrySpec

-----------------------------------------------------------------------------
(***************************************************************************)
(* Patches inside the image                                                *)
(***************************************************************************)
WindowTyped(p) ==
  /\ windowPc \in {"start", "idle", "update", "revise"} /\ width \in Nat /\ height \in Nat
  /\ grid_size \in Nat /\ grid_n_height \in Nat
  /\ search_level \in Nat /\ windowLevel \in 0 .. WindowSettings[p].levels - 1
  /\ search_level <= WindowSettings[p].max_search
GridMade(p) ==
  /\ windowPc = "start" =>
       grid_n_height \in WindowSettings[p].grid_heights /\ grid_n_height <= height
  /\ windowPc # "start" =>
       /\ grid_size # 0 /\ grid_n_width = width \div grid_size
       /\ grid_n_height = height \div grid_size
PixelAccepted(p) ==
  windowPc \in {"update", "revise"} =>
    /\ px[1] \in Nat /\ px[2] \in Nat /\ Window(p)!isInFrame(px[1], px[2])
    /\ projection[1] \in Int /\ projection[2] \in Int
WindowInv(p) == WindowTyped(p) /\ GridMade(p) /\ PixelAccepted(p)
WindowsKept == \A q \in Windows : part = q => WindowInv(q)

LEMMA WindowConstants ==
  ASSUME NEW p \in Windows
  PROVE  LET set == WindowSettings[p]
         IN  /\ \A im \in set.images : im[1] \in Nat /\ im[2] \in Nat
             /\ set.grid_sizes \subseteq Nat /\ set.grid_heights \subseteq Nat \ {0}
             /\ set.grid_min \in Nat
             /\ \A im \in set.images, high \in set.grid_heights : high <= im[2]
             /\ set.patch_size \in Nat /\ set.patch_size % 2 = 0
             /\ set.levels \in Nat \ {0} /\ set.max_search \in Nat
             /\ set.moves \subseteq Int \X Int
             /\ Window(p)!Shift(0) = 1
             /\ \A k \in 0..(set.levels + set.max_search) :
                  Window(p)!Shift(k + 1) = 2 * Window(p)!Shift(k)
BY VisualAssumption DEF Window!PatchWindowAssumption

LEMMA ShiftPositive ==
  ASSUME NEW p \in Windows,
         NEW j \in 0 .. WindowSettings[p].levels + WindowSettings[p].max_search
  PROVE  Window(p)!Shift(j) \in Nat \ {0}
<1> DEFINE L == WindowSettings[p].levels + WindowSettings[p].max_search
           S(i) == Window(p)!Shift(i)
           bad == {i \in 0 .. L : S(i) \notin Nat \ {0}}
<1>1. L \in Nat /\ S(0) = 1 /\ \A i \in 0 .. L - 1 : S(i + 1) = 2 * S(i)
  BY WindowConstants
<1> SUFFICES ASSUME bad # {} PROVE FALSE
  OBVIOUS
<1> HIDE DEF L, S
<1>2. bad \in SUBSET Nat
  BY <1>1
<1>3. PICK i \in bad : \A m \in bad : i <= m
  <2> HIDE DEF bad
  <2> QED
    BY <1>2, LeastMember
<1>4. i # 0 /\ i \in Nat
  BY <1>1, <1>2, <1>3
<1>5. i - 1 \in 0 .. L - 1 /\ i - 1 \in 0 .. L /\ i - 1 + 1 = i /\ ~ (i <= i - 1)
  BY <1>1, <1>3, <1>4
<1>6. i - 1 \notin bad
  BY <1>3, <1>5
<1>7. S(i - 1) \in Nat \ {0} /\ S(i - 1 + 1) = 2 * S(i - 1)
  BY <1>1, <1>5, <1>6
<1>8. S(i) \in Nat \ {0}
  BY <1>5, <1>7
<1> QED
  BY <1>3, <1>8

(* What a pixel is rounded down to, and what of the border that keeps.     *)
LEMMA RoundedDown ==
  ASSUME NEW x \in Nat, NEW s \in Nat \ {0}, NEW b \in Nat, x >= b * s
  PROVE  LET y == (x \div s) * s IN y \in Nat /\ y <= x /\ y >= b * s
<1> DEFINE k == x \div s
<1>1. k \in Nat /\ x = s * k + (x % s) /\ x % s \in 0 .. s - 1
  OBVIOUS
<1> HIDE DEF k
<1>2. k * s = s * k /\ k * s \in Nat
  BY <1>1
<1>3. k * s <= x
  BY <1>1, <1>2
<1>4. k >= b
  <2> SUFFICES ASSUME k <= b - 1 PROVE FALSE
    BY <1>1
  <2>1. k * s <= (b - 1) * s
    BY <1>1
  <2>2. (b - 1) * s = b * s - s
    OBVIOUS
  <2> QED
    BY <1>1, <1>2, <2>1, <2>2
<1>5. k * s >= b * s
  BY <1>1, <1>4
<1> QED
  BY <1>2, <1>3, <1>5 DEF k

(* The cell of a pixel: the row of the grid and the column.                *)
LEMMA CellOf ==
  ASSUME NEW u \in Nat, NEW size \in Nat, NEW g \in Nat \ {0}, u + g <= size
  PROVE  u \div g \in 0 .. (size \div g) - 1
<1> DEFINE a == u \div g
           b == size \div g
<1>1. a \in Nat /\ u = g * a + (u % g) /\ u % g \in 0 .. g - 1
  OBVIOUS
<1>2. b \in Nat /\ size = g * b + (size % g) /\ size % g \in 0 .. g - 1
  OBVIOUS
<1> HIDE DEF a, b
<1>3. g * a \in Nat /\ g * b \in Nat
  BY <1>1, <1>2
<1>4. g * a < g * b
  BY <1>1, <1>2, <1>3
<1>5. a < b
  <2> SUFFICES ASSUME b <= a PROVE FALSE
    BY <1>1, <1>2
  <2>1. g * b <= g * a
    BY <1>1, <1>2
  <2> QED
    BY <1>3, <1>4, <2>1
<1> QED
  BY <1>1, <1>2, <1>5 DEF a, b

LEMMA IndexOf ==
  ASSUME NEW high \in Nat, NEW w \in Nat, NEW a \in 0 .. high - 1, NEW b \in 0 .. w - 1
  PROVE  a * w + b < w * high /\ (a * w + b) % w = b
<1> DEFINE n == a * w + b
<1>1. a * w \in Nat /\ w \in Nat \ {0} /\ n \in Nat
  OBVIOUS
<1>2. n < w * high
  <2>1. a + 1 <= high /\ a \in Nat /\ high \in Nat
    OBVIOUS
  <2>2. (a + 1) * w <= high * w
    BY <2>1
  <2>3. (a + 1) * w = a * w + w /\ high * w = w * high
    BY <2>1
  <2> QED
    BY <1>1, <2>2, <2>3
<1> HIDE DEF n
<1>0. n \in Int /\ w \in Nat \ {0}
  BY <1>1
<1>3. PICK k \in Int : n = w * k + (n % w)
  BY <1>0, Remainder
<1>4. n % w \in 0 .. w - 1
  BY <1>0, Remainder
<1> DEFINE r == n % w
<1>5. w * (k - a) = b - r
  <2>1. w * (k - a) = w * k - w * a /\ w * a = a * w
    OBVIOUS
  <2>2. n = a * w + b
    BY DEF n
  <2>3. w * k \in Int /\ r \in Int
    BY <1>4
  <2> HIDE DEF r
  <2>4. n = w * k + r
    BY <1>3 DEF r
  <2> QED
    BY <1>1, <2>1, <2>2, <2>3, <2>4
<1> DEFINE d == k - a
<1>6. d \in Int /\ w * d = b - r
  BY <1>5
<1>7. r \in 0 .. w - 1
  BY <1>4
<1> HIDE DEF d, r
<1>8. ~ (d >= 1)
  <2> SUFFICES ASSUME d >= 1 PROVE FALSE
    OBVIOUS
  <2>1. w * d >= w * 1
    BY <1>6
  <2> QED
    BY <1>6, <1>7, <2>1
<1>9. ~ (d <= -1)
  <2> SUFFICES ASSUME d <= -1 PROVE FALSE
    OBVIOUS
  <2>1. w * d <= w * (-1)
    BY <1>6
  <2> QED
    BY <1>6, <1>7, <2>1
<1>10. d = 0 /\ w * 0 = 0
  BY <1>6, <1>8, <1>9
<1>11. b = r
  BY <1>6, <1>7, <1>10
<1> QED
  BY <1>2, <1>11 DEF n, r

-----------------------------------------------------------------------------
LEMMA WindowStarts ==
  ASSUME NEW p \in Windows, Window(p)!Init
  PROVE  WindowInv(p)
<1>1. /\ windowPc = "start" /\ search_level = 0 /\ windowLevel = 0
      /\ grid_size \in WindowSettings[p].grid_sizes
      /\ grid_n_height \in WindowSettings[p].grid_heights
  BY DEF Window!Init
<1>2. PICK im \in WindowSettings[p].images : width = im[1] /\ height = im[2]
  BY DEF Window!Init
<1>3. width \in Nat /\ height \in Nat /\ grid_n_height <= height
  BY <1>1, <1>2, WindowConstants
<1>4. grid_size \in Nat /\ grid_n_height \in Nat
  BY <1>1, WindowConstants
<1>5. 0 \in 0 .. WindowSettings[p].levels - 1 /\ 0 <= WindowSettings[p].max_search
  BY WindowConstants
<1> QED
  BY <1>1, <1>3, <1>4, <1>5 DEF WindowInv, WindowTyped, GridMade, PixelAccepted

LEMMA WindowStep ==
  ASSUME NEW p \in Windows, WindowInv(p), Window(p)!Next \/ UNCHANGED windowVars
  PROVE  WindowInv(p)'
<1>1. CASE Window(p)!initializeVIO
  <2>1. /\ windowPc = "start" /\ windowPc' = "idle"
        /\ grid_size' = IF grid_size > WindowSettings[p].grid_min THEN grid_size
                        ELSE height \div grid_n_height
        /\ grid_n_height' = height \div grid_size' /\ grid_n_width' = width \div grid_size'
        /\ UNCHANGED <<width, height, search_level, windowLevel>>
    BY <1>1 DEF Window!initializeVIO
  <2>2. /\ width \in Nat /\ height \in Nat /\ grid_size \in Nat /\ WindowSettings[p].grid_min \in Nat
        /\ grid_n_height \in Nat \ {0} /\ grid_n_height <= height
    BY <2>1, WindowConstants DEF WindowInv, WindowTyped, GridMade
  <2>3. height \div grid_n_height \in Nat \ {0}
    <3>1. 0 + grid_n_height <= height /\ 0 \in Nat /\ 0 \div grid_n_height = 0
      BY <2>2
    <3>2. 0 \div grid_n_height \in 0 .. (height \div grid_n_height) - 1
      BY <2>2, <3>1, CellOf
    <3>3. height \div grid_n_height \in Nat
      BY <2>2
    <3> QED
      BY <3>1, <3>2, <3>3
  <2>4. grid_size' \in Nat \ {0}
    BY <2>1, <2>2, <2>3
  <2>5. height \div grid_size' \in Nat
    <3>1. \A a \in Nat, g \in Nat \ {0} : a \div g \in Nat
      OBVIOUS
    <3> QED
      BY <2>2, <2>4, <3>1
  <2> QED
    BY <2>1, <2>2, <2>4, <2>5 DEF WindowInv, WindowTyped, GridMade, PixelAccepted
<1>2. CASE Window(p)!Retrieve
  <2>1. /\ windowPc = "idle" /\ windowPc' = "update"
        /\ search_level' \in 0 .. WindowSettings[p].max_search
        /\ windowLevel' = WindowSettings[p].levels - 1
        /\ UNCHANGED <<width, height, grid_size, grid_n_width, grid_n_height>>
    BY <1>2 DEF Window!Retrieve, Window!camera, Window!getBestSearchLevel
  <2>2. PICK u \in 0 .. width - 1, v \in 0 .. height - 1 :
          Window(p)!isInFrame(u, v) /\ px' = <<u, v>> /\ projection' = px'
    BY <1>2 DEF Window!Retrieve
  <2>3. /\ px'[1] = u /\ px'[2] = v /\ u \in Nat /\ v \in Nat
        /\ projection'[1] = u /\ projection'[2] = v
    <3>1. width \in Nat /\ height \in Nat
      BY DEF WindowInv, WindowTyped
    <3> QED
      BY <2>2, <3>1
  <2>4. /\ u >= Window(p)!border /\ u < width - Window(p)!border
        /\ v >= Window(p)!border /\ v < height - Window(p)!border
    BY <2>2 DEF Window!isInFrame
  <2>5. PixelAccepted(p)'
    BY <2>1, <2>3, <2>4 DEF PixelAccepted, Window!isInFrame, Window!border, Window!Shift,
                            Window!patch_size_half
  <2>6. WindowSettings[p].levels - 1 \in 0 .. WindowSettings[p].levels - 1
        /\ search_level' \in Nat /\ search_level' <= WindowSettings[p].max_search
    BY <2>1, WindowConstants
  <2> QED
    BY <2>1, <2>5, <2>6 DEF WindowInv, WindowTyped, GridMade
<1>3. CASE Window(p)!Iterate
  <2>1. /\ windowPc = "update" /\ windowPc' \in {"update", "revise"}
        /\ windowLevel' = windowLevel \/ (windowLevel > 0 /\ windowLevel' = windowLevel - 1)
        /\ UNCHANGED <<width, height, grid_size, grid_n_width, grid_n_height, px, search_level>>
    BY <1>3 DEF Window!Iterate, Window!camera
  <2>2. windowLevel' \in 0 .. WindowSettings[p].levels - 1
    BY <2>1, WindowConstants DEF WindowInv, WindowTyped
  <2>3. PICK move \in WindowSettings[p].moves :
          projection' = <<px[1] + move[1], px[2] + move[2]>>
    BY <1>3 DEF Window!Iterate, Window!Reproject
  <2>4. projection'[1] \in Int /\ projection'[2] \in Int
    <3>1. move[1] \in Int /\ move[2] \in Int
      BY WindowConstants
    <3>2. px[1] \in Nat /\ px[2] \in Nat
      BY <2>1 DEF WindowInv, PixelAccepted
    <3> QED
      BY <2>3, <3>1, <3>2
  <2>5. PixelAccepted(p)'
    BY <2>1, <2>4 DEF WindowInv, PixelAccepted, Window!isInFrame, Window!border, Window!Shift,
                            Window!patch_size_half
  <2> QED
    BY <2>1, <2>2, <2>5 DEF WindowInv, WindowTyped, GridMade
<1>4. CASE Window(p)!updateVisualMapPoints
  <2>1. windowPc = "revise" /\ windowPc' = "idle"
        /\ UNCHANGED <<width, height, grid_size, grid_n_width, grid_n_height, search_level,
                       windowLevel>>
    BY <1>4 DEF Window!updateVisualMapPoints, Window!camera
  <2> QED
    BY <2>1 DEF WindowInv, WindowTyped, GridMade, PixelAccepted
<1>5. CASE UNCHANGED windowVars
  BY <1>5 DEF windowVars, WindowInv, WindowTyped, GridMade, PixelAccepted, Window!isInFrame,
              Window!border, Window!Shift, Window!patch_size_half
<1> QED
  BY <1>1, <1>2, <1>3, <1>4, <1>5 DEF Window!Next

(* What updateState and getImagePatch read along one axis, around a pixel  *)
(* that is half a patch and one pixel of its scale away from the edges.    *)
LEMMA PixelsInside ==
  ASSUME NEW p \in Windows, NEW x \in Int, NEW size \in Nat, NEW s \in Nat \ {0},
         x >= (Window(p)!patch_size_half + 1) * s,
         x + (Window(p)!patch_size_half + 1) * s < size
  PROVE  /\ Window(p)!Inside(Window(p)!updateState(x, s), size)
         /\ Window(p)!Inside(Window(p)!getImagePatch(x, s), size)
<1> DEFINE set == WindowSettings[p]
           half == set.patch_size \div 2
           h == half * s
           y == (x \div s) * s
<1>1. half \in Nat /\ set.patch_size = half + half
  <2>1. set.patch_size \in Nat /\ set.patch_size % 2 = 0
    BY WindowConstants
  <2> HIDE DEF set
  <2> QED
    BY <2>1
<1>2. x >= (half + 1) * s /\ x + (half + 1) * s < size
  BY DEF Window!patch_size_half
<1> HIDE DEF half
<1>3. (half + 1) * s = h + s /\ h \in Nat
  BY <1>1
<1>4. x \in Nat
  BY <1>2, <1>3
<1>5. y \in Nat /\ y <= x /\ y >= (half + 1) * s
  <2>1. half + 1 \in Nat /\ x >= (half + 1) * s
    BY <1>1, <1>2
  <2> QED
    BY <1>4, <2>1, RoundedDown
<1>6. Window(p)!firstPixel(x, s) = y - h
  BY DEF Window!firstPixel, Window!patch_size_half, half
<1> HIDE DEF y, h
<1>7. \A i \in -1 .. set.patch_size + 1 : y - h + i * s >= 0 /\ y - h + i * s < size
  <2> SUFFICES ASSUME NEW i \in -1 .. set.patch_size + 1
               PROVE  y - h + i * s >= 0 /\ y - h + i * s < size
    OBVIOUS
  <2>1. i \in Int /\ i >= -1 /\ i <= half + half + 1
    BY <1>1
  <2>2. i * s >= -1 * s /\ i * s \in Int
    BY <2>1
  <2>3. i * s <= (half + half + 1) * s
    BY <1>1, <2>1
  <2>4. (half + half + 1) * s = h + h + s /\ -1 * s = -s
    BY <1>1 DEF h
  <2> DEFINE z == i * s
  <2>5. z \in Int /\ z >= -s /\ z <= h + h + s
    BY <2>2, <2>3, <2>4
  <2> HIDE DEF z
  <2>6. y - h + z >= 0 /\ y - h + z < size
    BY <1>2, <1>3, <1>5, <2>5
  <2> QED
    BY <2>6 DEF z
<1>8. Window(p)!updateState(x, s) = {y - h + i * s : i \in -1 .. set.patch_size + 1}
  BY <1>6 DEF Window!updateState
<1>9. Window(p)!getImagePatch(x, s) = {y - h + i * s : i \in 0 .. set.patch_size}
  BY <1>6 DEF Window!getImagePatch
<1>10. 0 .. set.patch_size \subseteq -1 .. set.patch_size + 1
  BY <1>1
<1> HIDE DEF set
<1> QED
  BY <1>7, <1>8, <1>9, <1>10 DEF Window!Inside

(* A pixel no further from an accepted one than the slack of a scale is    *)
(* half a patch and one pixel of that scale away from the edges.           *)
LEMMA SlackKeepsAway ==
  ASSUME NEW a \in Nat, NEW B \in Nat, NEW size \in Nat, a >= B, a < size - B,
         NEW x \in Int, NEW n \in Nat, NEW S \in Nat, NEW s \in Nat, B = n * S,
         x - a \in -(n * (S - s)) .. n * (S - s)
  PROVE  x >= n * s /\ x + n * s < size
<1> DEFINE d == n * (S - s)
           b == n * s
<1>1. d = B - b /\ b \in Int
  BY Z3
<1>2. x - a >= -d /\ x - a <= d
  BY <1>1
<1> HIDE DEF d, b
<1>3. x >= b /\ x + b < size
  BY <1>1, <1>2
<1> QED
  BY <1>3 DEF b

LEMMA WindowMeaning ==
  ASSUME NEW p \in Windows, WindowInv(p)
  PROVE  Window(p)!CellInside /\ Window(p)!RetrievedInside /\ Window(p)!ReadsInside
<1> SUFFICES ASSUME windowPc \in {"update", "revise"}
             PROVE  Window(p)!CellInside /\ Window(p)!RetrievedInside /\ Window(p)!ReadsInside
  BY DEF Window!CellInside, Window!RetrievedInside, Window!ReadsInside
<1> DEFINE B == Window(p)!border
           n == Window(p)!patch_size_half + 1
           S == Window(p)!Shift(WindowSettings[p].levels)
<1>1. /\ width \in Nat /\ height \in Nat /\ grid_size \in Nat \ {0}
      /\ grid_n_width = width \div grid_size /\ grid_n_height = height \div grid_size
      /\ px[1] \in Nat /\ px[2] \in Nat /\ projection[1] \in Int /\ projection[2] \in Int
      /\ search_level \in Nat /\ search_level <= WindowSettings[p].max_search
      /\ windowLevel \in 0 .. WindowSettings[p].levels - 1
      /\ px[1] >= B /\ px[1] < width - B /\ px[2] >= B /\ px[2] < height - B
  BY DEF WindowInv, WindowTyped, GridMade, PixelAccepted, Window!isInFrame
<1>2. n \in Nat /\ S \in Nat \ {0} /\ B \in Nat /\ B = n * S
  <2>1. WindowSettings[p].patch_size \div 2 \in Nat
        /\ WindowSettings[p].levels \in 0 .. WindowSettings[p].levels + WindowSettings[p].max_search
    BY WindowConstants
  <2>2. S \in Nat \ {0}
    BY <2>1, ShiftPositive
  <2>3. n \in Nat /\ B = n * S
    BY <2>1 DEF Window!border, Window!patch_size_half
  <2> HIDE DEF B, n, S
  <2> QED
    BY <2>2, <2>3
<1> HIDE DEF B, S
<1>3. Window(p)!CellInside
  <2> SUFFICES ASSUME grid_size <= B + 1
               PROVE  LET k == Window(p)!Index(px[1], px[2])
                      IN  k < Window(p)!length /\ k % grid_n_width = px[1] \div grid_size
    BY DEF Window!CellInside, Window!GridFits, B
  <2>1. px[1] + grid_size <= width /\ px[2] + grid_size <= height
    BY <1>1, <1>2
  <2>2. px[1] \div grid_size \in 0 .. grid_n_width - 1
        /\ px[2] \div grid_size \in 0 .. grid_n_height - 1
    BY <1>1, <2>1, CellOf
  <2>3. grid_n_width \in Nat /\ grid_n_height \in Nat
    BY <1>1
  <2> DEFINE a == px[2] \div grid_size
             b == px[1] \div grid_size
  <2>4. a \in 0 .. grid_n_height - 1 /\ b \in 0 .. grid_n_width - 1
    BY <2>2
  <2>5. Window(p)!Index(px[1], px[2]) = a * grid_n_width + b
        /\ Window(p)!length = grid_n_width * grid_n_height
    BY DEF Window!Index, Window!length
  <2> HIDE DEF a, b
  <2>6. a * grid_n_width + b < grid_n_width * grid_n_height
        /\ (a * grid_n_width + b) % grid_n_width = b
    BY <2>3, <2>4, IndexOf
  <2> QED
    BY <2>5, <2>6 DEF b
<1>4. n = Window(p)!patch_size_half + 1
  OBVIOUS
<1> HIDE DEF n
<1>5. \A s \in Nat \ {0}, x \in Int, u \in Int :
        x - px[1] \in -(n * (S - s)) .. n * (S - s) /\ u - px[2] \in -(n * (S - s)) .. n * (S - s)
          => /\ Window(p)!Inside(Window(p)!updateState(x, s), width)
             /\ Window(p)!Inside(Window(p)!getImagePatch(x, s), width)
             /\ Window(p)!Inside(Window(p)!updateState(u, s), height)
             /\ Window(p)!Inside(Window(p)!getImagePatch(u, s), height)
  <2> SUFFICES ASSUME NEW s \in Nat \ {0}, NEW x \in Int, NEW u \in Int,
                      x - px[1] \in -(n * (S - s)) .. n * (S - s),
                      u - px[2] \in -(n * (S - s)) .. n * (S - s)
               PROVE  /\ Window(p)!Inside(Window(p)!updateState(x, s), width)
                      /\ Window(p)!Inside(Window(p)!getImagePatch(x, s), width)
                      /\ Window(p)!Inside(Window(p)!updateState(u, s), height)
                      /\ Window(p)!Inside(Window(p)!getImagePatch(u, s), height)
    OBVIOUS
  <2>1. x >= n * s /\ x + n * s < width
    BY <1>1, <1>2, SlackKeepsAway
  <2>2. u >= n * s /\ u + n * s < height
    BY <1>1, <1>2, SlackKeepsAway
  <2> QED
    BY <1>1, <1>4, <2>1, <2>2, PixelsInside
<1>6. Window(p)!RetrievedInside
  <2>1. S - 1 \in Nat /\ n * (S - 1) \in Nat
    BY <1>2
  <2> DEFINE d == n * (S - 1)
  <2>2. px[1] - px[1] \in -d .. d /\ px[2] - px[2] \in -d .. d
    <3> HIDE DEF d
    <3>1. d \in Nat => 0 \in -d .. d
      OBVIOUS
    <3>2. px[1] - px[1] = 0 /\ px[2] - px[2] = 0
      BY <1>1
    <3>3. d \in Nat
      BY <2>1 DEF d
    <3> QED
      BY <3>1, <3>2, <3>3
  <2>3. 1 \in Nat \ {0} /\ px[1] \in Int /\ px[2] \in Int
    BY <1>1
  <2>4. /\ Window(p)!Inside(Window(p)!getImagePatch(px[1], 1), width)
        /\ Window(p)!Inside(Window(p)!getImagePatch(px[2], 1), height)
    BY <1>5, <2>2, <2>3
  <2> QED
    BY <2>4 DEF Window!RetrievedInside
<1>7. Window(p)!ReadsInside
  <2> DEFINE s == Window(p)!scale
  <2>1. s \in Nat \ {0}
    <3>1. windowLevel \in 0 .. WindowSettings[p].levels + WindowSettings[p].max_search
          /\ windowLevel + search_level
               \in 0 .. WindowSettings[p].levels + WindowSettings[p].max_search
      BY <1>1, WindowConstants
    <3>2. Window(p)!Shift(windowLevel) \in Nat \ {0}
          /\ Window(p)!Shift(windowLevel + search_level) \in Nat \ {0}
      BY <3>1, ShiftPositive
    <3>3. \/ s = 1 \/ s = Window(p)!Shift(windowLevel)
          \/ s = Window(p)!Shift(windowLevel + search_level)
      BY DEF Window!scale
    <3> QED
      BY <3>2, <3>3
  <2>2. Window(p)!Slack(s) = n * (S - s)
    BY <1>4 DEF Window!Slack, S
  <2>3. \A x \in Int : \/ Window(p)!window(x) = Window(p)!updateState(x, s)
                       \/ Window(p)!window(x) = Window(p)!getImagePatch(x, s)
    BY DEF Window!window
  <2> HIDE DEF s
  <2>4. SUFFICES ASSUME Window(p)!MovedWithin(Window(p)!Slack(s))
                 PROVE  /\ Window(p)!Inside(Window(p)!window(projection[1]), width)
                        /\ Window(p)!Inside(Window(p)!window(projection[2]), height)
    BY DEF Window!ReadsInside, s
  <2>5. /\ projection[1] - px[1] \in -(n * (S - s)) .. n * (S - s)
        /\ projection[2] - px[2] \in -(n * (S - s)) .. n * (S - s)
    BY <2>2, <2>4 DEF Window!MovedWithin
  <2>6. /\ Window(p)!Inside(Window(p)!updateState(projection[1], s), width)
        /\ Window(p)!Inside(Window(p)!getImagePatch(projection[1], s), width)
        /\ Window(p)!Inside(Window(p)!updateState(projection[2], s), height)
        /\ Window(p)!Inside(Window(p)!getImagePatch(projection[2], s), height)
    BY <1>1, <1>5, <2>1, <2>5
  <2> QED
    BY <1>1, <2>3, <2>6
<1> QED
  BY <1>3, <1>6, <1>7

LEMMA WindowPart ==
  ASSUME WindowsKept, [OdometryNext]_allVars
  PROVE  WindowsKept'
<1>1. part' = part
  BY DEF OdometryNext, Only, Rests, allVars
<1> SUFFICES ASSUME NEW p \in Windows, part = p PROVE WindowInv(p)'
  BY <1>1 DEF WindowsKept, Windows
<1>2. WindowInv(p)
  BY DEF WindowsKept
<1>3. Window(p)!Next \/ UNCHANGED windowVars
  <2>1. ASSUME NEW g \in Groups \ {"window"}, Only(g) PROVE UNCHANGED windowVars
    <3>1. Still("window")
      BY <2>1 DEF Only, Groups
    <3> QED
      BY <3>1 DEF Still
  <2>2. {"voxels", "lidar", "map", "visual", "preprocess", "modes"} \subseteq Groups \ {"window"}
    BY DEF Groups
  <2>3. UNCHANGED allVars => UNCHANGED windowVars
    BY DEF allVars
  <2> QED
    BY <2>1, <2>2, <2>3 DEF OdometryNext, Rests
<1> QED
  BY <1>2, <1>3, WindowStep

(* initializeVIO, updateState, updateStateInverse and                      *)
(* updateVisualMapPoints, for any image, grid, patch, number of pyramid    *)
(* and search levels and any moves of the point: a pixel isInFrame accepts *)
(* has a cell, in its own column, when cells are no larger than the        *)
(* border; its patch is inside the image, and so is what is read later,    *)
(* while the point has moved by no more than the slack of the scale.       *)
THEOREM PatchesAreInside == OdometrySpec => []PatchesInside
<1>1. OdometryInit => WindowsKept
  BY WindowStarts DEF OdometryInit, WindowsKept, OneOf
<1>2. WindowsKept /\ [OdometryNext]_allVars => WindowsKept'
  BY WindowPart
<1>3. WindowsKept => PatchesInside
  BY WindowMeaning DEF WindowsKept, PatchesInside
<1> QED
  BY <1>1, <1>2, <1>3, PTL DEF OdometrySpec

-----------------------------------------------------------------------------
(* The visual map.  A feature is known by its id, an earlier one has a     *)
(* smaller id, and a pointer to a feature is its id: a reference that has  *)
(* outlived its feature is an id no feature of the point has.              *)
Feature(p) == [id : Nat, score : MapSettings[p].scores \union {MapSettings[p].nan}]
Point(p) == [pos : MapSettings[p].positions, key : Int, converged : BOOLEAN,
             ref : SUBSET Nat, obs : Seq(Feature(p))]

(* A point in its voxel: features of different frames within the limit,    *)
(* and at most one of them the reference.                                  *)
Sound(p, q) ==
  /\ q \in Point(p) /\ q.key = Visual(p)!InsertKey(q.pos)
  /\ q.ref \subseteq Visual(p)!Ids(q) /\ \A a, b \in q.ref : a = b
  /\ Len(q.obs) <= MapSettings[p].max_obs
  /\ \A m, n \in DOMAIN q.obs : q.obs[m].id = q.obs[n].id => m = n

(* A point without a feature of frame f or a later one.                    *)
OlderThan(q, f) == \A n \in DOMAIN q.obs : q.obs[n].id < f

MapTyped(p) ==
  /\ frame \in Nat /\ mapIndex \in Nat /\ view \in MapSettings[p].views
  /\ pg \subseteq MapSettings[p].positions
  /\ pts \in Seq(Point(p)) /\ submap \in Seq(Nat)
  /\ \A n \in DOMAIN submap : submap[n] \in DOMAIN pts
  /\ grid_num \in [MapSettings[p].cells -> {"unknown", "map", "pointcloud"}]
  /\ map_dist \in [MapSettings[p].cells -> 0 .. Visual(p)!FarAway]
  /\ mapPc \in {"idle", "project", "raycast", "match", "generate", "update", "reference"}
  /\ mapPc \in {"raycast", "match", "update", "reference"} => mapIndex >= 1

PointsSound(p) == \A k \in DOMAIN pts : Sound(p, pts[k]) /\ OlderThan(pts[k], frame + 1)

(* Until the frame adds features of its own, every feature is older; the   *)
(* points it still has to add one to keep that.                            *)
FramesBefore ==
  /\ mapPc \in {"project", "raycast", "match", "generate"} =>
       \A k \in DOMAIN pts : OlderThan(pts[k], frame)
  /\ mapPc = "update" => \A n \in DOMAIN submap : n >= mapIndex => OlderThan(pts[submap[n]], frame)

(* The submap holds a point once, and those of the cells passed so far.    *)
SubmapPassed(p) ==
  /\ \A m, n \in DOMAIN submap : submap[m] = submap[n] => m = n
  /\ mapPc = "raycast" => submap = << >>
  /\ mapPc = "match" => \A n \in DOMAIN submap : view.cell[pts[submap[n]].pos] < mapIndex

(* A cell holds the point it shows, none further than the points it could  *)
(* show.                                                                   *)
CellTrue(p, c) ==
  /\ grid_num[c] = "map" => \E k \in DOMAIN pts :
       /\ retrieve[c] = {k} /\ pts[k].obs # << >>
       /\ view.cell[pts[k].pos] = c /\ map_dist[c] = view.dist[pts[k].pos]
  /\ grid_num[c] # "map" => map_dist[c] = Visual(p)!FarAway
NearestTrue(p, c) ==
  \A k \in DOMAIN pts :
    (/\ pts[k].obs # << >> /\ view.front[pts[k].pos] /\ view.cell[pts[k].pos] = c
     /\ \E x \in pg : x >= 0 /\ Visual(p)!InsertKey(x) = pts[k].key)
    => (grid_num[c] = "map" /\ map_dist[c] <= view.dist[pts[k].pos])
CellsFilled(p) ==
  /\ mapPc = "project" => \A c \in MapSettings[p].cells :
       grid_num[c] = "unknown" /\ map_dist[c] = Visual(p)!FarAway
  /\ mapPc \in {"raycast", "match"} => \A c \in MapSettings[p].cells : CellTrue(p, c) /\ NearestTrue(p, c)

MapInv(p) ==
  /\ MapTyped(p) /\ PointsSound(p) /\ FramesBefore /\ SubmapPassed(p) /\ CellsFilled(p)
  /\ Visual(p)!SubmapReferenced /\ Visual(p)!SubmapObserved
MapsKept == \A q \in Maps : part = q => MapInv(q)

LEMMA MapConstants ==
  ASSUME NEW p \in Maps
  PROVE  LET set == MapSettings[p]
         IN  /\ set.positions \subseteq Int /\ set.voxel_size \in Nat \ {0}
             /\ IsFiniteSet(set.cells) /\ set.cells = 1 .. Visual(p)!length
             /\ Visual(p)!length \in Nat
             /\ \A v \in set.views : /\ v.cell \in [set.positions -> set.cells \union {0}]
                                     /\ v.dist \in [set.positions -> 0 .. Visual(p)!FarAway]
             /\ \A s \in set.scans : s \subseteq set.positions
             /\ set.max_obs \in Nat \ {0, 1} /\ set.conv_obs \in Nat
             /\ 0 \in set.scores /\ set.normal_en \in BOOLEAN
             /\ set.min_scan \in Nat /\ set.max_frames \in Nat /\ set.max_points \in Nat
<1> DEFINE set == MapSettings[p]
<1>1. Visual(p)!VisualMapAssumption
  BY VisualAssumption
<1>2. \A S : Visual(p)!Cardinality(S) = Cardinality(S) /\ (Visual(p)!IsFiniteSet(S) <=> IsFiniteSet(S))
  BY Zenon DEF Visual!Cardinality, Cardinality, Visual!IsFiniteSet, IsFiniteSet
<1>3. IsFiniteSet(set.cells) /\ set.cells = 1 .. Cardinality(set.cells)
  BY <1>1, <1>2 DEF Visual!VisualMapAssumption
<1>4. Visual(p)!length = Cardinality(set.cells)
  BY <1>2 DEF Visual!length
<1>5. Visual(p)!length \in Nat
  BY <1>3, <1>4, FS_CardinalityType
<1>6. \A v \in set.views : /\ v.cell \in [set.positions -> set.cells \union {0}]
                           /\ v.dist \in [set.positions -> 0 .. Visual(p)!FarAway]
  BY <1>1 DEF Visual!VisualMapAssumption, Visual!Out
<1>7. /\ set.max_obs \in Nat \ {0, 1} /\ set.conv_obs \in Nat
      /\ set.min_scan \in Nat /\ set.max_frames \in Nat /\ set.max_points \in Nat
  BY <1>1 DEF Visual!VisualMapAssumption
<1>8. /\ set.positions \subseteq Int /\ set.voxel_size \in Nat \ {0}
      /\ \A s \in set.scans : s \subseteq set.positions
      /\ 0 \in set.scores /\ set.normal_en \in BOOLEAN
  BY <1>1 DEF Visual!VisualMapAssumption
<1> QED
  BY <1>3, <1>4, <1>5, <1>6, <1>7, <1>8

LEMMA WithoutOne ==
  ASSUME NEW p \in Maps
  PROVE  \A S : \A q \in Seq(S) : \A n \in DOMAIN q :
           LET w == Visual(p)!Without(q, n)
           IN  /\ w \in Seq(S) /\ DOMAIN w = 1 .. Len(q) - 1 /\ Len(w) = Len(q) - 1
               /\ \A j \in 1 .. Len(q) - 1 : w[j] = q[IF j < n THEN j ELSE j + 1]
<1> TAKE S
<1> TAKE q \in Seq(S)
<1> TAKE n \in DOMAIN q
<1> DEFINE front == SubSeq(q, 1, n - 1)
           rest == SubSeq(q, n + 1, Len(q))
<1>1. n - 1 \in 0 .. Len(q) /\ n \in 0 .. Len(q) /\ Len(q) \in Nat
  BY LenProperties
<1>2. /\ front \in Seq(S) /\ DOMAIN front = 1 .. n - 1
      /\ \A i \in 1 .. n - 1 : front[i] = q[i]
  BY <1>1, PrefixAndRest
<1>3. /\ rest \in Seq(S) /\ DOMAIN rest = 1 .. Len(q) - n
      /\ \A i \in 1 .. Len(q) - n : rest[i] = q[n + i]
  BY <1>1, PrefixAndRest
<1>4. Len(front) = n - 1 /\ Len(rest) = Len(q) - n
  BY <1>1, <1>2, <1>3, LenProperties
<1>5. Visual(p)!Without(q, n) = front \o rest
  BY DEF Visual!Without
<1> HIDE DEF front, rest
<1>6. /\ front \o rest \in Seq(S) /\ Len(front \o rest) = Len(front) + Len(rest)
      /\ \A i \in 1 .. Len(front) + Len(rest) :
           (front \o rest)[i] = IF i <= Len(front) THEN front[i] ELSE rest[i - Len(front)]
  BY <1>2, <1>3, ConcatProperties
<1>7. Len(front \o rest) = Len(q) - 1
  BY <1>1, <1>4, <1>6
<1>8. \A j \in 1 .. Len(q) - 1 : (front \o rest)[j] = q[IF j < n THEN j ELSE j + 1]
  <2> TAKE j \in 1 .. Len(q) - 1
  <2> DEFINE both == front \o rest
  <2>0. j \in 1 .. Len(front) + Len(rest) /\ j \in Int /\ n \in Int
    BY <1>1, <1>4
  <2>1. both[j] = IF j <= Len(front) THEN front[j] ELSE rest[j - Len(front)]
    BY <1>6, <2>0
  <2> HIDE DEF both
  <2>2. CASE j < n
    <3>1. j <= Len(front) /\ j \in 1 .. n - 1
      BY <1>4, <2>0, <2>2
    <3>2. both[j] = q[j]
      BY <1>2, <2>1, <3>1
    <3> QED
      BY <2>2, <3>2 DEF both
  <2>3. CASE j >= n
    <3>0. ~(j <= Len(front)) /\ j - Len(front) = j - (n - 1)
      BY <1>4, <2>0, <2>3
    <3>1. j - (n - 1) \in 1 .. Len(q) - n
      BY <1>1, <2>3
    <3>2. rest[j - (n - 1)] = q[n + (j - (n - 1))]
      BY <1>3, <3>1
    <3>3. n + (j - (n - 1)) = j + 1
      BY <1>1
    <3>4. both[j] = q[j + 1]
      BY <2>1, <3>0, <3>2, <3>3
    <3> QED
      BY <2>0, <2>3, <3>4 DEF both
  <2> QED
    BY <2>0, <2>2, <2>3
<1> QED
  BY <1>5, <1>6, <1>7, <1>8, LenProperties

LEMMA FeaturesTyped ==
  ASSUME NEW p \in Maps, NEW q, Sound(p, q)
  PROVE  /\ q.pos \in MapSettings[p].positions /\ q.ref \in SUBSET Nat
         /\ q.obs \in Seq(Feature(p)) /\ Len(q.obs) \in Nat /\ DOMAIN q.obs = 1 .. Len(q.obs)
         /\ \A n \in DOMAIN q.obs : q.obs[n] \in Feature(p) /\ q.obs[n].id \in Nat
<1>1. q \in Point(p)
  BY DEF Sound
<1>2. q.obs \in Seq(Feature(p))
  BY <1>1 DEF Point
<1>3. \A n \in DOMAIN q.obs : q.obs[n] \in Feature(p)
  BY <1>2
<1> QED
  BY <1>1, <1>2, <1>3, LenProperties DEF Point, Feature

(* deleteFeatureRef gives up the reference with its feature.               *)
LEMMA FeatureDeleted ==
  ASSUME NEW p \in Maps, NEW q, Sound(p, q), NEW n \in DOMAIN q.obs,
         NEW f \in Nat, OlderThan(q, f)
  PROVE  LET d == Visual(p)!deleteFeatureRef(q, n)
         IN  /\ Sound(p, d) /\ OlderThan(d, f) /\ Len(d.obs) = Len(q.obs) - 1 /\ d.pos = q.pos
<1> DEFINE w == Visual(p)!Without(q.obs, n)
           d == Visual(p)!deleteFeatureRef(q, n)
<1>1. /\ q.obs \in Seq(Feature(p)) /\ Len(q.obs) \in Nat /\ DOMAIN q.obs = 1 .. Len(q.obs)
      /\ \A m \in DOMAIN q.obs : q.obs[m] \in Feature(p) /\ q.obs[m].id \in Nat
  BY FeaturesTyped
<1>2. q \in Point(p)
  BY DEF Sound
<1>3. /\ w \in Seq(Feature(p)) /\ DOMAIN w = 1 .. Len(q.obs) - 1 /\ Len(w) = Len(q.obs) - 1
      /\ \A j \in 1 .. Len(q.obs) - 1 : w[j] = q.obs[IF j < n THEN j ELSE j + 1]
  BY <1>1, WithoutOne
<1>4. d = [q EXCEPT !.obs = w, !.ref = q.ref \ {q.obs[n].id}]
  BY <1>2 DEF Visual!deleteFeatureRef, Point
<1> HIDE DEF w, d
<1>5. /\ d \in Point(p) /\ d.obs = w /\ d.ref = q.ref \ {q.obs[n].id} /\ d.pos = q.pos
      /\ d.key = q.key
  BY <1>2, <1>3, <1>4 DEF Point
<1>6. \A j \in DOMAIN w : (IF j < n THEN j ELSE j + 1) \in DOMAIN q.obs
  BY <1>1, <1>3
<1>7. \A a \in d.ref : a \in Visual(p)!Ids(d)
  <2> TAKE a \in d.ref
  <2>1. a \in q.ref /\ a # q.obs[n].id
    BY <1>5
  <2>2. PICK m \in DOMAIN q.obs : a = q.obs[m].id
    BY <2>1 DEF Sound, Visual!Ids
  <2>3. m # n
    BY <2>1, <2>2
  <2>4. CASE m < n
    <3>1. m \in DOMAIN w /\ w[m] = q.obs[m]
      BY <1>1, <1>3, <2>4
    <3> QED
      BY <1>5, <2>2, <3>1 DEF Visual!Ids
  <2>5. CASE m > n
    <3>1. m - 1 \in DOMAIN w /\ ~(m - 1 < n) /\ m - 1 + 1 = m
      BY <1>1, <1>3, <2>5
    <3>2. w[m - 1] = q.obs[m]
      BY <1>3, <3>1
    <3> QED
      BY <1>5, <2>2, <3>1, <3>2 DEF Visual!Ids
  <2> QED
    BY <1>1, <2>3, <2>4, <2>5
<1>8. \A a, b \in d.ref : a = b
  BY <1>5 DEF Sound
<1>9. \A i, j \in DOMAIN w : w[i].id = w[j].id => i = j
  <2> TAKE i, j \in DOMAIN w
  <2> HAVE w[i].id = w[j].id
  <2>1. (IF i < n THEN i ELSE i + 1) = (IF j < n THEN j ELSE j + 1)
    BY <1>3, <1>6 DEF Sound
  <2> QED
    BY <1>1, <1>3, <2>1
<1>10. OlderThan(d, f)
  BY <1>3, <1>5, <1>6 DEF OlderThan
<1>11. Len(d.obs) <= MapSettings[p].max_obs
  BY <1>1, <1>3, <1>5, MapConstants DEF Sound
<1>12. d.key = Visual(p)!InsertKey(d.pos)
  BY <1>5 DEF Sound
<1> QED
  BY <1>3, <1>5, <1>7, <1>8, <1>9, <1>10, <1>11, <1>12 DEF Sound, d

(* addFrameRef puts a feature of the frame in front.                       *)
LEMMA FeatureAdded ==
  ASSUME NEW p \in Maps, NEW q, Sound(p, q), Len(q.obs) < MapSettings[p].max_obs,
         NEW f \in Nat, OlderThan(q, f)
  PROVE  LET d == Visual(p)!addFrameRef(q, [id |-> f, score |-> 0])
         IN  Sound(p, d) /\ OlderThan(d, f + 1) /\ d.pos = q.pos
<1> DEFINE new == [id |-> f, score |-> 0]
           w == <<new>> \o q.obs
           d == Visual(p)!addFrameRef(q, new)
<1>1. /\ q.obs \in Seq(Feature(p)) /\ Len(q.obs) \in Nat /\ DOMAIN q.obs = 1 .. Len(q.obs)
      /\ \A m \in DOMAIN q.obs : q.obs[m] \in Feature(p) /\ q.obs[m].id \in Nat
  BY FeaturesTyped
<1>2. q \in Point(p)
  BY DEF Sound
<1>3. new \in Feature(p)
  BY MapConstants DEF Feature
<1>4. d = [q EXCEPT !.obs = w]
  BY <1>2 DEF Visual!addFrameRef, Point
<1>5. new.id = f
  OBVIOUS
<1> HIDE DEF new
<1>6. /\ <<new>> \in Seq(Feature(p)) /\ Len(<<new>>) = 1 /\ <<new>>[1] = new
  BY <1>3
<1>7. /\ w \in Seq(Feature(p)) /\ Len(w) = 1 + Len(q.obs)
      /\ \A i \in 1 .. 1 + Len(q.obs) : w[i] = IF i <= 1 THEN <<new>>[i] ELSE q.obs[i - 1]
  BY <1>1, <1>6, ConcatProperties
<1> HIDE DEF w, d
<1>8. DOMAIN w = 1 .. 1 + Len(q.obs)
  BY <1>7, LenProperties
<1>9. w[1] = new
  BY <1>1, <1>6, <1>7
<1>10. \A i \in DOMAIN q.obs : i + 1 \in DOMAIN w /\ w[i + 1] = q.obs[i]
  <2> TAKE i \in DOMAIN q.obs
  <2>1. i + 1 \in 1 .. 1 + Len(q.obs) /\ ~(i + 1 <= 1) /\ (i + 1) - 1 = i
    BY <1>1
  <2> QED
    BY <1>7, <1>8, <2>1
<1>11. \A j \in DOMAIN w : j = 1 \/ (j - 1 \in DOMAIN q.obs /\ w[j] = q.obs[j - 1] /\ j \in Int)
  <2> TAKE j \in DOMAIN w
  <2>1. j = 1 \/ (j - 1 \in DOMAIN q.obs /\ ~(j <= 1) /\ j \in 1 .. 1 + Len(q.obs))
    BY <1>1, <1>8
  <2> QED
    BY <1>7, <2>1
<1>12. /\ d \in Point(p) /\ d.obs = w /\ d.ref = q.ref /\ d.pos = q.pos /\ d.key = q.key
  BY <1>2, <1>4, <1>7 DEF Point
<1>13. \A a \in d.ref : a \in Visual(p)!Ids(d)
  <2> TAKE a \in d.ref
  <2>1. PICK m \in DOMAIN q.obs : a = q.obs[m].id
    BY <1>12 DEF Sound, Visual!Ids
  <2> QED
    BY <1>10, <1>12, <2>1 DEF Visual!Ids
<1>14. \A j \in DOMAIN w : j # 1 => w[j].id < f
  BY <1>11 DEF OlderThan
<1>15. \A i, j \in DOMAIN w : w[i].id = w[j].id => i = j
  <2> TAKE i, j \in DOMAIN w
  <2> HAVE w[i].id = w[j].id
  <2>1. CASE i = 1 \/ j = 1
    BY <1>5, <1>9, <1>14, <2>1
  <2>2. CASE i # 1 /\ j # 1
    <3>1. i - 1 = j - 1
      BY <1>11, <2>2 DEF Sound
    <3> QED
      BY <1>11, <2>2, <3>1
  <2> QED
    BY <2>1, <2>2
<1>16. OlderThan(d, f + 1)
  <2> SUFFICES ASSUME NEW j \in DOMAIN w PROVE w[j].id < f + 1
    BY <1>12 DEF OlderThan
  <2>1. CASE j = 1
    BY <1>5, <1>9, <2>1
  <2>2. CASE j # 1
    <3>1. w[j].id < f /\ w[j].id \in Nat
      BY <1>1, <1>11, <1>14, <2>2
    <3> QED
      BY <3>1
  <2> QED
    BY <2>1, <2>2
<1>17. Len(d.obs) <= MapSettings[p].max_obs
  BY <1>1, <1>7, <1>12, MapConstants
<1>18. d.key = Visual(p)!InsertKey(d.pos)
  BY <1>12 DEF Sound
<1>19. \A a, b \in d.ref : a = b
  BY <1>12 DEF Sound
<1> QED
  BY <1>12, <1>13, <1>15, <1>16, <1>17, <1>18, <1>19 DEF Sound, d, new

(* The feature findMinScoreFeature finds is one of the list's.             *)
LEMMA WorstIsThere ==
  ASSUME NEW p \in Maps, NEW q, Sound(p, q), q.obs # << >>
  PROVE  Visual(p)!findMinScoreFeature(q) \in DOMAIN q.obs
<1> DEFINE nan == MapSettings[p].nan
           valid == {n \in DOMAIN q.obs : q.obs[n].score # nan}
           low == {n \in valid : \A k \in valid : q.obs[n].score <= q.obs[k].score}
<1>1. DOMAIN q.obs = 1 .. Len(q.obs) /\ Len(q.obs) \in Nat /\ q.obs \in Seq(Feature(p))
  BY FeaturesTyped
<1>2. 1 \in DOMAIN q.obs
  BY <1>1, EmptySeq
<1>3. low \subseteq DOMAIN q.obs /\ low \in SUBSET Nat
  BY <1>1
<1>4. Visual(p)!findMinScoreFeature(q)
        = IF low = {} THEN 1 ELSE CHOOSE n \in low : \A k \in low : n <= k
  BY DEF Visual!findMinScoreFeature
<1> HIDE DEF low
<1>5. low # {} => \E n \in low : \A k \in low : n <= k
  BY <1>3, LeastMember
<1> QED
  BY <1>2, <1>3, <1>4, <1>5

(* Trimming leaves room for a feature.                                     *)
LEMMA Trimmed ==
  ASSUME NEW p \in Maps, NEW q, Sound(p, q), NEW f \in Nat, OlderThan(q, f)
  PROVE  LET t == Visual(p)!Trim(q)
         IN  /\ Sound(p, t) /\ OlderThan(t, f) /\ Len(t.obs) < MapSettings[p].max_obs
             /\ t.pos = q.pos
<1>1. q.obs \in Seq(Feature(p)) /\ Len(q.obs) \in Nat /\ MapSettings[p].max_obs \in Nat \ {0}
  BY FeaturesTyped, MapConstants
<1>2. CASE Len(q.obs) >= MapSettings[p].max_obs
  <2>1. q.obs # << >>
    BY <1>1, <1>2, EmptySeq
  <2>2. Visual(p)!findMinScoreFeature(q) \in DOMAIN q.obs
    BY <2>1, WorstIsThere
  <2>3. Visual(p)!Trim(q) = Visual(p)!deleteFeatureRef(q, Visual(p)!findMinScoreFeature(q))
    BY <1>2 DEF Visual!Trim
  <2>4. LET d == Visual(p)!deleteFeatureRef(q, Visual(p)!findMinScoreFeature(q))
        IN  /\ Sound(p, d) /\ OlderThan(d, f) /\ Len(d.obs) = Len(q.obs) - 1 /\ d.pos = q.pos
    BY <2>2, FeatureDeleted
  <2>5. Len(q.obs) - 1 < MapSettings[p].max_obs
    BY <1>1 DEF Sound
  <2> QED
    BY <2>3, <2>4, <2>5
<1>3. CASE ~(Len(q.obs) >= MapSettings[p].max_obs)
  BY <1>1, <1>3 DEF Visual!Trim
<1> QED
  BY <1>2, <1>3

(* A converged point keeps the feature of its reference.                   *)
LEMMA ReferenceKept ==
  ASSUME NEW p \in Maps, NEW q, Sound(p, q), NEW f \in Nat, OlderThan(q, f)
  PROVE  LET d == Visual(p)!deleteNonRefPatchFeatures(q)
         IN  Sound(p, d) /\ OlderThan(d, f) /\ d.pos = q.pos
<1> DEFINE kept == {n \in DOMAIN q.obs : q.obs[n].id \in q.ref}
           n == CHOOSE m \in kept : TRUE
           w == IF kept = {} THEN << >> ELSE <<q.obs[n]>>
           d == Visual(p)!deleteNonRefPatchFeatures(q)
<1>1. /\ q.obs \in Seq(Feature(p)) /\ Len(q.obs) \in Nat /\ DOMAIN q.obs = 1 .. Len(q.obs)
      /\ \A m \in DOMAIN q.obs : q.obs[m] \in Feature(p) /\ q.obs[m].id \in Nat
  BY FeaturesTyped
<1>2. q \in Point(p)
  BY DEF Sound
<1>3. d = [q EXCEPT !.obs = w]
  BY <1>2 DEF Visual!deleteNonRefPatchFeatures, Point
<1>4. kept # {} => n \in kept
  OBVIOUS
<1>5. kept = {} => q.ref = {}
  BY DEF Sound, Visual!Ids
<1>6. kept # {} => n \in DOMAIN q.obs /\ q.obs[n].id \in q.ref /\ q.obs[n] \in Feature(p)
  BY <1>1, <1>4
<1> HIDE DEF kept, n, d
<1>7. CASE kept = {}
  <2>1. w = << >> /\ w \in Seq(Feature(p))
    BY <1>7
  <2> HIDE DEF w
  <2>2. d \in Point(p) /\ d.obs = << >> /\ d.ref = {} /\ d.pos = q.pos /\ d.key = q.key
    BY <1>2, <1>3, <1>5, <1>7, <2>1 DEF Point
  <2>3. DOMAIN d.obs = {} /\ Len(d.obs) = 0
    BY <2>2
  <2>4. d.key = Visual(p)!InsertKey(d.pos)
    BY <2>2 DEF Sound
  <2>5. Sound(p, d)
    BY <2>2, <2>3, <2>4, MapConstants DEF Sound
  <2> QED
    BY <2>2, <2>3, <2>5 DEF OlderThan, d
<1>8. CASE kept # {}
  <2> DEFINE b == q.obs[n]
  <2>1. w = <<b>> /\ b \in Feature(p) /\ b.id \in q.ref
    BY <1>6, <1>8
  <2>0. b.id < f
    BY <1>6, <1>8 DEF OlderThan
  <2>01. w \in Seq(Feature(p))
    BY <2>1
  <2> HIDE DEF b, w
  <2>2. /\ d \in Point(p) /\ d.obs = <<b>> /\ d.ref = q.ref /\ d.pos = q.pos /\ d.key = q.key
    BY <1>2, <1>3, <2>1, <2>01 DEF Point
  <2>3. DOMAIN d.obs = {1} /\ d.obs[1] = b /\ Len(d.obs) = 1
    BY <2>2
  <2>4. d.key = Visual(p)!InsertKey(d.pos)
    BY <2>2 DEF Sound
  <2>5. \A a, c \in d.ref : a = c
    BY <2>2 DEF Sound
  <2>6. d.ref \subseteq Visual(p)!Ids(d)
    BY <2>1, <2>2, <2>3, <2>5 DEF Visual!Ids
  <2>7. Sound(p, d)
    BY <2>2, <2>3, <2>4, <2>5, <2>6, MapConstants DEF Sound
  <2> QED
    BY <2>0, <2>2, <2>3, <2>7 DEF OlderThan, d
<1> QED
  BY <1>7, <1>8

(* A new point has the frame's feature and no reference yet.               *)
LEMMA NewPointSound ==
  ASSUME NEW p \in Maps, frame \in Nat, NEW x \in MapSettings[p].positions
  PROVE  Sound(p, Visual(p)!NewPoint(x)) /\ OlderThan(Visual(p)!NewPoint(x), frame + 1)
<1> DEFINE new == [id |-> frame, score |-> 0]
           d == Visual(p)!NewPoint(x)
<1>1. new \in Feature(p) /\ new.id = frame
  BY MapConstants DEF Feature
<1>2. Visual(p)!InsertKey(x) \in Int
  <2> DEFINE size == MapSettings[p].voxel_size
  <2>1. x \in Int /\ size \in Nat \ {0}
    BY MapConstants
  <2>2. Visual(p)!InsertKey(x) = IF x < 0 THEN -((-x) \div size) - 1 ELSE x \div size
    BY DEF Visual!InsertKey
  <2> HIDE DEF size
  <2>3. (-x) \div size \in Int /\ x \div size \in Int
    BY <2>1
  <2> QED
    BY <2>2, <2>3
<1>3. d = [pos |-> x, key |-> Visual(p)!InsertKey(x), converged |-> FALSE, ref |-> {},
           obs |-> <<new>>]
  BY DEF Visual!NewPoint
<1> HIDE DEF new, d
<1>4. <<new>> \in Seq(Feature(p)) /\ DOMAIN <<new>> = {1} /\ Len(<<new>>) = 1 /\ <<new>>[1] = new
  BY <1>1
<1>5. /\ d \in Point(p) /\ d.key = Visual(p)!InsertKey(d.pos) /\ d.ref = {} /\ d.obs = <<new>>
  BY <1>2, <1>3, <1>4 DEF Point
<1>6. OlderThan(d, frame + 1)
  BY <1>1, <1>4, <1>5 DEF OlderThan
<1>7. Sound(p, d)
  BY <1>4, <1>5, MapConstants DEF Sound
<1> QED
  BY <1>6, <1>7 DEF d

(* retrieveFromVisualSparseMap leaves a point with features a reference.   *)
LEMMA ReferenceChosen ==
  ASSUME NEW p \in Maps, NEW q, Sound(p, q), NEW c \in Visual(p)!ChooseRef(q)
  PROVE  /\ Sound(p, c) /\ c.pos = q.pos /\ c.key = q.key /\ c.obs = q.obs
         /\ MapSettings[p].normal_en /\ q.obs # << >> => c.ref # {}
<1>1. /\ q.obs \in Seq(Feature(p)) /\ Len(q.obs) \in Nat /\ DOMAIN q.obs = 1 .. Len(q.obs)
      /\ \A m \in DOMAIN q.obs : q.obs[m] \in Feature(p) /\ q.obs[m].id \in Nat
  BY FeaturesTyped
<1>2. q \in Point(p)
  BY DEF Sound
<1>3. CASE c = q /\ (~MapSettings[p].normal_en \/ q.ref # {})
  BY <1>3
<1>4. ASSUME NEW id \in Visual(p)!Ids(q), c = [q EXCEPT !.ref = {id}]
      PROVE  Sound(p, c) /\ c.pos = q.pos /\ c.key = q.key /\ c.obs = q.obs /\ c.ref # {}
  <2>1. id \in Nat
    BY <1>1 DEF Visual!Ids
  <2>2. c \in Point(p) /\ c.pos = q.pos /\ c.key = q.key /\ c.obs = q.obs /\ c.ref = {id}
    BY <1>2, <1>4, <2>1 DEF Point
  <2>3. c.ref \subseteq Visual(p)!Ids(c)
    BY <2>2 DEF Visual!Ids
  <2> QED
    BY <2>2, <2>3 DEF Sound
<1>5. \/ c = q /\ (~MapSettings[p].normal_en \/ q.ref # {})
      \/ \E id \in Visual(p)!Ids(q) : c = [q EXCEPT !.ref = {id}]
  BY MapConstants DEF Visual!ChooseRef
<1> QED
  BY <1>3, <1>4, <1>5

(* The best feature is one of the list's, and there is one best.           *)
LEMMA OneBest ==
  ASSUME NEW p \in Maps, NEW obs, DOMAIN obs \subseteq Nat
  PROVE  /\ \A a \in Visual(p)!Best(obs) : \E n \in DOMAIN obs : a = obs[n].id
         /\ \A a, b \in Visual(p)!Best(obs) : a = b
<1> DEFINE nan == MapSettings[p].nan
           valid == {n \in DOMAIN obs : obs[n].score # nan}
           top == {n \in valid : \A k \in valid : obs[n].score >= obs[k].score}
           first == {m \in top : \A k \in top : m <= k}
<1>1. Visual(p)!Best(obs) = {obs[n].id : n \in first}
  BY DEF Visual!Best
<1>2. first \subseteq DOMAIN obs /\ top \subseteq Nat
  OBVIOUS
<1> HIDE DEF top
<1>3. \A m, n \in first : m = n
  BY <1>2
<1> HIDE DEF first
<1> QED
  BY <1>1, <1>2, <1>3

(* A point with its features scored, the best of them its reference.       *)
Scored(q, score) == [n \in DOMAIN q.obs |-> [q.obs[n] EXCEPT !.score = score[n]]]
Revised(p, q, score, settled) ==
  [q EXCEPT !.obs = Scored(q, score), !.converged = settled,
            !.ref = IF Visual(p)!Best(Scored(q, score)) = {} THEN @
                    ELSE Visual(p)!Best(Scored(q, score))]

(* updateReferencePatch changes scores and moves the reference to a        *)
(* feature of the list.                                                    *)
LEMMA ReferenceRevised ==
  ASSUME NEW p \in Maps, NEW q, Sound(p, q), NEW f \in Nat, OlderThan(q, f),
         NEW score \in [DOMAIN q.obs -> MapSettings[p].scores \union {MapSettings[p].nan}],
         NEW settled \in BOOLEAN
  PROVE  Sound(p, Revised(p, q, score, settled)) /\ OlderThan(Revised(p, q, score, settled), f)
<1> DEFINE obs == Scored(q, score)
           best == Visual(p)!Best(obs)
           ref == IF best = {} THEN q.ref ELSE best
           d == Revised(p, q, score, settled)
<1>17. d = [q EXCEPT !.obs = obs, !.converged = settled, !.ref = ref]
  BY DEF Revised
<1> HIDE DEF d
<1>1. /\ q.obs \in Seq(Feature(p)) /\ Len(q.obs) \in Nat /\ DOMAIN q.obs = 1 .. Len(q.obs)
      /\ \A m \in DOMAIN q.obs : q.obs[m] \in Feature(p) /\ q.obs[m].id \in Nat
  BY FeaturesTyped
<1>2. q \in Point(p)
  BY DEF Sound
<1>3. \A n \in DOMAIN q.obs : obs[n] \in Feature(p) /\ obs[n].id = q.obs[n].id
  <2> TAKE n \in DOMAIN q.obs
  <2>1. score[n] \in MapSettings[p].scores \union {MapSettings[p].nan}
    OBVIOUS
  <2> QED
    BY <1>1, <2>1 DEF Feature, Scored
<1>4. DOMAIN obs = DOMAIN q.obs
  BY DEF Scored
<1>5. obs \in Seq(Feature(p)) /\ Len(obs) = Len(q.obs)
  <2>1. obs \in [1 .. Len(q.obs) -> Feature(p)]
    BY <1>1, <1>3 DEF Scored
  <2> HIDE DEF obs
  <2> QED
    BY <1>1, <2>1, SeqDef, LenProperties
<1> HIDE DEF obs
<1>6. /\ \A a \in best : \E n \in DOMAIN obs : a = obs[n].id
      /\ \A a, b \in best : a = b
  BY <1>1, <1>4, OneBest
<1> HIDE DEF best
<1>7. \A a \in ref : \E n \in DOMAIN obs : a = obs[n].id
  <2>1. \A a \in q.ref : \E n \in DOMAIN obs : a = obs[n].id
    BY <1>3, <1>4 DEF Sound, Visual!Ids
  <2> QED
    BY <1>6, <2>1
<1>8. \A a, b \in ref : a = b
  BY <1>6 DEF Sound
<1>9. ref \in SUBSET Nat
  BY <1>1, <1>3, <1>4, <1>7
<1> HIDE DEF ref
<1>10. /\ d \in Point(p) /\ d.obs = obs /\ d.ref = ref /\ d.pos = q.pos /\ d.key = q.key
  BY <1>2, <1>5, <1>9, <1>17 DEF Point
<1>11. d.ref \subseteq Visual(p)!Ids(d)
  BY <1>7, <1>10 DEF Visual!Ids
<1>12. \A m, n \in DOMAIN obs : obs[m].id = obs[n].id => m = n
  BY <1>3, <1>4 DEF Sound
<1>13. Len(d.obs) <= MapSettings[p].max_obs
  BY <1>5, <1>10 DEF Sound
<1>14. d.key = Visual(p)!InsertKey(d.pos)
  BY <1>10 DEF Sound
<1>15. OlderThan(d, f)
  BY <1>3, <1>4, <1>10 DEF OlderThan
<1>16. Sound(p, d)
  BY <1>8, <1>10, <1>11, <1>12, <1>13, <1>14 DEF Sound
<1> QED
  BY <1>15, <1>16 DEF d

LEMMA MapStarts ==
  ASSUME NEW p \in Maps, Visual(p)!Init
  PROVE  MapInv(p)
<1>1. /\ mapPc = "idle" /\ mapIndex = 0 /\ frame = 0 /\ view \in MapSettings[p].views /\ pg = {}
      /\ pts = << >> /\ submap = << >>
      /\ grid_num = [c \in MapSettings[p].cells |-> "unknown"]
      /\ map_dist = [c \in MapSettings[p].cells |-> Visual(p)!FarAway]
  BY DEF Visual!Init
<1>2. Visual(p)!FarAway \in Nat
  BY DEF Visual!FarAway
<1>5. MapTyped(p)
  BY <1>1, <1>2 DEF MapTyped
<1>3. PointsSound(p) /\ FramesBefore /\ SubmapPassed(p) /\ CellsFilled(p)
  BY <1>1 DEF PointsSound, FramesBefore, SubmapPassed, CellsFilled
<1>4. Visual(p)!SubmapReferenced /\ Visual(p)!SubmapObserved
  BY <1>1 DEF Visual!SubmapReferenced, Visual!SubmapObserved
<1> QED
  BY <1>3, <1>4, <1>5 DEF MapInv

(* A point that changes leaves the others as they are.                     *)
LEMMA OnePointChanged ==
  ASSUME NEW p \in Maps, MapTyped(p), PointsSound(p), frame' = frame,
         NEW k \in DOMAIN pts, NEW d, Sound(p, d), OlderThan(d, frame + 1),
         pts' = [pts EXCEPT ![k] = d]
  PROVE  /\ pts' \in Seq(Point(p)) /\ DOMAIN pts' = DOMAIN pts /\ PointsSound(p)'
         /\ pts'[k] = d /\ \A j \in DOMAIN pts : j # k => pts'[j] = pts[j]
<1>1. pts \in Seq(Point(p)) /\ d \in Point(p)
  BY DEF MapTyped, Sound
<1>2. pts' \in Seq(Point(p)) /\ DOMAIN pts' = DOMAIN pts
  BY <1>1
<1>3. pts'[k] = d /\ \A j \in DOMAIN pts : j # k => pts'[j] = pts[j]
  OBVIOUS
<1>4. \A j \in DOMAIN pts' : Sound(p, pts'[j]) /\ OlderThan(pts'[j], frame' + 1)
  BY <1>2, <1>3 DEF PointsSound
<1>5. PointsSound(p)'
  BY <1>4 DEF PointsSound
<1> QED
  BY <1>2, <1>3, <1>5

(* processFrame begins with a frame of its own and empty cells.            *)
LEMMA BeginFrameKeeps ==
  ASSUME NEW p \in Maps, MapInv(p), Visual(p)!BeginFrame
  PROVE  MapInv(p)'
<1>1. /\ mapPc = "idle" /\ frame' = frame + 1 /\ view' \in MapSettings[p].views
      /\ pg' \in MapSettings[p].scans
      /\ mapPc' = IF pts = << >> THEN "generate" ELSE "project"
      /\ grid_num' = [c \in MapSettings[p].cells |-> "unknown"]
      /\ map_dist' = [c \in MapSettings[p].cells |-> Visual(p)!FarAway]
      /\ UNCHANGED <<mapIndex, pts, submap>>
  BY DEF Visual!BeginFrame, Visual!resetGrid
<1>2. MapTyped(p) /\ PointsSound(p) /\ SubmapPassed(p)
  BY DEF MapInv
<1>15. Visual(p)!FarAway \in Nat
  BY DEF Visual!FarAway
<1>3. MapTyped(p)'
  BY <1>1, <1>2, <1>15, MapConstants DEF MapTyped
<1>4. frame \in Nat
  BY <1>2 DEF MapTyped
<1>5. \A k \in DOMAIN pts : OlderThan(pts[k], frame + 1)
  BY <1>2 DEF PointsSound
<1>6. \A k \in DOMAIN pts : OlderThan(pts[k], frame + 1 + 1)
  <2> TAKE k \in DOMAIN pts
  <2>1. Sound(p, pts[k])
    BY <1>2 DEF PointsSound
  <2>2. \A n \in DOMAIN pts[k].obs : pts[k].obs[n].id \in Nat
    BY <2>1, FeaturesTyped
  <2> QED
    BY <1>4, <1>5, <2>2 DEF OlderThan
<1>7. \A k \in DOMAIN pts' : Sound(p, pts'[k]) /\ OlderThan(pts'[k], frame' + 1)
  BY <1>1, <1>2, <1>6 DEF PointsSound
<1>8. PointsSound(p)'
  BY <1>7 DEF PointsSound
<1>9. mapPc' \in {"generate", "project"} /\ (mapPc' = "generate" => pts' = << >>)
  BY <1>1
<1>10. \A k \in DOMAIN pts' : OlderThan(pts'[k], frame')
  BY <1>1, <1>5
<1>11. FramesBefore'
  BY <1>9, <1>10 DEF FramesBefore
<1>12. SubmapPassed(p)' /\ CellsFilled(p)'
  BY <1>1, <1>2, <1>9 DEF SubmapPassed, CellsFilled
<1>13. mapPc' = "generate" => DOMAIN submap' = {}
  BY <1>1, <1>2 DEF MapTyped
<1>14. Visual(p)!SubmapReferenced' /\ Visual(p)!SubmapObserved'
  BY <1>9, <1>13 DEF Visual!SubmapReferenced, Visual!SubmapObserved
<1> QED
  BY <1>3, <1>8, <1>11, <1>12, <1>14 DEF MapInv

(* Distances of the points are those of the frame's view.                  *)
LEMMA Distances ==
  ASSUME NEW p \in Maps, MapTyped(p)
  PROVE  \A k \in DOMAIN pts :
           /\ pts[k] \in Point(p) /\ view.dist[pts[k].pos] \in 0 .. Visual(p)!FarAway
           /\ view.cell[pts[k].pos] \in MapSettings[p].cells \union {0}
<1> TAKE k \in DOMAIN pts
<1>1. pts[k] \in Point(p) /\ view \in MapSettings[p].views
  BY DEF MapTyped
<1>2. pts[k].pos \in MapSettings[p].positions
  BY <1>1 DEF Point
<1> QED
  BY <1>1, <1>2, MapConstants

(* Of the points in a cell one is the nearest.                             *)
LEMMA NearestThere ==
  ASSUME NEW p \in Maps, MapTyped(p), NEW ks \in SUBSET DOMAIN pts, ks # {}
  PROVE  \E m \in ks : \A n \in ks : view.dist[pts[m].pos] <= view.dist[pts[n].pos]
<1> DEFINE D == {view.dist[pts[k].pos] : k \in ks}
<1>1. D \in SUBSET Nat /\ D # {}
  BY Distances
<1>2. \E m \in D : \A n \in D : m <= n
  BY <1>1, LeastMember
<1> QED
  BY <1>2

(* The points a voxel sends to the cells: after them a cell still shows    *)
(* what it holds, nothing further than before nor than one of them.        *)
LEMMA CellsCompeted ==
  ASSUME NEW p \in Maps, MapTyped(p), UNCHANGED <<view, pts>>,
         NEW ks \in SUBSET DOMAIN pts, \A k \in ks : pts[k].obs # << >>,
         \A c \in MapSettings[p].cells : CellTrue(p, c),
         Visual(p)!Compete(ks)
  PROVE  /\ grid_num' \in [MapSettings[p].cells -> {"unknown", "map", "pointcloud"}]
         /\ map_dist' \in [MapSettings[p].cells -> 0 .. Visual(p)!FarAway]
         /\ \A c \in MapSettings[p].cells :
              /\ CellTrue(p, c)'
              /\ map_dist'[c] <= map_dist[c] /\ (grid_num[c] = "map" => grid_num'[c] = "map")
              /\ \A k \in ks : view.cell[pts[k].pos] = c =>
                   grid_num'[c] = "map" /\ map_dist'[c] <= view.dist[pts[k].pos]
<1> DEFINE cells == MapSettings[p].cells
           near(c) == Visual(p)!InCell(ks, c)
           close(c) == Visual(p)!Closest(ks, c)
           d(k) == view.dist[pts[k].pos]
<1>1. /\ grid_num' = [c \in cells |-> IF near(c) # {} THEN "map" ELSE grid_num[c]]
      /\ \A c \in cells : IF close(c) = {} THEN retrieve'[c] = retrieve[c]
                          ELSE \E k \in close(c) : retrieve'[c] = {k}
      /\ map_dist' = [c \in cells |->
           IF close(c) = {} THEN map_dist[c] ELSE Visual(p)!Dist(CHOOSE k \in close(c) : TRUE)]
  BY DEF Visual!Compete
<1>2. \A c : near(c) = {k \in ks : view.cell[pts[k].pos] = c}
  BY DEF Visual!InCell
<1>3. \A c : close(c) = {k \in near(c) : d(k) <= map_dist[c] /\ \A n \in near(c) : d(k) <= d(n)}
  BY DEF Visual!Closest, Visual!Dist
<1>4. \A k : Visual(p)!Dist(k) = d(k)
  BY DEF Visual!Dist
<1>5. /\ grid_num \in [cells -> {"unknown", "map", "pointcloud"}]
      /\ map_dist \in [cells -> 0 .. Visual(p)!FarAway]
  BY DEF MapTyped
<1>6. Visual(p)!FarAway \in Nat
  BY DEF Visual!FarAway
<1>7. \A k \in DOMAIN pts : d(k) \in 0 .. Visual(p)!FarAway
  BY Distances
<1>8. \A c : near(c) # {} => \E m \in near(c) : \A n \in near(c) : d(m) <= d(n)
  <2> TAKE c
  <2>1. near(c) \in SUBSET DOMAIN pts
    BY <1>2
  <2> HIDE DEF near
  <2> QED
    BY <2>1, NearestThere
<1> HIDE DEF near, close
<1>9. grid_num' \in [cells -> {"unknown", "map", "pointcloud"}]
  BY <1>1, <1>5
<1>10. ASSUME NEW c \in cells, close(c) = {}
       PROVE  /\ map_dist'[c] = map_dist[c] /\ grid_num'[c] = grid_num[c]
              /\ retrieve'[c] = retrieve[c]
              /\ \A k \in near(c) : grid_num[c] = "map" /\ map_dist[c] <= d(k)
  <2>1. map_dist'[c] = map_dist[c] /\ retrieve'[c] = retrieve[c]
    BY <1>1, <1>10
  <2>2. CASE near(c) = {}
    BY <1>1, <2>1, <2>2
  <2>3. CASE near(c) # {}
    <3>1. PICK m \in near(c) : \A n \in near(c) : d(m) <= d(n)
      BY <1>8, <2>3
    <3>2. ~(d(m) <= map_dist[c])
      BY <1>3, <1>10, <3>1
    <3>3. m \in DOMAIN pts /\ near(c) \subseteq DOMAIN pts
      BY <1>2, <3>1
    <3>4. d(m) \in 0 .. Visual(p)!FarAway /\ map_dist[c] \in 0 .. Visual(p)!FarAway
      BY <1>5, <1>7, <3>3
    <3>5. map_dist[c] # Visual(p)!FarAway
      BY <1>6, <3>2, <3>4
    <3>6. grid_num[c] = "map"
      BY <3>5 DEF CellTrue
    <3>7. \A k \in near(c) : map_dist[c] <= d(k)
      <4> TAKE k \in near(c)
      <4>1. d(k) \in 0 .. Visual(p)!FarAway /\ d(m) <= d(k)
        BY <1>7, <3>1, <3>3
      <4> QED
        BY <1>6, <3>2, <3>4, <4>1
    <3> QED
      BY <1>1, <2>1, <2>3, <3>6, <3>7
  <2> QED
    BY <2>2, <2>3
<1>11. ASSUME NEW c \in cells, close(c) # {}
       PROVE  \E k \in close(c) : /\ map_dist'[c] = d(k) /\ retrieve'[c] = {k}
                                  /\ grid_num'[c] = "map"
  <2>1. PICK k \in close(c) : retrieve'[c] = {k}
    BY <1>1, <1>11
  <2> DEFINE j == CHOOSE n \in close(c) : TRUE
  <2>2. j \in close(c)
    BY <1>11
  <2>3. map_dist'[c] = d(j)
    BY <1>1, <1>4, <1>11
  <2> HIDE DEF j
  <2>4. d(j) <= d(k) /\ d(k) <= d(j) /\ k \in near(c) /\ j \in near(c)
    BY <1>3, <2>1, <2>2
  <2>5. d(j) \in 0 .. Visual(p)!FarAway /\ d(k) \in 0 .. Visual(p)!FarAway
    BY <1>2, <1>7, <2>4
  <2>6. d(j) = d(k)
    BY <1>6, <2>4, <2>5
  <2>7. grid_num'[c] = "map"
    BY <1>1, <2>4
  <2> QED
    BY <2>1, <2>3, <2>6, <2>7
<1>12. \A c \in cells : map_dist'[c] \in 0 .. Visual(p)!FarAway
  <2> TAKE c \in cells
  <2>1. CASE close(c) = {}
    BY <1>5, <1>10, <2>1
  <2>2. CASE close(c) # {}
    BY <1>2, <1>3, <1>7, <1>11, <2>2
  <2> QED
    BY <2>1, <2>2
<1>13. map_dist' \in [cells -> 0 .. Visual(p)!FarAway]
  BY <1>1, <1>12
<1>14. \A c \in cells : CellTrue(p, c)'
  <2> TAKE c \in cells
  <2>1. CASE close(c) = {}
    BY <1>10, <2>1 DEF CellTrue
  <2>2. CASE close(c) # {}
    <3>1. PICK k \in close(c) : map_dist'[c] = d(k) /\ retrieve'[c] = {k} /\ grid_num'[c] = "map"
      BY <1>11, <2>2
    <3>2. k \in DOMAIN pts /\ pts[k].obs # << >> /\ view.cell[pts[k].pos] = c
      BY <1>2, <1>3, <3>1
    <3> QED
      BY <3>1, <3>2 DEF CellTrue
  <2> QED
    BY <2>1, <2>2
<1>15. \A c \in cells :
              /\ map_dist'[c] <= map_dist[c] /\ (grid_num[c] = "map" => grid_num'[c] = "map")
              /\ \A k \in near(c) : grid_num'[c] = "map" /\ map_dist'[c] <= d(k)
  <2> TAKE c \in cells
  <2>1. CASE close(c) = {}
    <3>1. map_dist[c] <= map_dist[c]
      BY <1>5, <1>6
    <3> QED
      BY <1>10, <2>1, <3>1
  <2>2. CASE close(c) # {}
    <3>1. PICK k \in close(c) : map_dist'[c] = d(k) /\ retrieve'[c] = {k} /\ grid_num'[c] = "map"
      BY <1>11, <2>2
    <3> QED
      BY <1>3, <3>1
  <2> QED
    BY <2>1, <2>2
<1>16. \A c \in cells : \A k \in ks : view.cell[pts[k].pos] = c =>
         grid_num'[c] = "map" /\ map_dist'[c] <= d(k)
  BY <1>2, <1>15
<1> QED
  BY <1>9, <1>13, <1>14, <1>15, <1>16

LEMMA PointsStay ==
  ASSUME NEW p \in Maps, PointsSound(p), UNCHANGED <<pts, frame>>
  PROVE  PointsSound(p)'
<1>1. \A k \in DOMAIN pts' : Sound(p, pts'[k]) /\ OlderThan(pts'[k], frame' + 1)
  BY DEF PointsSound
<1> QED
  BY <1>1 DEF PointsSound

LEMMA FramesStay ==
  ASSUME FramesBefore, UNCHANGED <<pts, frame, submap>>,
         mapPc \in {"project", "raycast", "match", "generate"},
         mapPc' \in {"project", "raycast", "match", "generate", "reference", "idle"}
  PROVE  FramesBefore'
<1>1. \A k \in DOMAIN pts' : OlderThan(pts'[k], frame')
  BY DEF FramesBefore
<1> QED
  BY <1>1 DEF FramesBefore

(* The points of the scanned voxels compete first.                         *)
LEMMA ProjectKeeps ==
  ASSUME NEW p \in Maps, MapInv(p), Visual(p)!Project
  PROVE  MapInv(p)'
<1>1. /\ mapPc = "project" /\ mapPc' = "raycast" /\ mapIndex' = 1 /\ submap' = << >>
      /\ UNCHANGED <<frame, view, pg, pts>>
      /\ sub_feat_map' = {Visual(p)!LookupKey(x) : x \in pg}
  BY DEF Visual!Project, Visual!Reset
<1>2. MapTyped(p) /\ PointsSound(p) /\ FramesBefore /\ CellsFilled(p)
  BY DEF MapInv
<1>3. PICK ks : ks = Visual(p)!InView(sub_feat_map') /\ Visual(p)!Compete(ks)
  BY DEF Visual!Project
<1>4. ks = {k \in DOMAIN pts : /\ pts[k].key \in sub_feat_map' /\ pts[k].obs # << >>
                               /\ view.front[pts[k].pos] /\ view.cell[pts[k].pos] # 0}
  BY <1>3 DEF Visual!InView, Visual!Out
<1>5. ks \in SUBSET DOMAIN pts /\ \A k \in ks : pts[k].obs # << >>
  BY <1>4
<1>6. \A c \in MapSettings[p].cells : CellTrue(p, c)
  BY <1>1, <1>2 DEF CellsFilled, CellTrue
<1>7. /\ grid_num' \in [MapSettings[p].cells -> {"unknown", "map", "pointcloud"}]
      /\ map_dist' \in [MapSettings[p].cells -> 0 .. Visual(p)!FarAway]
      /\ \A c \in MapSettings[p].cells :
           /\ CellTrue(p, c)'
           /\ \A k \in ks : view.cell[pts[k].pos] = c =>
                grid_num'[c] = "map" /\ map_dist'[c] <= view.dist[pts[k].pos]
  BY <1>1, <1>2, <1>3, <1>5, <1>6, CellsCompeted
<1>8. MapTyped(p)'
  BY <1>1, <1>2, <1>7 DEF MapTyped
<1>9. ASSUME NEW x \in pg, x >= 0
      PROVE  Visual(p)!InsertKey(x) \in sub_feat_map'
  <2>1. x \in Int /\ MapSettings[p].voxel_size \in Nat \ {0}
    BY <1>2, MapConstants DEF MapTyped
  <2>2. ~(x < 0) /\ ~(x \div MapSettings[p].voxel_size < 0)
    BY <1>9, <2>1
  <2>3. Visual(p)!InsertKey(x) = Visual(p)!LookupKey(x)
    BY <2>2 DEF Visual!InsertKey, Visual!LookupKey
  <2> QED
    BY <1>1, <2>3
<1>10. \A c \in MapSettings[p].cells : NearestTrue(p, c)'
  <2> SUFFICES ASSUME NEW c \in MapSettings[p].cells, NEW k \in DOMAIN pts,
                      pts[k].obs # << >>, view.front[pts[k].pos], view.cell[pts[k].pos] = c,
                      NEW x \in pg, x >= 0, Visual(p)!InsertKey(x) = pts[k].key
               PROVE  grid_num'[c] = "map" /\ map_dist'[c] <= view.dist[pts[k].pos]
    BY <1>1 DEF NearestTrue, Visual!InsertKey
  <2>1. c # 0
    BY MapConstants
  <2>2. k \in ks
    BY <1>4, <1>9, <2>1
  <2> QED
    BY <1>7, <2>2
<1>11. CellsFilled(p)'
  BY <1>1, <1>7, <1>10 DEF CellsFilled
<1>12. SubmapPassed(p)' /\ Visual(p)!SubmapReferenced' /\ Visual(p)!SubmapObserved'
  BY <1>1 DEF SubmapPassed, Visual!SubmapReferenced, Visual!SubmapObserved
<1>13. PointsSound(p)'
  BY <1>1, <1>2, PointsStay
<1>14. FramesBefore'
  <2>1. \A k \in DOMAIN pts' : OlderThan(pts'[k], frame')
    BY <1>1, <1>2 DEF FramesBefore
  <2> QED
    BY <1>1, <2>1 DEF FramesBefore
<1> QED
  BY <1>8, <1>11, <1>12, <1>13, <1>14 DEF MapInv

(* A ray brings the points of one more voxel, or none.                     *)
LEMMA RayCastKeeps ==
  ASSUME NEW p \in Maps, MapInv(p), Visual(p)!RayCast
  PROVE  MapInv(p)'
<1>1. /\ mapPc = "raycast" /\ mapPc' = "raycast" /\ mapIndex' = mapIndex + 1
      /\ UNCHANGED <<frame, view, pg, pts, submap>>
  BY DEF Visual!RayCast
<1>2. MapTyped(p) /\ PointsSound(p) /\ FramesBefore /\ CellsFilled(p) /\ SubmapPassed(p)
  BY DEF MapInv
<1>3. \/ UNCHANGED <<grid_num, map_dist, retrieve>>
      \/ \E key : Visual(p)!Compete(Visual(p)!InView({key}))
  BY DEF Visual!RayCast, Visual!grid
<1>11. Visual(p)!FarAway \in Nat
  BY DEF Visual!FarAway
<1>4. /\ grid_num' \in [MapSettings[p].cells -> {"unknown", "map", "pointcloud"}]
      /\ map_dist' \in [MapSettings[p].cells -> 0 .. Visual(p)!FarAway]
      /\ \A c \in MapSettings[p].cells :
           /\ CellTrue(p, c)'
           /\ map_dist'[c] <= map_dist[c] /\ (grid_num[c] = "map" => grid_num'[c] = "map")
  <2>1. CASE UNCHANGED <<grid_num, map_dist, retrieve>>
    <3>1. \A c \in MapSettings[p].cells : map_dist[c] <= map_dist[c]
      BY <1>2, <1>11 DEF MapTyped
    <3>2. \A c \in MapSettings[p].cells : CellTrue(p, c)'
      BY <1>1, <1>2, <2>1 DEF CellsFilled, CellTrue
    <3> QED
      BY <1>2, <2>1, <3>1, <3>2 DEF MapTyped
  <2>2. ASSUME NEW key, Visual(p)!Compete(Visual(p)!InView({key}))
        PROVE  <1>4!1 /\ <1>4!2 /\ <1>4!3
    <3>1. PICK ks : ks = Visual(p)!InView({key}) /\ Visual(p)!Compete(ks)
      BY <2>2
    <3>2. ks \in SUBSET DOMAIN pts /\ \A k \in ks : pts[k].obs # << >>
      BY <3>1 DEF Visual!InView
    <3>3. \A c \in MapSettings[p].cells : CellTrue(p, c)
      BY <1>1, <1>2 DEF CellsFilled
    <3> QED
      BY <1>1, <1>2, <3>1, <3>2, <3>3, CellsCompeted
  <2> QED
    BY <1>3, <2>1, <2>2
<1>5. MapTyped(p)'
  BY <1>1, <1>2, <1>4 DEF MapTyped
<1>6. \A c \in MapSettings[p].cells : NearestTrue(p, c)'
  <2> SUFFICES ASSUME NEW c \in MapSettings[p].cells, NEW k \in DOMAIN pts,
                      pts[k].obs # << >>, view.front[pts[k].pos], view.cell[pts[k].pos] = c,
                      NEW x \in pg, x >= 0, Visual(p)!InsertKey(x) = pts[k].key
               PROVE  grid_num'[c] = "map" /\ map_dist'[c] <= view.dist[pts[k].pos]
    BY <1>1 DEF NearestTrue, Visual!InsertKey
  <2>1. grid_num[c] = "map" /\ map_dist[c] <= view.dist[pts[k].pos]
    BY <1>1, <1>2 DEF CellsFilled, NearestTrue
  <2>2. /\ map_dist[c] \in Nat /\ map_dist'[c] \in Nat /\ view.dist[pts[k].pos] \in Nat
    <3>1. map_dist \in [MapSettings[p].cells -> 0 .. Visual(p)!FarAway]
      BY <1>2 DEF MapTyped
    <3>2. map_dist[c] \in Nat /\ map_dist'[c] \in Nat
      BY <1>4, <1>11, <3>1
    <3>3. view.dist[pts[k].pos] \in 0 .. Visual(p)!FarAway
      BY <1>2, Distances
    <3> QED
      BY <1>11, <3>2, <3>3
  <2> QED
    BY <1>4, <2>1, <2>2
<1>7. CellsFilled(p)'
  BY <1>1, <1>4, <1>6 DEF CellsFilled
<1>8. SubmapPassed(p)' /\ Visual(p)!SubmapReferenced' /\ Visual(p)!SubmapObserved'
  BY <1>1, <1>2 DEF SubmapPassed, Visual!SubmapReferenced, Visual!SubmapObserved
<1>9. PointsSound(p)'
  BY <1>1, <1>2, PointsStay
<1>10. FramesBefore'
  BY <1>1, <1>2, FramesStay
<1> QED
  BY <1>5, <1>7, <1>8, <1>9, <1>10 DEF MapInv

LEMMA CellsStay ==
  ASSUME NEW p \in Maps, CellsFilled(p), mapPc \in {"raycast", "match"},
         UNCHANGED <<view, pg, grid_num, map_dist, retrieve>>,
         DOMAIN pts' = DOMAIN pts,
         \A k \in DOMAIN pts : /\ pts'[k].pos = pts[k].pos /\ pts'[k].key = pts[k].key
                               /\ pts'[k].obs = pts[k].obs,
         mapPc' # "project"
  PROVE  CellsFilled(p)'
<1>1. \A c \in MapSettings[p].cells : CellTrue(p, c) /\ NearestTrue(p, c)
  BY DEF CellsFilled
<1>2. \A c \in MapSettings[p].cells : CellTrue(p, c)'
  BY <1>1 DEF CellTrue
<1>3. \A c \in MapSettings[p].cells : NearestTrue(p, c)'
  BY <1>1 DEF NearestTrue, Visual!InsertKey
<1> QED
  BY <1>2, <1>3 DEF CellsFilled

LEMMA EndRayCastKeeps ==
  ASSUME NEW p \in Maps, MapInv(p), Visual(p)!EndRayCast
  PROVE  MapInv(p)'
<1>1. /\ mapPc = "raycast" /\ mapPc' = "match" /\ mapIndex' = 1
      /\ UNCHANGED <<frame, view, pg, pts, submap, grid_num, map_dist, retrieve>>
  BY DEF Visual!EndRayCast, Visual!grid
<1>2. MapTyped(p) /\ PointsSound(p) /\ FramesBefore /\ CellsFilled(p) /\ submap = << >>
  BY <1>1 DEF MapInv, SubmapPassed
<1>3. MapTyped(p)'
  BY <1>1, <1>2 DEF MapTyped
<1>4. CellsFilled(p)'
  BY <1>1, <1>2, CellsStay
<1>5. SubmapPassed(p)' /\ Visual(p)!SubmapReferenced' /\ Visual(p)!SubmapObserved'
  BY <1>1, <1>2 DEF SubmapPassed, Visual!SubmapReferenced, Visual!SubmapObserved
<1>6. PointsSound(p)' /\ FramesBefore'
  BY <1>1, <1>2, PointsStay, FramesStay
<1> QED
  BY <1>3, <1>4, <1>5, <1>6 DEF MapInv

(* A cell's point gets its reference and may join the submap, after those  *)
(* of the cells before.                                                    *)
LEMMA MatchMapKeeps ==
  ASSUME NEW p \in Maps, MapInv(p), Visual(p)!Match
  PROVE  MapInv(p)'
<1>1. /\ mapPc = "match" /\ mapPc' = "match" /\ mapIndex' = mapIndex + 1
      /\ mapIndex <= Visual(p)!length
      /\ UNCHANGED <<frame, view, pg, grid_num, map_dist, retrieve>>
  BY DEF Visual!Match, Visual!grid
<1>2. MapTyped(p) /\ PointsSound(p) /\ FramesBefore /\ CellsFilled(p) /\ SubmapPassed(p)
  BY DEF MapInv
<1>3. Visual(p)!SubmapReferenced /\ Visual(p)!SubmapObserved
  BY DEF MapInv
<1>4. mapIndex \in MapSettings[p].cells /\ mapIndex \in Nat
  BY <1>1, <1>2, MapConstants DEF MapTyped
<1>5. \A n \in DOMAIN submap : /\ submap[n] \in DOMAIN pts
                               /\ view.cell[pts[submap[n]].pos] < mapIndex
                               /\ view.cell[pts[submap[n]].pos] \in Int
                               /\ pts[submap[n]].obs # << >>
                               /\ MapSettings[p].normal_en => pts[submap[n]].ref # {}
  <2>1. \A n \in DOMAIN submap : /\ submap[n] \in DOMAIN pts
                                 /\ view.cell[pts[submap[n]].pos] < mapIndex
    BY <1>1, <1>2 DEF MapTyped, SubmapPassed
  <2>2. \A n \in DOMAIN submap : view.cell[pts[submap[n]].pos] \in Int
    BY <1>2, <2>1, Distances, MapConstants
  <2>3. \A n \in DOMAIN submap : /\ pts[submap[n]].obs # << >>
                                 /\ MapSettings[p].normal_en => pts[submap[n]].ref # {}
    BY <1>1, <1>3 DEF Visual!SubmapReferenced, Visual!SubmapObserved
  <2> QED
    BY <2>1, <2>2, <2>3
<1>6. CASE UNCHANGED <<pts, submap>>
  <2>1. MapTyped(p)'
    BY <1>1, <1>2, <1>6 DEF MapTyped
  <2>2. SubmapPassed(p)'
    BY <1>1, <1>2, <1>4, <1>5, <1>6 DEF SubmapPassed
  <2>3. Visual(p)!SubmapReferenced' /\ Visual(p)!SubmapObserved'
    BY <1>1, <1>5, <1>6 DEF Visual!SubmapReferenced, Visual!SubmapObserved
  <2>4. CellsFilled(p)'
    BY <1>1, <1>2, <1>6, CellsStay
  <2>5. PointsSound(p)' /\ FramesBefore'
    BY <1>1, <1>2, <1>6, PointsStay, FramesStay
  <2> QED
    BY <2>1, <2>2, <2>3, <2>4, <2>5 DEF MapInv
<1>7. ASSUME NEW k, k = CHOOSE n \in retrieve[mapIndex] : TRUE, grid_num[mapIndex] = "map",
             NEW d \in Visual(p)!ChooseRef(pts[k]), pts' = [pts EXCEPT ![k] = d],
             submap' \in {submap, Append(submap, k)}
      PROVE  MapInv(p)'
  <2>1. PICK j \in DOMAIN pts :
          /\ retrieve[mapIndex] = {j} /\ pts[j].obs # << >> /\ view.cell[pts[j].pos] = mapIndex
    BY <1>1, <1>2, <1>4, <1>7 DEF CellsFilled, CellTrue
  <2>2. k = j
    BY <1>7, <2>1
  <2>3. /\ k \in DOMAIN pts /\ pts[k].obs # << >> /\ view.cell[pts[k].pos] = mapIndex
    BY <2>1, <2>2
  <2>4. Sound(p, pts[k]) /\ OlderThan(pts[k], frame + 1) /\ OlderThan(pts[k], frame)
    BY <1>1, <1>2, <2>3 DEF PointsSound, FramesBefore
  <2>5. /\ Sound(p, d) /\ d.pos = pts[k].pos /\ d.key = pts[k].key /\ d.obs = pts[k].obs
        /\ MapSettings[p].normal_en => d.ref # {}
    BY <1>7, <2>3, <2>4, ReferenceChosen
  <2>6. OlderThan(d, frame + 1) /\ OlderThan(d, frame)
    BY <2>4, <2>5 DEF OlderThan
  <2>7. /\ pts' \in Seq(Point(p)) /\ DOMAIN pts' = DOMAIN pts /\ PointsSound(p)'
        /\ pts'[k] = d /\ \A n \in DOMAIN pts : n # k => pts'[n] = pts[n]
    BY <1>1, <1>2, <1>7, <2>3, <2>5, <2>6, OnePointChanged
  <2>8. \A n \in DOMAIN pts : /\ pts'[n].pos = pts[n].pos /\ pts'[n].key = pts[n].key
                              /\ pts'[n].obs = pts[n].obs
    BY <2>5, <2>7
  <2>9. CellsFilled(p)'
    BY <1>1, <1>2, <2>7, <2>8, CellsStay
  <2>10. FramesBefore'
    <3>1. \A n \in DOMAIN pts' : OlderThan(pts'[n], frame')
      BY <1>1, <1>2, <2>6, <2>7 DEF FramesBefore
    <3> QED
      BY <1>1, <3>1 DEF FramesBefore
  <2>11. /\ submap' \in Seq(Nat)
         /\ \A n \in DOMAIN submap' :
              \/ n \in DOMAIN submap /\ submap'[n] = submap[n]
              \/ n = Len(submap) + 1 /\ submap'[n] = k
    <3>1. submap \in Seq(Nat) /\ k \in Nat
      BY <1>2, <2>3 DEF MapTyped
    <3>2. CASE submap' = submap
      BY <3>1, <3>2
    <3>3. CASE submap' = Append(submap, k)
      <4>1. /\ Append(submap, k) \in Seq(Nat)
            /\ \A n \in DOMAIN Append(submap, k) :
                 \/ n \in DOMAIN submap /\ Append(submap, k)[n] = submap[n]
                 \/ n = Len(submap) + 1 /\ Append(submap, k)[n] = k
        BY <3>1
      <4> QED
        BY <3>3, <4>1
    <3> QED
      BY <1>7, <3>2, <3>3
  <2>12. \A n \in DOMAIN submap : submap[n] \in DOMAIN pts /\ submap[n] # k
    <3> TAKE n \in DOMAIN submap
    <3>1. submap[n] \in DOMAIN pts /\ view.cell[pts[submap[n]].pos] # mapIndex
      BY <1>4, <1>5
    <3> QED
      BY <2>3, <3>1
  <2>13. \A n \in DOMAIN submap' :
           /\ submap'[n] \in DOMAIN pts' /\ view.cell[pts'[submap'[n]].pos] < mapIndex + 1
           /\ pts'[submap'[n]].obs # << >>
           /\ MapSettings[p].normal_en => pts'[submap'[n]].ref # {}
    <3> TAKE n \in DOMAIN submap'
    <3>1. CASE n \in DOMAIN submap /\ submap'[n] = submap[n]
      <4>1. pts'[submap[n]] = pts[submap[n]]
        BY <2>7, <2>12, <3>1
      <4>2. view.cell[pts[submap[n]].pos] < mapIndex + 1
        BY <1>4, <1>5, <3>1
      <4> QED
        BY <1>5, <2>7, <3>1, <4>1, <4>2
    <3>2. CASE submap'[n] = k
      <4>1. mapIndex < mapIndex + 1
        BY <1>4
      <4> QED
        BY <2>3, <2>5, <2>7, <3>2, <4>1
    <3> QED
      BY <2>11, <3>1, <3>2
  <2>14. \A m, n \in DOMAIN submap' : submap'[m] = submap'[n] => m = n
    BY <1>2, <2>11, <2>12 DEF SubmapPassed
  <2>15. SubmapPassed(p)'
    BY <1>1, <2>13, <2>14 DEF SubmapPassed
  <2>16. Visual(p)!SubmapReferenced' /\ Visual(p)!SubmapObserved'
    BY <1>1, <2>13 DEF Visual!SubmapReferenced, Visual!SubmapObserved
  <2>17. MapTyped(p)'
    BY <1>1, <1>2, <2>7, <2>11, <2>13 DEF MapTyped
  <2> QED
    BY <2>7, <2>9, <2>10, <2>15, <2>16, <2>17 DEF MapInv
<1>8. \/ UNCHANGED <<pts, submap>>
      \/ \E k : /\ k = CHOOSE n \in retrieve[mapIndex] : TRUE
                /\ grid_num[mapIndex] = "map"
                /\ \E d \in Visual(p)!ChooseRef(pts[k]) : pts' = [pts EXCEPT ![k] = d]
                /\ submap' \in {submap, Append(submap, k)}
  BY DEF Visual!Match
<1> QED
  BY <1>6, <1>7, <1>8

(* The state update moves the view.                                        *)
LEMMA UpdateEKFKeeps ==
  ASSUME NEW p \in Maps, MapInv(p), Visual(p)!UpdateEKF
  PROVE  MapInv(p)'
<1>1. /\ mapPc = "match" /\ mapPc' = "generate"
      /\ view' = view \/ view' \in MapSettings[p].views
      /\ UNCHANGED <<mapIndex, frame, pg, pts, submap, grid_num, map_dist, retrieve>>
  BY DEF Visual!UpdateEKF, Visual!grid
<1>2. MapTyped(p) /\ PointsSound(p) /\ FramesBefore /\ SubmapPassed(p)
  BY DEF MapInv
<1>3. Visual(p)!SubmapObserved
  BY DEF MapInv
<1>4. MapTyped(p)'
  BY <1>1, <1>2 DEF MapTyped
<1>5. SubmapPassed(p)' /\ CellsFilled(p)'
  BY <1>1, <1>2 DEF SubmapPassed, CellsFilled
<1>6. Visual(p)!SubmapReferenced' /\ Visual(p)!SubmapObserved'
  BY <1>1, <1>3 DEF Visual!SubmapReferenced, Visual!SubmapObserved
<1>7. PointsSound(p)' /\ FramesBefore'
  BY <1>1, <1>2, PointsStay, FramesStay
<1> QED
  BY <1>4, <1>5, <1>6, <1>7 DEF MapInv

LEMMA EndUpdateKeeps ==
  ASSUME NEW p \in Maps, MapInv(p), Visual(p)!EndUpdate \/ Visual(p)!EndFrame
  PROVE  MapInv(p)'
<1>1. /\ \/ mapPc = "update" /\ mapPc' = "reference" /\ mapIndex' = 1
         \/ mapPc = "reference" /\ mapPc' = "idle" /\ mapIndex' = mapIndex
      /\ UNCHANGED <<frame, view, pg, pts, submap, grid_num, map_dist, retrieve>>
  BY DEF Visual!EndUpdate, Visual!EndFrame, Visual!grid
<1>2. MapTyped(p) /\ PointsSound(p) /\ SubmapPassed(p)
  BY DEF MapInv
<1>3. MapTyped(p)'
  BY <1>1, <1>2 DEF MapTyped
<1>4. SubmapPassed(p)' /\ CellsFilled(p)' /\ FramesBefore'
  BY <1>1, <1>2 DEF SubmapPassed, CellsFilled, FramesBefore
<1>5. Visual(p)!SubmapReferenced' /\ Visual(p)!SubmapObserved'
  BY <1>1 DEF Visual!SubmapReferenced, Visual!SubmapObserved
<1>6. PointsSound(p)'
  BY <1>1, <1>2, PointsStay
<1> QED
  BY <1>3, <1>4, <1>5, <1>6 DEF MapInv

(* The new points go behind those there are, with the frame's feature.     *)
LEMMA GenerateKeeps ==
  ASSUME NEW p \in Maps, MapInv(p), Visual(p)!Generate
  PROVE  MapInv(p)'
<1>1. /\ mapPc = "generate" /\ mapPc' = "update" /\ mapIndex' = 1
      /\ UNCHANGED <<frame, view, pg, map_dist, submap>>
  BY DEF Visual!Generate
<1>2. MapTyped(p) /\ PointsSound(p) /\ FramesBefore /\ SubmapPassed(p)
  BY DEF MapInv
<1>20. PICK cells \in Visual(p)!Ascending : \E places \in [DOMAIN cells -> MapSettings[p].positions] :
        /\ pts' = pts \o [n \in DOMAIN cells |-> Visual(p)!NewPoint(places[n])]
        /\ grid_num' = [c \in MapSettings[p].cells |->
                          IF c \in Visual(p)!Range(cells) THEN "pointcloud" ELSE grid_num[c]]
  BY DEF Visual!Generate
<1>3. PICK places \in [DOMAIN cells -> MapSettings[p].positions] :
        /\ pts' = pts \o [n \in DOMAIN cells |-> Visual(p)!NewPoint(places[n])]
        /\ grid_num' = [c \in MapSettings[p].cells |->
                          IF c \in Visual(p)!Range(cells) THEN "pointcloud" ELSE grid_num[c]]
  BY <1>20
<1> DEFINE new == [n \in DOMAIN cells |-> Visual(p)!NewPoint(places[n])]
<1>4. PICK l \in Nat : DOMAIN cells = 1 .. l
  <2>1. PICK l \in 0 .. Visual(p)!length : cells \in [1 .. l -> MapSettings[p].cells]
    BY DEF Visual!Ascending
  <2> QED
    BY <2>1
<1>5. frame \in Nat /\ pts \in Seq(Point(p)) /\ Len(pts) \in Nat /\ DOMAIN pts = 1 .. Len(pts)
  BY <1>2 DEF MapTyped
<1>6. \A n \in 1 .. l : Sound(p, new[n]) /\ OlderThan(new[n], frame + 1) /\ new[n] \in Point(p)
  <2> TAKE n \in 1 .. l
  <2>1. places[n] \in MapSettings[p].positions /\ new[n] = Visual(p)!NewPoint(places[n])
    BY <1>4
  <2>2. Sound(p, new[n]) /\ OlderThan(new[n], frame + 1)
    BY <1>5, <2>1, NewPointSound
  <2> QED
    BY <2>2 DEF Sound
<1>7. new \in Seq(Point(p)) /\ Len(new) = l
  <2>1. new \in [1 .. l -> Point(p)]
    BY <1>4, <1>6
  <2> HIDE DEF new
  <2> QED
    BY <2>1, SeqDef, LenProperties
<1> HIDE DEF new
<1>8. /\ pts \o new \in Seq(Point(p)) /\ Len(pts \o new) = Len(pts) + Len(new)
      /\ \A i \in 1 .. Len(pts) + Len(new) :
           (pts \o new)[i] = IF i <= Len(pts) THEN pts[i] ELSE new[i - Len(pts)]
  BY <1>5, <1>7, ConcatProperties
<1>9. pts' = pts \o new
  BY <1>3 DEF new
<1>10. /\ pts' \in Seq(Point(p)) /\ DOMAIN pts' = 1 .. Len(pts) + l
       /\ \A i \in DOMAIN pts : i \in DOMAIN pts' /\ pts'[i] = pts[i]
       /\ \A i \in DOMAIN pts' : i \in DOMAIN pts \/ \E n \in 1 .. l : pts'[i] = new[n]
  <2> DEFINE both == pts \o new
  <2>1. DOMAIN both = 1 .. Len(pts) + l
    BY <1>7, <1>8, LenProperties
  <2>2. \A i \in 1 .. Len(pts) + l :
          both[i] = IF i <= Len(pts) THEN pts[i] ELSE new[i - Len(pts)]
    BY <1>7, <1>8
  <2> HIDE DEF both
  <2>3. \A i \in DOMAIN pts : i \in DOMAIN both /\ both[i] = pts[i]
    BY <1>5, <2>1, <2>2
  <2>4. \A i \in DOMAIN both : i \in DOMAIN pts \/ \E n \in 1 .. l : both[i] = new[n]
    <3> TAKE i \in DOMAIN both
    <3>1. i \in DOMAIN pts \/ (~(i <= Len(pts)) /\ i - Len(pts) \in 1 .. l)
      BY <1>5, <2>1
    <3> QED
      BY <2>1, <2>2, <3>1
  <2>5. both \in Seq(Point(p)) /\ pts' = both
    BY <1>8, <1>9 DEF both
  <2> QED
    BY <2>1, <2>3, <2>4, <2>5
<1>11. \A i \in DOMAIN pts' : Sound(p, pts'[i]) /\ OlderThan(pts'[i], frame' + 1)
  BY <1>1, <1>2, <1>6, <1>10 DEF PointsSound
<1>12. PointsSound(p)'
  BY <1>11 DEF PointsSound
<1>13. \A n \in DOMAIN submap : submap[n] \in DOMAIN pts' /\ pts'[submap[n]] = pts[submap[n]]
  BY <1>2, <1>10 DEF MapTyped
<1>14. \A n \in DOMAIN submap' : OlderThan(pts'[submap'[n]], frame')
  BY <1>1, <1>2, <1>13 DEF FramesBefore, MapTyped
<1>15. FramesBefore'
  BY <1>1, <1>14 DEF FramesBefore
<1>16. grid_num' \in [MapSettings[p].cells -> {"unknown", "map", "pointcloud"}]
  BY <1>2, <1>3 DEF MapTyped
<1>17. MapTyped(p)'
  BY <1>1, <1>2, <1>10, <1>13, <1>16 DEF MapTyped
<1>18. SubmapPassed(p)' /\ CellsFilled(p)'
  BY <1>1, <1>2 DEF SubmapPassed, CellsFilled
<1>19. Visual(p)!SubmapReferenced' /\ Visual(p)!SubmapObserved'
  <2>1. \A n \in DOMAIN submap : pts[submap[n]].obs # << >>
    BY <1>1 DEF MapInv, Visual!SubmapObserved
  <2> QED
    BY <1>1, <1>13, <2>1 DEF Visual!SubmapReferenced, Visual!SubmapObserved
<1> QED
  BY <1>12, <1>15, <1>17, <1>18, <1>19 DEF MapInv

(* A point of the submap at work, in the update and the revision after it. *)
LEMMA PointAtWork ==
  ASSUME NEW p \in Maps, MapInv(p), mapPc \in {"update", "reference"}, mapIndex <= Len(submap)
  PROVE  /\ mapIndex \in DOMAIN submap /\ submap[mapIndex] \in DOMAIN pts
         /\ Sound(p, pts[submap[mapIndex]]) /\ OlderThan(pts[submap[mapIndex]], frame + 1)
         /\ \A n \in DOMAIN submap : n >= mapIndex + 1 =>
              n >= mapIndex /\ submap[n] \in DOMAIN pts /\ submap[n] # submap[mapIndex]
<1>1. MapTyped(p) /\ PointsSound(p) /\ SubmapPassed(p)
  BY DEF MapInv
<1>2. mapIndex \in Nat /\ mapIndex >= 1 /\ submap \in Seq(Nat) /\ DOMAIN submap = 1 .. Len(submap)
  BY <1>1 DEF MapTyped
<1>3. mapIndex \in DOMAIN submap /\ submap[mapIndex] \in DOMAIN pts
  BY <1>1, <1>2 DEF MapTyped
<1>4. \A n \in DOMAIN submap : n >= mapIndex + 1 => n >= mapIndex /\ n # mapIndex
  BY <1>2
<1> QED
  BY <1>1, <1>3, <1>4 DEF MapTyped, PointsSound, SubmapPassed

(* updateVisualMapPoints: a converged point keeps its reference, another   *)
(* is trimmed and may get the frame's feature.                             *)
LEMMA UpdatePointKeeps ==
  ASSUME NEW p \in Maps, MapInv(p), Visual(p)!UpdatePoint
  PROVE  MapInv(p)'
<1> DEFINE k == submap[mapIndex]
           q == pts[k]
           new == [id |-> frame, score |-> 0]
<1>1. /\ mapPc = "update" /\ mapPc' = "update" /\ mapIndex' = mapIndex + 1
      /\ mapIndex <= Len(submap)
      /\ UNCHANGED <<frame, view, pg, grid_num, map_dist, retrieve, submap>>
  BY DEF Visual!UpdatePoint, Visual!grid
<1>2. MapTyped(p) /\ PointsSound(p) /\ FramesBefore /\ SubmapPassed(p)
  BY DEF MapInv
<1>3. /\ mapIndex \in DOMAIN submap /\ k \in DOMAIN pts
      /\ Sound(p, q) /\ OlderThan(q, frame + 1)
      /\ \A n \in DOMAIN submap : n >= mapIndex + 1 =>
           n >= mapIndex /\ submap[n] \in DOMAIN pts /\ submap[n] # k
  BY <1>1, PointAtWork
<1>4. frame \in Nat /\ mapIndex \in Nat
  BY <1>2 DEF MapTyped
<1>5. OlderThan(q, frame)
  BY <1>1, <1>2, <1>3, <1>4 DEF FramesBefore
<1>6. \/ pts' = [pts EXCEPT ![k] = Visual(p)!deleteNonRefPatchFeatures(q)]
      \/ pts' = [pts EXCEPT ![k] = Visual(p)!addFrameRef(Visual(p)!Trim(q), new)]
      \/ pts' = [pts EXCEPT ![k] = Visual(p)!Trim(q)]
  BY DEF Visual!UpdatePoint
<1>7. ASSUME NEW d, Sound(p, d), OlderThan(d, frame + 1), pts' = [pts EXCEPT ![k] = d]
      PROVE  MapInv(p)'
  <2> HIDE DEF k
  <2>1. /\ pts' \in Seq(Point(p)) /\ DOMAIN pts' = DOMAIN pts /\ PointsSound(p)'
        /\ pts'[k] = d /\ \A n \in DOMAIN pts : n # k => pts'[n] = pts[n]
    BY <1>1, <1>2, <1>3, <1>7, OnePointChanged
  <2>2. MapTyped(p)'
    BY <1>1, <1>2, <1>4, <2>1 DEF MapTyped
  <2>3. \A n \in DOMAIN submap : n >= mapIndex + 1 => pts'[submap[n]] = pts[submap[n]]
    BY <1>3, <2>1
  <2>4. FramesBefore'
    <3>1. \A n \in DOMAIN submap' : n >= mapIndex' => OlderThan(pts'[submap'[n]], frame')
      BY <1>1, <1>2, <1>3, <2>3 DEF FramesBefore
    <3> QED
      BY <1>1, <3>1 DEF FramesBefore
  <2>5. SubmapPassed(p)' /\ CellsFilled(p)'
    BY <1>1, <1>2 DEF SubmapPassed, CellsFilled
  <2>6. \A n \in DOMAIN submap : n >= mapIndex => pts[submap[n]].obs # << >>
    BY <1>1 DEF MapInv, Visual!SubmapObserved
  <2>7. Visual(p)!SubmapReferenced' /\ Visual(p)!SubmapObserved'
    BY <1>1, <1>3, <2>3, <2>6 DEF Visual!SubmapReferenced, Visual!SubmapObserved
  <2> QED
    BY <2>1, <2>2, <2>4, <2>5, <2>7 DEF MapInv
<1> HIDE DEF k, q
<1>8. LET t == Visual(p)!Trim(q)
      IN  Sound(p, t) /\ OlderThan(t, frame) /\ Len(t.obs) < MapSettings[p].max_obs
  BY <1>3, <1>4, <1>5, Trimmed
<1>9. \A d : Sound(p, d) /\ OlderThan(d, frame) => OlderThan(d, frame + 1)
  <2> TAKE d
  <2> HAVE Sound(p, d) /\ OlderThan(d, frame)
  <2>1. \A n \in DOMAIN d.obs : d.obs[n].id \in Nat
    BY FeaturesTyped
  <2> QED
    BY <1>4, <2>1 DEF OlderThan
<1>10. CASE pts' = [pts EXCEPT ![k] = Visual(p)!deleteNonRefPatchFeatures(q)]
  <2> DEFINE d == Visual(p)!deleteNonRefPatchFeatures(q)
  <2>1. Sound(p, d) /\ OlderThan(d, frame + 1)
    BY <1>3, <1>4, ReferenceKept
  <2> HIDE DEF d
  <2>2. pts' = [pts EXCEPT ![k] = d]
    BY <1>10 DEF d
  <2> QED
    BY <1>7, <2>1, <2>2 DEF k
<1>11. CASE pts' = [pts EXCEPT ![k] = Visual(p)!addFrameRef(Visual(p)!Trim(q), new)]
  <2> DEFINE t == Visual(p)!Trim(q)
             d == Visual(p)!addFrameRef(t, new)
  <2>1. Sound(p, d) /\ OlderThan(d, frame + 1)
    <3>1. Sound(p, t) /\ OlderThan(t, frame) /\ Len(t.obs) < MapSettings[p].max_obs
      BY <1>8
    <3> HIDE DEF t
    <3> QED
      BY <1>4, <3>1, FeatureAdded
  <2> HIDE DEF d, t
  <2>2. pts' = [pts EXCEPT ![k] = d]
    BY <1>11 DEF d, t
  <2> QED
    BY <1>7, <2>1, <2>2 DEF k
<1>12. CASE pts' = [pts EXCEPT ![k] = Visual(p)!Trim(q)]
  <2> DEFINE d == Visual(p)!Trim(q)
  <2>1. Sound(p, d) /\ OlderThan(d, frame + 1)
    BY <1>8, <1>9
  <2> HIDE DEF d
  <2>2. pts' = [pts EXCEPT ![k] = d]
    BY <1>12 DEF d
  <2> QED
    BY <1>7, <2>1, <2>2 DEF k
<1>13. \/ pts' = [pts EXCEPT ![k] = Visual(p)!deleteNonRefPatchFeatures(q)]
       \/ pts' = [pts EXCEPT ![k] = Visual(p)!addFrameRef(Visual(p)!Trim(q), new)]
       \/ pts' = [pts EXCEPT ![k] = Visual(p)!Trim(q)]
  BY <1>6 DEF k, q
<1> QED
  BY <1>10, <1>11, <1>12, <1>13

(* updateReferencePatch revises the points of the submap one by one.       *)
LEMMA UpdateReferenceKeeps ==
  ASSUME NEW p \in Maps, MapInv(p), Visual(p)!UpdateReference
  PROVE  MapInv(p)'
<1> DEFINE k == submap[mapIndex]
           q == pts[k]
<1>1. /\ mapPc = "reference" /\ mapPc' = "reference" /\ mapIndex' = mapIndex + 1
      /\ mapIndex <= Len(submap)
      /\ UNCHANGED <<frame, view, pg, grid_num, map_dist, retrieve, submap>>
  BY DEF Visual!UpdateReference, Visual!grid
<1>2. MapTyped(p) /\ PointsSound(p) /\ SubmapPassed(p)
  BY DEF MapInv
<1>3. /\ mapIndex \in DOMAIN submap /\ k \in DOMAIN pts
      /\ Sound(p, q) /\ OlderThan(q, frame + 1)
  BY <1>1, PointAtWork
<1>4. frame \in Nat /\ mapIndex \in Nat
  BY <1>2 DEF MapTyped
<1>5. \/ UNCHANGED pts
      \/ \E score \in [DOMAIN q.obs -> MapSettings[p].scores \union {MapSettings[p].nan}] :
           \E settled \in BOOLEAN : pts' = [pts EXCEPT ![k] = Revised(p, q, score, settled)]
  BY DEF Visual!UpdateReference, Revised, Scored
<1>6. /\ pts' \in Seq(Point(p)) /\ DOMAIN pts' = DOMAIN pts /\ PointsSound(p)'
  <2>1. CASE UNCHANGED pts
    BY <1>1, <1>2, <2>1, PointsStay DEF MapTyped
  <2>2. ASSUME NEW score \in [DOMAIN q.obs -> MapSettings[p].scores \union {MapSettings[p].nan}],
               NEW settled \in BOOLEAN, pts' = [pts EXCEPT ![k] = Revised(p, q, score, settled)]
        PROVE  <1>6
    <3> DEFINE d == Revised(p, q, score, settled)
    <3>1. Sound(p, d) /\ OlderThan(d, frame + 1)
      <4> DEFINE f == frame + 1
      <4>1. f \in Nat
        BY <1>4
      <4>2. Sound(p, q) /\ OlderThan(q, f)
        BY <1>3
      <4>3. score \in [DOMAIN q.obs -> MapSettings[p].scores \union {MapSettings[p].nan}]
        BY <2>2
      <4> HIDE DEF f, q
      <4>4. Sound(p, d) /\ OlderThan(d, f)
        BY <4>1, <4>2, <4>3, ReferenceRevised
      <4> QED
        BY <4>4 DEF f
    <3>2. pts' = [pts EXCEPT ![k] = d]
      BY <2>2
    <3> HIDE DEF d, k
    <3> QED
      BY <1>1, <1>2, <1>3, <3>1, <3>2, OnePointChanged
  <2> QED
    BY <1>5, <2>1, <2>2
<1>7. MapTyped(p)'
  BY <1>1, <1>2, <1>4, <1>6 DEF MapTyped
<1>8. SubmapPassed(p)' /\ CellsFilled(p)' /\ FramesBefore'
  BY <1>1, <1>2 DEF SubmapPassed, CellsFilled, FramesBefore
<1>9. Visual(p)!SubmapReferenced' /\ Visual(p)!SubmapObserved'
  BY <1>1 DEF Visual!SubmapReferenced, Visual!SubmapObserved
<1> QED
  BY <1>6, <1>7, <1>8, <1>9 DEF MapInv

LEMMA MapStill ==
  ASSUME NEW p \in Maps, MapInv(p), UNCHANGED visualMapVars
  PROVE  MapInv(p)'
<1>1. UNCHANGED <<mapPc, mapIndex, frame, view, pg, pts, grid_num, map_dist, retrieve, submap>>
  BY DEF visualMapVars
<1>2. MapTyped(p) /\ PointsSound(p) /\ FramesBefore /\ SubmapPassed(p) /\ CellsFilled(p)
  BY DEF MapInv
<1>3. MapTyped(p)' /\ SubmapPassed(p)'
  BY <1>1, <1>2 DEF MapTyped, SubmapPassed
<1>4. FramesBefore'
  BY <1>1, <1>2 DEF FramesBefore, OlderThan
<1>5. CellsFilled(p)'
  BY <1>1, <1>2 DEF CellsFilled, CellTrue, NearestTrue, Visual!InsertKey
<1>6. PointsSound(p)'
  BY <1>1, <1>2, PointsStay
<1>7. Visual(p)!SubmapReferenced' /\ Visual(p)!SubmapObserved'
  <2>1. Visual(p)!SubmapReferenced /\ Visual(p)!SubmapObserved
    BY DEF MapInv
  <2> QED
    BY <1>1, <2>1 DEF Visual!SubmapReferenced, Visual!SubmapObserved
<1> QED
  BY <1>3, <1>4, <1>5, <1>6, <1>7 DEF MapInv

LEMMA MapStep ==
  ASSUME NEW p \in Maps, MapInv(p), Visual(p)!Next \/ UNCHANGED visualMapVars
  PROVE  MapInv(p)'
BY BeginFrameKeeps, ProjectKeeps, RayCastKeeps, EndRayCastKeeps, MatchMapKeeps, UpdateEKFKeeps,
   GenerateKeeps, UpdatePointKeeps, EndUpdateKeeps, UpdateReferenceKeeps, MapStill
   DEF Visual!Next

(* A list without a repeated frame has as many frames as features.         *)
LEMMA FramesCounted ==
  ASSUME NEW p \in Maps, NEW q, Sound(p, q)
  PROVE  Visual(p)!Cardinality(Visual(p)!Ids(q)) = Len(q.obs)
<1> DEFINE ids == Visual(p)!Ids(q)
           l == Len(q.obs)
           f == [n \in 1 .. l |-> q.obs[n].id]
<1>1. l \in Nat /\ DOMAIN q.obs = 1 .. l
  BY FeaturesTyped
<1>2. ids = {q.obs[n].id : n \in 1 .. l}
  BY <1>1 DEF Visual!Ids
<1>3. \A m, n \in 1 .. l : f[m] = f[n] => m = n
  BY <1>1 DEF Sound
<1> HIDE DEF ids
<1>4. f \in [1 .. l -> ids] /\ \A a \in ids : \E n \in 1 .. l : f[n] = a
  BY <1>2
<1> HIDE DEF f, l
<1>5. f \in Bijection(1 .. l, ids)
  BY <1>3, <1>4 DEF Bijection, Injection, Surjection, IsInjective
<1>6. ExistsBijection(1 .. l, ids)
  BY <1>5 DEF ExistsBijection
<1>7. IsFiniteSet(1 .. l) /\ Cardinality(1 .. l) = l
  <2>1. 1 \in Int /\ l \in Int
    BY <1>1
  <2>2. IsFiniteSet(1 .. l) /\ Cardinality(1 .. l) = IF 1 > l THEN 0 ELSE l - 1 + 1
    BY <2>1, FS_Interval
  <2> QED
    BY <1>1, <2>2
<1>8. Cardinality(ids) = l
  BY <1>6, <1>7, FS_Bijection
<1>9. \A S : Visual(p)!Cardinality(S) = Cardinality(S)
  BY Zenon DEF Visual!Cardinality, Cardinality
<1> QED
  BY <1>8, <1>9 DEF ids, l

LEMMA MapMeaning ==
  ASSUME NEW p \in Maps, MapInv(p)
  PROVE  /\ Visual(p)!RefPatchAlive /\ Visual(p)!SubmapReferenced /\ Visual(p)!ObsBounded
         /\ Visual(p)!SubmapObserved /\ Visual(p)!NearestInCell /\ Visual(p)!FramesDistinct
<1>1. MapTyped(p) /\ \A k \in DOMAIN pts : Sound(p, pts[k])
  BY DEF MapInv, PointsSound
<1>2. Visual(p)!RefPatchAlive /\ Visual(p)!ObsBounded
  BY <1>1 DEF Visual!RefPatchAlive, Visual!ObsBounded, Sound
<1>3. Visual(p)!FramesDistinct
  BY <1>1, FramesCounted DEF Visual!FramesDistinct
<1>4. Visual(p)!NearestInCell
  <2> SUFFICES ASSUME mapPc \in {"raycast", "match"}, NEW c \in MapSettings[p].cells
               PROVE  /\ grid_num[c] = "map" =>
                           \E k \in DOMAIN pts :
                             /\ retrieve[c] = {k} /\ view.cell[pts[k].pos] = c
                             /\ map_dist[c] = Visual(p)!Dist(k)
                      /\ \A k \in Visual(p)!InCell(Visual(p)!InView(Visual(p)!Voxels), c) :
                           (\E x \in pg : x >= 0 /\ Visual(p)!InsertKey(x) = pts[k].key) =>
                             grid_num[c] = "map" /\ map_dist[c] <= Visual(p)!Dist(k)
    BY DEF Visual!NearestInCell
  <2>1. CellTrue(p, c) /\ NearestTrue(p, c)
    BY DEF MapInv, CellsFilled
  <2>2. \A k : Visual(p)!Dist(k) = view.dist[pts[k].pos]
    BY DEF Visual!Dist
  <2>3. \A k \in Visual(p)!InCell(Visual(p)!InView(Visual(p)!Voxels), c) :
          /\ k \in DOMAIN pts /\ pts[k].obs # << >> /\ view.front[pts[k].pos]
          /\ view.cell[pts[k].pos] = c
    BY DEF Visual!InCell, Visual!InView
  <2> QED
    BY <2>1, <2>2, <2>3 DEF CellTrue, NearestTrue
<1>5. Visual(p)!SubmapReferenced /\ Visual(p)!SubmapObserved
  BY DEF MapInv
<1> QED
  BY <1>2, <1>3, <1>4, <1>5

LEMMA MapPart ==
  ASSUME MapsKept, [OdometryNext]_allVars
  PROVE  MapsKept'
<1>1. part' = part
  BY DEF OdometryNext, Only, Rests, allVars
<1> SUFFICES ASSUME NEW p \in Maps, part = p PROVE MapInv(p)'
  BY <1>1 DEF MapsKept, Maps
<1>2. MapInv(p)
  BY DEF MapsKept
<1>3. Visual(p)!Next \/ UNCHANGED visualMapVars
  <2>1. ASSUME NEW g \in Groups \ {"map"}, Only(g) PROVE UNCHANGED visualMapVars
    <3>1. Still("map")
      BY <2>1 DEF Only, Groups
    <3> QED
      BY <3>1 DEF Still
  <2>2. {"voxels", "lidar", "visual", "window", "preprocess", "modes"} \subseteq Groups \ {"map"}
    BY DEF Groups
  <2>3. UNCHANGED allVars => UNCHANGED visualMapVars
    BY DEF allVars
  <2> QED
    BY <2>1, <2>2, <2>3 DEF OdometryNext, Rests
<1> QED
  BY <1>2, <1>3, MapStep

(* retrieveFromVisualSparseMap, updateVisualMapPoints and                  *)
(* updateReferencePatch, for any map, camera, number of frames and limits  *)
(* on a point's features: no reference patch outlives its feature, a point *)
(* in use has what the update reads, and a cell holds the nearest of its   *)
(* points.                                                                 *)
THEOREM ReferencesStayAlive == OdometrySpec => []ReferencesAlive
<1>1. OdometryInit => MapsKept
  BY MapStarts DEF OdometryInit, MapsKept, OneOf
<1>2. MapsKept /\ [OdometryNext]_allVars => MapsKept'
  BY MapPart
<1>3. MapsKept => ReferencesAlive
  BY MapMeaning DEF MapsKept, ReferencesAlive
<1> QED
  BY <1>1, <1>2, <1>3, PTL DEF OdometrySpec

===============================================================================
