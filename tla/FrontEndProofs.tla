--------------------------- MODULE FrontEndProofs ---------------------------
(***************************************************************************)
(* Proofs about the front end in LIVO mode: the invariants that make the   *)
(* properties of FrontEnd inductive, and the theorems about them.          *)
(* RtkTimeQueueProofs is taken for Sorted and for the two lemmas that      *)
(* stand for induction, LeastMember and LoopExists.                        *)
(***************************************************************************)
EXTENDS FrontEnd, RtkTimeQueueProofs

Point == [time : Nat, curvature : Int]
Span == LastOf(Offsets)

(* Types; buffers fed by a callback that refuses earlier stamps are in     *)
(* time order.  A scan keeps at least its header time buffered.            *)
TypeOK ==
  /\ lid_raw \in Seq(Seq(Point)) /\ lid_header \in Seq(Nat) /\ last_lidar \in Int
  /\ Len(lid_raw) <= Len(lid_header)
  /\ img_time \in Seq(Nat) /\ last_img \in Int
  /\ imu_buffer \in Seq(Nat) /\ last_imu_stamp \in Int
  /\ rtk_buffer \in Seq(Nat) /\ last_rtk \in Int /\ rtk_ini \in BOOLEAN
  /\ rewinds \in Nat
  /\ step \in {"spin", "process"} /\ lio_vio_flg \in {"WAIT", "LIO", "VIO"}
  /\ meas \in [time : Nat, imu : Seq(Nat), rtk : Nat]
  /\ pcl_cur \in Seq(Point) /\ pcl_next \in Seq(Point)
  /\ last_lio \in Nat \cup {-1} /\ keyframe_time \in Nat
  /\ imu_need_init \in BOOLEAN /\ init_iter_num \in Nat
  /\ last_imu \in Nat /\ last_prop_end \in Nat /\ cloud \in Nat
  /\ published \in [stamp : Nat, cloud : Nat, previous : Nat]
  /\ delivered \in SUBSET Nat /\ processed \in Seq(Nat) /\ dropped \in Seq(Nat)

BuffersSorted ==
  /\ Sorted(imu_buffer) /\ \A i \in DOMAIN imu_buffer : imu_buffer[i] <= last_imu_stamp
  /\ Sorted(rtk_buffer) /\ \A i \in DOMAIN rtk_buffer : rtk_buffer[i] <= last_rtk

(* From LIO to the end of VIO the keyframe time is that of the image; a    *)
(* cloud waits only from LIO to VIO.                                       *)
KeyframeInv ==
  /\ lio_vio_flg = "WAIT" => step = "spin"
  /\ lio_vio_flg = "LIO" => img_time # <<>> /\ keyframe_time = Capture
  /\ step = "process" => meas.time = keyframe_time
  /\ lio_vio_flg = "LIO" \/ step = "process" => keyframe_time > published.stamp
  /\ cloud # 0 => /\ cloud = keyframe_time /\ ~imu_need_init
                  /\ \/ lio_vio_flg = "LIO" /\ step = "spin"
                     \/ lio_vio_flg = "VIO" /\ step = "process"
  /\ published.stamp # 0 => published.stamp <= last_lio
  /\ KeyframesConsistent

(* The IMU data of a LIO step lie in its interval, and the message the     *)
(* propagation resumes from is not later than where it resumes.            *)
MotionInv ==
  /\ lio_vio_flg = "WAIT" => imu_need_init
  /\ step = "process" /\ lio_vio_flg = "VIO" => meas.imu = <<>>
  /\ LioPending =>
       /\ 0 <= last_lio /\ last_lio < meas.time
       /\ Sorted(meas.imu)
       /\ \A i \in DOMAIN meas.imu : last_lio < meas.imu[i] /\ meas.imu[i] <= meas.time
  /\ ~imu_need_init =>
       /\ LioPending \/ (lio_vio_flg = "VIO" /\ step = "spin") =>
            last_prop_end = last_lio /\ last_imu <= last_lio
       /\ lio_vio_flg = "VIO" /\ step = "process" => last_imu <= meas.time
       /\ lio_vio_flg = "LIO" /\ step = "spin" => last_imu <= keyframe_time
  /\ MotionCovered

(* Scans stay with their header times, in order.                           *)
ScansInv ==
  /\ Len(lid_raw) = Len(lid_header)
  /\ lid_raw = <<>> \/ last_lidar = LastOf(lid_header)
  /\ \A i \in DOMAIN lid_header :
       /\ lid_header[i] \in ScanTimes /\ lid_raw[i] = ScanAt(lid_header[i])
       /\ lid_header[i] <= last_lidar
  /\ \A i, j \in DOMAIN lid_header : i < j => lid_header[i] < lid_header[j]
  /\ last_lidar \in ScanTimes \cup {-1}

(* Images stay in order and after the one that was processed.              *)
ImagesInv ==
  /\ \A i \in DOMAIN img_time : img_time[i] \in ImageTimes /\ img_time[i] <= last_img
  /\ \A i, j \in DOMAIN img_time : i < j => img_time[i] < img_time[j]
  /\ lio_vio_flg # "WAIT" =>
       \E s \in ImageTimes :
         /\ meas.time = s + ExposureTime /\ s <= last_img
         /\ lio_vio_flg = "LIO" => img_time # <<>> /\ s = Head(img_time)
         /\ lio_vio_flg = "VIO" => \A i \in DOMAIN img_time : s < img_time[i]

(* meas.time is the time of the last cut: points cut off are later, with   *)
(* offsets from it, and so are the scans that are still buffered.          *)
CutInv ==
  /\ lio_vio_flg = "WAIT" => pcl_next = <<>> /\ meas.time = 0
  /\ \A i \in DOMAIN pcl_next :
       /\ pcl_next[i].time = meas.time + pcl_next[i].curvature
       /\ 0 <= pcl_next[i].curvature /\ pcl_next[i].curvature <= Span
  /\ \A i \in DOMAIN lid_header : meas.time <= lid_header[i]
  /\ lio_vio_flg # "WAIT" => last_lidar \in ScanTimes /\ meas.time <= last_lidar + Span
  /\ ~imu_need_init /\ lio_vio_flg = "VIO" /\ step = "spin" => last_lio = meas.time
  /\ PointTimesConsistent

(* How many points are held anywhere, and their times.                     *)
PointCount ==
  Len(processed) + Len(dropped) + Len(Offsets) * Len(lid_raw) + Len(pcl_next)
  + (IF LioPending THEN Len(pcl_cur) ELSE 0)
RawTimes == {lid_header[i] + Offsets[j] : i \in DOMAIN lid_raw, j \in DOMAIN Offsets}
HeldTimes ==
  Range(processed) \cup Range(dropped) \cup RawTimes \cup Range(Times(pcl_next))
  \cup (IF LioPending THEN Range(Times(pcl_cur)) ELSE {})

ConservedInv ==
  /\ IsFiniteSet(delivered) /\ Cardinality(delivered) = PointCount /\ delivered = HeldTimes
  /\ \A p \in delivered : last_lidar \in ScanTimes /\ p <= last_lidar + Span

(***************************************************************************)
(* The loops over buffers                                                  *)
(***************************************************************************)

(* The rounds of Kept exist: each pushes the element back or leaves it.    *)
AreRounds(kept, S, s, good) ==
  /\ kept \in [0 .. Len(s) -> Seq(S)]
  /\ kept[0] = <<>> /\ Kept(s, good) = kept[Len(s)]
  /\ \A i \in 1 .. Len(s) :
       kept[i] = IF i \in good THEN Append(kept[i - 1], s[i]) ELSE kept[i - 1]

LEMMA KeptRounds ==
  ASSUME NEW S, NEW s \in Seq(S), NEW good
  PROVE  \E kept : AreRounds(kept, S, s, good)
<1> DEFINE n == Len(s)
           D == Seq(S)
           round(i, prev) == IF i \in good THEN Append(prev, s[i]) ELSE prev
           body(kept) == [i \in 0 .. Len(s) |->
                            IF i = 0 THEN <<>>
                            ELSE IF i \in good THEN Append(kept[i - 1], s[i]) ELSE kept[i - 1]]
           kept == CHOOSE kept : kept = body(kept)
           F == [i \in 1 .. n |-> [prev \in D |-> round(i, prev)]]
<1>1. Kept(s, good) = kept[Len(s)]
  BY DEF Kept
<1>2. n \in Nat /\ <<>> \in D
  OBVIOUS
<1>3. \A i \in 1 .. n, prev \in D : round(i, prev) \in D
  OBVIOUS
<1>4. F \in Rounds(n, D)
  BY <1>3 DEF Rounds
<1>5. PICK f : IsLoop(f, n, D, <<>>, F)
  <2> HIDE DEF F, n, D
  <2> QED
    BY <1>2, <1>4, LoopExists, Zenon
<1>6. /\ f \in [0 .. n -> D] /\ f[0] = <<>>
      /\ \A i \in 1 .. n : f[i] = round(i, f[i - 1])
  <2>1. \A i \in 1 .. n : i - 1 \in 0 .. n /\ f[i - 1] \in D
    BY <1>2, <1>5 DEF IsLoop
  <2>2. \A i \in 1 .. n : F[i][f[i - 1]] = round(i, f[i - 1])
    BY <2>1
  <2> HIDE DEF F, round
  <2> QED
    BY <1>5, <2>2 DEF IsLoop
<1>7. f = body(f)
  <2>1. \A i \in 0 .. n : i # 0 => i \in 1 .. n
    BY <1>2
  <2> QED
    BY <1>6, <2>1
<1>8. kept = body(kept)
  BY <1>7
<1> HIDE DEF kept
<1>9. kept[0] = <<>> /\ \A i \in 1 .. n : kept[i] = round(i, kept[i - 1])
  <2>1. \A i \in 1 .. n : i \in 0 .. n /\ i # 0
    BY <1>2
  <2>2. \A i \in 0 .. n : kept[i] = IF i = 0 THEN <<>> ELSE round(i, kept[i - 1])
    BY <1>8
  <2> HIDE DEF round
  <2> QED
    BY <1>2, <2>1, <2>2
<1>10. kept = [i \in 0 .. n |-> kept[i]]
  BY <1>8
<1> HIDE DEF n
<1>11. \A i \in 0 .. n : kept[i] \in D
  <2> DEFINE bad == {i \in 0 .. n : kept[i] \notin D}
  <2> SUFFICES ASSUME bad # {} PROVE FALSE
    OBVIOUS
  <2>1. bad \in SUBSET Nat
    BY <1>2
  <2>2. PICK i \in bad : \A m \in bad : i <= m
    BY <2>1, LeastMember
  <2>3. i # 0
    BY <1>2, <1>9
  <2>4. i - 1 \in 0 .. n /\ i \in 1 .. n /\ ~ (i <= i - 1)
    BY <1>2, <2>3
  <2>5. kept[i - 1] \in D
    BY <2>2, <2>4
  <2> QED
    BY <1>3, <1>9, <2>4, <2>5
<1> USE DEF n
<1> QED
  BY <1>1, <1>9, <1>10, <1>11 DEF AreRounds

(* What Kept returns: the chosen positions of s, each once and in order.   *)
ArePositions(at, s, good) ==
  LET kept == DOMAIN Kept(s, good)
  IN  /\ at \in [kept -> good]
      /\ \A j \in kept : Kept(s, good)[j] = s[at[j]]
      /\ \A j, k \in kept : j < k => at[j] < at[k]
      /\ \A i \in good : \E j \in kept : at[j] = i

LEMMA KeptPositions ==
  ASSUME NEW S, NEW s \in Seq(S), NEW good \in SUBSET DOMAIN s
  PROVE  Kept(s, good) \in Seq(S) /\ \E at : ArePositions(at, s, good)
<1>0. PICK kept : AreRounds(kept, S, s, good)
  BY KeptRounds, Zenon
<1>1. /\ kept \in [0 .. Len(s) -> Seq(S)]
      /\ kept[0] = <<>> /\ Kept(s, good) = kept[Len(s)]
      /\ \A i \in 1 .. Len(s) :
           kept[i] = IF i \in good THEN Append(kept[i - 1], s[i]) ELSE kept[i - 1]
  BY <1>0 DEF AreRounds
<1> DEFINE n == Len(s)
           At(i, at) ==
             /\ at \in [1 .. Len(kept[i]) -> good]
             /\ \A j \in 1 .. Len(kept[i]) : kept[i][j] = s[at[j]] /\ at[j] <= i
             /\ \A j, k \in 1 .. Len(kept[i]) : j < k => at[j] < at[k]
             /\ \A m \in good : m <= i => \E j \in 1 .. Len(kept[i]) : at[j] = m
           bad == {i \in 0 .. n : ~ \E at : At(i, at)}
<1>2. n \in Nat /\ DOMAIN s = 1 .. n /\ good \in SUBSET (1 .. n)
  OBVIOUS
<1>3. \A i \in 0 .. n : kept[i] \in Seq(S) /\ Len(kept[i]) \in Nat
  BY <1>1
<1>4. bad = {}
  <2> SUFFICES ASSUME bad # {} PROVE FALSE
    OBVIOUS
  <2>1. bad \in SUBSET Nat
    BY <1>2
  <2>2. PICK i \in bad : \A m \in bad : i <= m
    <3> HIDE DEF bad
    <3> QED
      BY <2>1, LeastMember
  <2>0. ~ \E at : At(i, at)
    BY <2>2
  <2> HIDE DEF bad
  <2>3. i # 0
    <3>1. Len(kept[0]) = 0
      BY <1>1
    <3>2. At(0, [j \in 1 .. 0 |-> 0])
      BY <1>2, <3>1
    <3> HIDE DEF At
    <3> QED
      BY <2>0, <3>2
  <2>4. i - 1 \in 0 .. n /\ i \in 1 .. n /\ ~ (i <= i - 1) /\ i \in Nat
    BY <1>2, <2>2, <2>3 DEF bad
  <2>5. PICK at : At(i - 1, at)
    <3> HIDE DEF At
    <3> QED
      BY <2>2, <2>4 DEF bad
  <2>6. CASE i \in good
    <3> DEFINE len == Len(kept[i - 1])
               longer == [j \in 1 .. len + 1 |-> IF j = len + 1 THEN i ELSE at[j]]
    <3>1. kept[i] = Append(kept[i - 1], s[i])
      BY <1>1, <2>4, <2>6
    <3>2. /\ len \in Nat /\ Len(kept[i]) = len + 1 /\ kept[i][len + 1] = s[i]
          /\ \A j \in 1 .. len : kept[i][j] = kept[i - 1][j]
      BY <1>3, <2>4, <3>1
    <3>3. \A j \in 1 .. len : at[j] \in good /\ at[j] <= i - 1 /\ at[j] \in Nat /\ at[j] < i
      <4>1. \A j \in 1 .. len : at[j] \in good /\ at[j] <= i - 1
        BY <2>5
      <4>2. \A m \in good : m \in Nat
        BY <1>2
      <4> HIDE DEF len
      <4> QED
        BY <2>4, <4>1, <4>2
    <3>4. /\ \A j \in 1 .. len + 1 : j # len + 1 => j \in 1 .. len
          /\ len + 1 \in 1 .. len + 1 /\ \A j \in 1 .. len : j \in 1 .. len + 1 /\ j # len + 1
          /\ \A m \in good : m <= i => m = i \/ m <= i - 1
          /\ \A j, k \in 1 .. len + 1 : j < k => j \in 1 .. len
      BY <1>2, <2>4, <3>2
    <3>5. longer \in [1 .. len + 1 -> good]
      BY <2>6, <3>3, <3>4
    <3> HIDE DEF len
    <3>6. \A j \in 1 .. len + 1 : kept[i][j] = s[longer[j]] /\ longer[j] <= i
      BY <2>4, <2>5, <3>2, <3>3, <3>4 DEF len
    <3>7. \A j, k \in 1 .. len + 1 : j < k => longer[j] < longer[k]
      BY <2>5, <3>3, <3>4 DEF len
    <3>8. \A m \in good : m <= i => \E j \in 1 .. len + 1 : longer[j] = m
      BY <2>5, <3>4 DEF len
    <3> HIDE DEF longer
    <3>9. At(i, longer)
      BY <3>2, <3>5, <3>6, <3>7, <3>8
    <3> QED
      BY <2>0, <3>9
  <2>7. CASE i \notin good
    <3>1. kept[i] = kept[i - 1]
      BY <1>1, <2>4, <2>7
    <3>2. \A m \in good : m <= i => m <= i - 1
      BY <1>2, <2>4, <2>7
    <3>3. \A j \in 1 .. Len(kept[i - 1]) : at[j] <= i - 1 /\ at[j] \in good
      BY <2>5
    <3>4. \A m \in good : m \in Nat /\ (m <= i - 1 => m <= i)
      BY <1>2, <2>4
    <3>5. \A j \in 1 .. Len(kept[i]) : kept[i][j] = s[at[j]] /\ at[j] <= i
      BY <2>5, <3>1, <3>3, <3>4
    <3>6. At(i, at)
      BY <2>5, <3>1, <3>2, <3>5
    <3> QED
      BY <2>0, <3>6
  <2> QED
    BY <2>6, <2>7
<1>5. n \in 0 .. n /\ \A m \in good : m <= n
  BY <1>2
<1>6. PICK at : At(n, at)
  <2> HIDE DEF At
  <2> QED
    BY <1>4, <1>5
<1>7. DOMAIN Kept(s, good) = 1 .. Len(kept[n]) /\ Kept(s, good) \in Seq(S)
  BY <1>1, <1>3, <1>5
<1>8. /\ at \in [1 .. Len(kept[n]) -> good]
      /\ \A j \in 1 .. Len(kept[n]) : Kept(s, good)[j] = s[at[j]]
      /\ \A j, k \in 1 .. Len(kept[n]) : j < k => at[j] < at[k]
      /\ \A i \in good : \E j \in 1 .. Len(kept[n]) : at[j] = i
  BY <1>1, <1>5, <1>6
<1> HIDE DEF n
<1>9. DOMAIN Kept(s, good) = 1 .. Len(kept[n])
  BY <1>7
<1>10. ArePositions(at, s, good)
  BY <1>8, <1>9, Zenon DEF ArePositions
<1> QED
  BY <1>7, <1>10

(* What is read back from a buffer: an interval of stamps, all of them and *)
(* in their order.                                                         *)
LEMMA KeptOfSorted ==
  ASSUME NEW s \in Seq(Nat), NEW good \in SUBSET DOMAIN s, Sorted(s)
  PROVE  /\ Kept(s, good) \in Seq(Nat) /\ Sorted(Kept(s, good))
         /\ \A j \in DOMAIN Kept(s, good) : \E i \in good : Kept(s, good)[j] = s[i]
         /\ \A i \in good : \E j \in DOMAIN Kept(s, good) : Kept(s, good)[j] = s[i]
<1> DEFINE kept == Kept(s, good)
<1>1. kept \in Seq(Nat) /\ \E at : ArePositions(at, s, good)
  BY KeptPositions
<1>2. PICK at : ArePositions(at, s, good)
  BY <1>1
<1>3. /\ at \in [DOMAIN kept -> good]
      /\ \A j \in DOMAIN kept : kept[j] = s[at[j]]
      /\ \A j, k \in DOMAIN kept : j < k => at[j] < at[k]
      /\ \A i \in good : \E j \in DOMAIN kept : at[j] = i
  BY <1>2, Zenon DEF ArePositions
<1> HIDE DEF kept
<1>4. Sorted(kept)
  BY <1>3 DEF Sorted
<1>5. /\ \A j \in DOMAIN kept : \E i \in good : kept[j] = s[i]
      /\ \A i \in good : \E j \in DOMAIN kept : kept[j] = s[i]
  BY <1>3
<1> USE DEF kept
<1> QED
  BY <1>1, <1>4, <1>5

LEMMA WithinProperties ==
  ASSUME NEW buffer \in Seq(Nat), Sorted(buffer), NEW from \in Int, NEW to \in Int
  PROVE  /\ Within(buffer, from, to) \in Seq(Nat) /\ Sorted(Within(buffer, from, to))
         /\ \A j \in DOMAIN Within(buffer, from, to) :
              from < Within(buffer, from, to)[j] /\ Within(buffer, from, to)[j] <= to
         /\ \A i \in DOMAIN buffer : from < buffer[i] /\ buffer[i] <= to =>
              \E j \in DOMAIN Within(buffer, from, to) : Within(buffer, from, to)[j] = buffer[i]
<1> DEFINE good == {i \in DOMAIN buffer : from < buffer[i] /\ buffer[i] <= to}
<1>1. good \in SUBSET DOMAIN buffer /\ \A i \in good : from < buffer[i] /\ buffer[i] <= to
  OBVIOUS
<1>2. \A i \in DOMAIN buffer : from < buffer[i] /\ buffer[i] <= to => i \in good
  OBVIOUS
<1>3. Within(buffer, from, to) = Kept(buffer, good)
  BY DEF Within
<1> HIDE DEF good
<1> QED
  BY <1>1, <1>2, <1>3, KeptOfSorted

LEMMA AfterProperties ==
  ASSUME NEW buffer \in Seq(Nat), Sorted(buffer), NEW to \in Int
  PROVE  /\ After(buffer, to) \in Seq(Nat) /\ Sorted(After(buffer, to))
         /\ \A j \in DOMAIN After(buffer, to) :
              \E i \in DOMAIN buffer : After(buffer, to)[j] = buffer[i]
<1> DEFINE good == {i \in DOMAIN buffer : buffer[i] > to}
<1>1. good \in SUBSET DOMAIN buffer /\ \A i \in good : i \in DOMAIN buffer
  OBVIOUS
<1>2. After(buffer, to) = Kept(buffer, good)
  BY DEF After
<1> HIDE DEF good
<1> QED
  BY <1>1, <1>2, KeptOfSorted

(* The RTK loop ends with the newest fix of the interval.                  *)
LEMMA NewestRtkIsNewest ==
  ASSUME NEW buffer \in Seq(Nat), Sorted(buffer), NEW from \in Int, NEW to \in Int
  PROVE  /\ NewestRtk(buffer, from, to) \in Nat
         /\ \A i \in DOMAIN buffer :
              from < buffer[i] /\ buffer[i] <= to => buffer[i] <= NewestRtk(buffer, from, to)
<1> DEFINE inside == Within(buffer, from, to)
<1>1. /\ inside \in Seq(Nat) /\ Sorted(inside)
      /\ \A i \in DOMAIN buffer : from < buffer[i] /\ buffer[i] <= to =>
           \E j \in DOMAIN inside : inside[j] = buffer[i]
  BY WithinProperties
<1>2. NewestRtk(buffer, from, to) = IF inside = <<>> THEN 0 ELSE LastOf(inside)
  BY DEF NewestRtk
<1> HIDE DEF inside
<1>3. CASE inside = <<>>
  BY <1>1, <1>2, <1>3
<1>4. CASE inside # <<>>
  <2>1. Len(inside) \in DOMAIN inside /\ DOMAIN inside = 1 .. Len(inside)
    BY <1>1, <1>4
  <2>2. \A j \in DOMAIN inside : inside[j] \in Nat /\ inside[j] <= inside[Len(inside)]
    <3> TAKE j \in DOMAIN inside
    <3>1. inside[j] \in Nat /\ inside[Len(inside)] \in Nat
      BY <1>1, <2>1
    <3>2. j = Len(inside) \/ j < Len(inside)
      BY <1>1, <2>1
    <3>3. j < Len(inside) => inside[j] <= inside[Len(inside)]
      BY <1>1, <2>1 DEF Sorted
    <3> QED
      BY <3>1, <3>2, <3>3
  <2> QED
    BY <1>1, <1>2, <1>4, <2>1, <2>2 DEF LastOf
<1> QED
  BY <1>3, <1>4

(* The partial results of Concat.                                          *)
ArePartial(flat, S, seqs) ==
  /\ flat \in [0 .. Len(seqs) -> Seq(S)]
  /\ flat[0] = <<>> /\ Concat(seqs) = flat[Len(seqs)]
  /\ \A i \in 1 .. Len(seqs) : flat[i] = flat[i - 1] \o seqs[i]

LEMMA ConcatRounds ==
  ASSUME NEW S, NEW seqs \in Seq(Seq(S))
  PROVE  \E flat : ArePartial(flat, S, seqs)
<1> DEFINE n == Len(seqs)
           D == Seq(S)
           round(i, prev) == prev \o seqs[i]
           body(flat) == [i \in 0 .. Len(seqs) |->
                            IF i = 0 THEN <<>> ELSE flat[i - 1] \o seqs[i]]
           flat == CHOOSE flat : flat = body(flat)
           F == [i \in 1 .. n |-> [prev \in D |-> round(i, prev)]]
<1>1. Concat(seqs) = flat[Len(seqs)]
  BY DEF Concat
<1>2. n \in Nat /\ <<>> \in D
  OBVIOUS
<1>3. \A i \in 1 .. n, prev \in D : round(i, prev) \in D
  OBVIOUS
<1>4. F \in Rounds(n, D)
  BY <1>3 DEF Rounds
<1>5. PICK f : IsLoop(f, n, D, <<>>, F)
  <2> HIDE DEF F, n, D
  <2> QED
    BY <1>2, <1>4, LoopExists, Zenon
<1>6. /\ f \in [0 .. n -> D] /\ f[0] = <<>>
      /\ \A i \in 1 .. n : f[i] = round(i, f[i - 1])
  <2>0. f \in [0 .. n -> D] /\ \A i \in 1 .. n : i - 1 \in 0 .. n
    BY <1>2, <1>5 DEF IsLoop
  <2>1. \A i \in 1 .. n : i - 1 \in 0 .. n /\ f[i - 1] \in D
    <3> HIDE DEF D, n
    <3> QED
      BY <2>0
  <2>2. \A i \in 1 .. n : F[i][f[i - 1]] = round(i, f[i - 1])
    BY <2>1
  <2> HIDE DEF F, round
  <2> QED
    BY <1>5, <2>2 DEF IsLoop
<1>7. f = body(f)
  <2>1. \A i \in 0 .. n : i # 0 => i \in 1 .. n
    BY <1>2
  <2> QED
    BY <1>6, <2>1
<1>8. flat = body(flat)
  BY <1>7
<1> HIDE DEF flat
<1>9. flat[0] = <<>> /\ \A i \in 1 .. n : flat[i] = round(i, flat[i - 1])
  <2>1. \A i \in 1 .. n : i \in 0 .. n /\ i # 0
    BY <1>2
  <2>2. \A i \in 0 .. n : flat[i] = IF i = 0 THEN <<>> ELSE round(i, flat[i - 1])
    BY <1>8
  <2> HIDE DEF round
  <2> QED
    BY <1>2, <2>1, <2>2
<1>10. flat = [i \in 0 .. n |-> flat[i]]
  BY <1>8
<1> HIDE DEF n
<1>11. \A i \in 0 .. n : flat[i] \in D
  <2> DEFINE bad == {i \in 0 .. n : flat[i] \notin D}
  <2> SUFFICES ASSUME bad # {} PROVE FALSE
    OBVIOUS
  <2>1. bad \in SUBSET Nat
    BY <1>2
  <2>2. PICK i \in bad : \A m \in bad : i <= m
    BY <2>1, LeastMember
  <2>3. i # 0
    BY <1>2, <1>9
  <2>4. i - 1 \in 0 .. n /\ i \in 1 .. n /\ ~ (i <= i - 1)
    BY <1>2, <2>3
  <2>5. flat[i - 1] \in D
    BY <2>2, <2>4
  <2> QED
    BY <1>3, <1>9, <2>4, <2>5
<1> USE DEF n
<1> QED
  BY <1>1, <1>9, <1>10, <1>11 DEF ArePartial

(* The elements of a sequence put together from two.                       *)
IsJoin(c, a, b) ==
  /\ \A j \in DOMAIN c : \/ j \in DOMAIN a /\ c[j] = a[j]
                         \/ j - Len(a) \in DOMAIN b /\ c[j] = b[j - Len(a)]
  /\ \A j \in DOMAIN a : j \in DOMAIN c /\ c[j] = a[j]
  /\ \A j \in DOMAIN b : Len(a) + j \in DOMAIN c /\ c[Len(a) + j] = b[j]

LEMMA JoinedElements ==
  ASSUME NEW S, NEW a \in Seq(S), NEW b \in Seq(S)
  PROVE  a \o b \in Seq(S) /\ Len(a \o b) = Len(a) + Len(b) /\ IsJoin(a \o b, a, b)
<1>1. a \o b \in Seq(S) /\ Len(a \o b) = Len(a) + Len(b) /\ Len(a) \in Nat /\ Len(b) \in Nat
  OBVIOUS
<1>2. /\ DOMAIN (a \o b) = 1 .. Len(a) + Len(b)
      /\ DOMAIN a = 1 .. Len(a) /\ DOMAIN b = 1 .. Len(b)
  OBVIOUS
<1>3. \A j \in 1 .. Len(a) + Len(b) :
        (a \o b)[j] = IF j <= Len(a) THEN a[j] ELSE b[j - Len(a)]
  OBVIOUS
<1>4. /\ \A j \in 1 .. Len(a) + Len(b) : \/ j <= Len(a) /\ j \in 1 .. Len(a)
                                         \/ ~ (j <= Len(a)) /\ j - Len(a) \in 1 .. Len(b)
      /\ \A j \in 1 .. Len(a) : j \in 1 .. Len(a) + Len(b) /\ j <= Len(a)
      /\ \A j \in 1 .. Len(b) : Len(a) + j \in 1 .. Len(a) + Len(b)
      /\ \A j \in 1 .. Len(b) : ~ (Len(a) + j <= Len(a)) /\ Len(a) + j - Len(a) = j
  BY <1>1
<1>5. \A j \in DOMAIN (a \o b) : \/ j \in DOMAIN a /\ (a \o b)[j] = a[j]
                                 \/ j - Len(a) \in DOMAIN b /\ (a \o b)[j] = b[j - Len(a)]
  BY <1>2, <1>3, <1>4
<1>6. \A j \in DOMAIN a : j \in DOMAIN (a \o b) /\ (a \o b)[j] = a[j]
  BY <1>2, <1>3, <1>4
<1>7. \A j \in DOMAIN b : Len(a) + j \in DOMAIN (a \o b) /\ (a \o b)[Len(a) + j] = b[j]
  BY <1>2, <1>3, <1>4
<1>8. IsJoin(a \o b, a, b)
  BY <1>5, <1>6, <1>7, Zenon DEF IsJoin
<1> QED
  BY <1>1, <1>8

(* Concat keeps the elements of its parts and adds none.                   *)
OnlyOf(c, seqs, n) ==
  \A j \in DOMAIN c : \E i \in 1 .. n : \E m \in DOMAIN seqs[i] : c[j] = seqs[i][m]
AllOf(c, seqs, n) ==
  \A i \in 1 .. n : \A m \in DOMAIN seqs[i] : \E j \in DOMAIN c : c[j] = seqs[i][m]

LEMMA ConcatElements ==
  ASSUME NEW S, NEW seqs \in Seq(Seq(S))
  PROVE  /\ Concat(seqs) \in Seq(S)
         /\ OnlyOf(Concat(seqs), seqs, Len(seqs)) /\ AllOf(Concat(seqs), seqs, Len(seqs))
<1>1. PICK flat : ArePartial(flat, S, seqs)
  BY ConcatRounds
<1> DEFINE n == Len(seqs)
           Origin(k) == OnlyOf(flat[k], seqs, k)
           Image(k) == AllOf(flat[k], seqs, k)
           bad == {k \in 0 .. n : ~ (Origin(k) /\ Image(k))}
<1>2. /\ n \in Nat /\ DOMAIN seqs = 1 .. n
      /\ \A k \in 0 .. n : flat[k] \in Seq(S)
      /\ \A k \in 1 .. n : seqs[k] \in Seq(S) /\ flat[k] = flat[k - 1] \o seqs[k]
      /\ flat[0] = <<>> /\ Concat(seqs) = flat[n]
  <2>1. n \in Nat /\ DOMAIN seqs = 1 .. n
    OBVIOUS
  <2>2. \A k \in 1 .. n : seqs[k] \in Seq(S)
    OBVIOUS
  <2>3. flat \in [0 .. n -> Seq(S)]
    BY <1>1 DEF ArePartial
  <2>4. \A k \in 0 .. n : flat[k] \in Seq(S)
    <3> HIDE DEF n
    <3> QED
      BY <2>3
  <2>5. /\ \A k \in 1 .. n : flat[k] = flat[k - 1] \o seqs[k]
        /\ flat[0] = <<>> /\ Concat(seqs) = flat[n]
    BY <1>1 DEF ArePartial
  <2> QED
    BY <2>1, <2>2, <2>4, <2>5
<1>3. bad = {}
  <2> SUFFICES ASSUME bad # {} PROVE FALSE
    OBVIOUS
  <2>1. bad \in SUBSET Nat
    BY <1>2
  <2>2. PICK k \in bad : \A m \in bad : k <= m
    <3> HIDE DEF bad
    <3> QED
      BY <2>1, LeastMember
  <2>3. k # 0
    <3>1. Origin(0) /\ Image(0)
      BY <1>2 DEF OnlyOf, AllOf
    <3> HIDE DEF Origin, Image
    <3> QED
      BY <2>2, <3>1
  <2>4. k - 1 \in 0 .. n /\ k \in 1 .. n /\ ~ (k <= k - 1) /\ k \in Nat
    BY <1>2, <2>2, <2>3
  <2>5. Origin(k - 1) /\ Image(k - 1)
    <3> HIDE DEF Origin, Image
    <3> QED
      BY <2>2, <2>4
  <2> DEFINE a == flat[k - 1]
             b == seqs[k]
  <2>6. /\ a \in Seq(S) /\ b \in Seq(S) /\ flat[k] = a \o b
        /\ \A i \in 1 .. k : i = k \/ i \in 1 .. k - 1
        /\ \A i \in 1 .. k - 1 : i \in 1 .. k
        /\ k \in 1 .. k
    <3>1. a \in Seq(S) /\ b \in Seq(S) /\ flat[k] = a \o b
      BY <1>2, <2>4
    <3>2. /\ \A i \in 1 .. k : i = k \/ i \in 1 .. k - 1
          /\ \A i \in 1 .. k - 1 : i \in 1 .. k
          /\ k \in 1 .. k
      BY <2>4
    <3> QED
      BY <3>1, <3>2
  <2> HIDE DEF a, b, n
  <2> DEFINE c == flat[k]
  <2>7. IsJoin(c, a, b)
    <3>1. IsJoin(a \o b, a, b)
      BY <2>6, JoinedElements, Zenon
    <3> QED
      BY <2>6, <3>1
  <2> HIDE DEF c
  <2>8. Origin(k)
    <3>1. \A j \in DOMAIN c : \E i \in 1 .. k : \E m \in DOMAIN seqs[i] : c[j] = seqs[i][m]
      <4> TAKE j \in DOMAIN c
      <4>1. CASE j \in DOMAIN a /\ c[j] = a[j]
        <5>1. PICK i \in 1 .. k - 1 : \E m \in DOMAIN seqs[i] : a[j] = seqs[i][m]
          BY <2>5, <4>1 DEF a, OnlyOf
        <5> QED
          BY <2>6, <4>1, <5>1
      <4>2. CASE j - Len(a) \in DOMAIN b /\ c[j] = b[j - Len(a)]
        BY <2>6, <4>2 DEF b
      <4> QED
        BY <2>7, <4>1, <4>2 DEF IsJoin
    <3> QED
      BY <3>1 DEF OnlyOf, c
  <2>9. Image(k)
    <3>1. \A i \in 1 .. k : \A m \in DOMAIN seqs[i] : \E j \in DOMAIN c : c[j] = seqs[i][m]
      <4> TAKE i \in 1 .. k
      <4> TAKE m \in DOMAIN seqs[i]
      <4>1. CASE i = k
        BY <2>7, <4>1 DEF b, IsJoin
      <4>2. CASE i \in 1 .. k - 1
        <5>1. PICK j \in DOMAIN a : a[j] = seqs[i][m]
          BY <2>5, <4>2 DEF a, AllOf
        <5> QED
          BY <2>7, <5>1 DEF IsJoin
      <4> QED
        BY <2>6, <4>1, <4>2
    <3> QED
      BY <3>1 DEF AllOf, c
  <2> HIDE DEF Origin, Image
  <2> QED
    BY <2>2, <2>8, <2>9
<1>4. n \in 0 .. n
  BY <1>2
<1>5. Origin(n) /\ Image(n)
  <2> HIDE DEF Origin, Image
  <2> QED
    BY <1>3, <1>4
<1> QED
  BY <1>2, <1>4, <1>5

(* A loop that leaves a buffer at the first element that fails a test has  *)
(* gone through a prefix.                                                  *)
Prefix(n, good) == {i \in 1 .. n : \A j \in 1 .. i : j \in good}

LEMMA PrefixIsInterval ==
  ASSUME NEW n \in Nat, NEW good
  PROVE  /\ Cardinality(Prefix(n, good)) \in 0 .. n
         /\ \A i \in 1 .. Cardinality(Prefix(n, good)) : i \in good
         /\ Cardinality(Prefix(n, good)) < n => Cardinality(Prefix(n, good)) + 1 \notin good
<1> DEFINE T == Prefix(n, good)
           bad == {i \in 1 .. n : i \notin good}
<1>1. PICK k \in 0 .. n : T = 1 .. k /\ (k < n => k + 1 \notin good)
  <2>1. CASE bad = {}
    <3>1. T = 1 .. n
      BY <2>1 DEF Prefix
    <3> QED
      BY <3>1
  <2>2. CASE bad # {}
    <3>1. bad \in SUBSET Nat
      OBVIOUS
    <3>2. PICK m \in bad : \A l \in bad : m <= l
      BY <2>2, <3>1, LeastMember
    <3>3. \A i \in 1 .. n : (i < m => i \in good) /\ (i >= m => m \in 1 .. i)
      BY <3>2
    <3>4. m - 1 \in 0 .. n /\ m - 1 + 1 = m /\ m \notin good
      BY <3>2
    <3>5. \A i \in T : i \in 1 .. m - 1
      BY <3>2, <3>3 DEF Prefix
    <3>6. \A i \in 1 .. m - 1 : i \in 1 .. n /\ \A j \in 1 .. i : j \in 1 .. n /\ j < m
      BY <3>2
    <3>7. T = 1 .. m - 1
      BY <3>3, <3>5, <3>6 DEF Prefix
    <3> QED
      BY <3>4, <3>7
  <2> QED
    BY <2>1, <2>2
<1>2. Cardinality(1 .. k) = k
  <2>1. 1 \in Int /\ k \in Int /\ (IF 1 > k THEN 0 ELSE k - 1 + 1) = k
    OBVIOUS
  <2> QED
    BY <2>1, FS_Interval
<1>3. \A i \in 1 .. k : i \in 1 .. i
  OBVIOUS
<1>4. \A i \in T : \A j \in 1 .. i : j \in good
  BY DEF Prefix
<1> HIDE DEF T
<1>5. \A i \in 1 .. k : i \in good
  BY <1>1, <1>3, <1>4
<1> QED
  BY <1>1, <1>2, <1>5 DEF T

LEMMA Shifted ==
  ASSUME NEW points \in Seq(Point), NEW by \in Int
  PROVE  /\ Shift(points, by) \in Seq(Point) /\ Len(Shift(points, by)) = Len(points)
         /\ \A i \in DOMAIN points :
              /\ Shift(points, by)[i].time = points[i].time
              /\ Shift(points, by)[i].curvature = points[i].curvature + by
<1>0. \A i \in DOMAIN points : points[i] \in Point
  OBVIOUS
<1>1. \A i \in DOMAIN points : [points[i] EXCEPT !.curvature = @ + by]
                               = [time |-> points[i].time, curvature |-> points[i].curvature + by]
  BY <1>0 DEF Point
<1>2. \A i \in DOMAIN points :
        [time |-> points[i].time, curvature |-> points[i].curvature + by] \in Point
  BY <1>0 DEF Point
<1>3. Shift(points, by) = [i \in 1 .. Len(points) |->
        [time |-> points[i].time, curvature |-> points[i].curvature + by]]
  BY <1>1 DEF Shift
<1>4. Len(points) \in Nat /\ DOMAIN points = 1 .. Len(points)
  OBVIOUS
<1> QED
  BY <1>2, <1>3, <1>4

(* What sync_packages cuts is well typed.                                  *)
LEMMA CutTyped ==
  ASSUME TypeOK, BuffersFilled
  PROVE  /\ From \in Nat /\ Capture \in Nat /\ Len(lid_header) \in Nat \ {0}
         /\ Cardinality(ScansToCut) \in 0 .. Len(lid_raw)
         /\ \A i \in 1 .. Cardinality(ScansToCut) : lid_header[i] <= Capture
         /\ Cardinality(ScansToCut) < Len(lid_raw) =>
              ~ (lid_header[Cardinality(ScansToCut) + 1] <= Capture)
         /\ \A i \in DOMAIN lid_raw : Cut(i) \in [early : Seq(Point), late : Seq(Point)]
<1>1. /\ lid_raw \in Seq(Seq(Point)) /\ lid_header \in Seq(Nat) /\ img_time \in Seq(Nat)
      /\ Len(lid_raw) <= Len(lid_header) /\ lid_raw # <<>> /\ img_time # <<>>
      /\ last_lio \in Nat \cup {-1}
  BY DEF TypeOK, BuffersFilled
<1>2. Len(lid_raw) \in Nat \ {0} /\ Len(lid_header) \in Nat \ {0}
  BY <1>1, EmptySeq
<1>3. Head(lid_header) \in Nat /\ Head(img_time) \in Nat
  BY <1>1, <1>2
<1>4. From \in Nat /\ Capture \in Nat
  <2>1. ExposureTime \in Nat
    BY FrontEndAssumption
  <2>2. Head(img_time) + ExposureTime \in Nat
    BY <1>3, <2>1
  <2>3. last_lio < 0 \/ last_lio \in Nat
    BY <1>1
  <2> QED
    BY <1>3, <2>2, <2>3 DEF From, Capture
<1> DEFINE good == {j \in DOMAIN lid_header : lid_header[j] <= Capture}
<1>5. ScansToCut = Prefix(Len(lid_raw), good)
  <2>1. \A i \in 1 .. Len(lid_raw) : \A j \in 1 .. i : j \in DOMAIN lid_header
    BY <1>1, <1>2
  <2>2. DOMAIN lid_raw = 1 .. Len(lid_raw)
    BY <1>1
  <2> QED
    BY <2>1, <2>2 DEF ScansToCut, Prefix
<1>6. \A j \in good : lid_header[j] <= Capture
  OBVIOUS
<1>7. \A j \in 1 .. Len(lid_raw) : j \notin good => ~ (lid_header[j] <= Capture)
  BY <1>1, <1>2
<1> HIDE DEF good
<1>8. /\ Cardinality(ScansToCut) \in 0 .. Len(lid_raw)
      /\ \A i \in 1 .. Cardinality(ScansToCut) : i \in good
      /\ Cardinality(ScansToCut) < Len(lid_raw) => Cardinality(ScansToCut) + 1 \notin good
  BY <1>2, <1>5, PrefixIsInterval
<1>9. Cardinality(ScansToCut) < Len(lid_raw) => Cardinality(ScansToCut) + 1 \in 1 .. Len(lid_raw)
  BY <1>2, <1>8
<1>10. ASSUME NEW i \in DOMAIN lid_raw
       PROVE  Cut(i) \in [early : Seq(Point), late : Seq(Point)]
  <2> DEFINE scan == lid_raw[i]
             early == {j \in DOMAIN scan : scan[j].curvature < Capture - lid_header[i]}
  <2>1. lid_raw[i] \in Seq(Point) /\ lid_header[i] \in Nat
    BY <1>1, <1>2
  <2>2. Kept(scan, early) \in Seq(Point) /\ Kept(scan, DOMAIN scan \ early) \in Seq(Point)
    <3>1. early \in SUBSET DOMAIN scan /\ DOMAIN scan \ early \in SUBSET DOMAIN scan
      OBVIOUS
    <3> HIDE DEF early
    <3> QED
      BY <2>1, <3>1, KeptPositions
  <2>3. lid_header[i] - From \in Int /\ lid_header[i] - Capture \in Int
    BY <1>4, <2>1
  <2>4. /\ Shift(Kept(scan, early), lid_header[i] - From) \in Seq(Point)
        /\ Shift(Kept(scan, DOMAIN scan \ early), lid_header[i] - Capture) \in Seq(Point)
    <3> HIDE DEF early, scan
    <3> QED
      BY <2>2, <2>3, Shifted
  <2> QED
    BY <2>4 DEF Cut
<1> QED
  BY <1>2, <1>4, <1>6, <1>7, <1>8, <1>9, <1>10

CutCount == Cardinality(ScansToCut)
Earlies == [i \in 1 .. CutCount |-> Cut(i).early]
Lates == [i \in 1 .. CutCount |-> Cut(i).late]

LEMMA SyncLioResult ==
  ASSUME TypeOK, SyncLio
  PROVE  /\ CutCount \in 0 .. Len(lid_raw)
         /\ Earlies \in Seq(Seq(Point)) /\ Lates \in Seq(Seq(Point))
         /\ Len(Earlies) = CutCount /\ Len(Lates) = CutCount
         /\ pcl_cur' = pcl_next \o Concat(Earlies) /\ pcl_next' = Concat(Lates)
         /\ lid_raw' = DropFront(lid_raw, CutCount)
         /\ lid_header' = DropFront(lid_header, CutCount)
<1> DEFINE cuts == [i \in 1 .. CutCount |-> Cut(i)]
<1>1. BuffersFilled
  BY DEF SyncLio
<1>2. /\ CutCount \in 0 .. Len(lid_raw)
      /\ \A i \in DOMAIN lid_raw : Cut(i) \in [early : Seq(Point), late : Seq(Point)]
  BY <1>1, CutTyped DEF CutCount
<1>3. lid_raw \in Seq(Seq(Point)) /\ Len(lid_raw) \in Nat /\ DOMAIN lid_raw = 1 .. Len(lid_raw)
  BY DEF TypeOK
<1>4. \A i \in 1 .. CutCount : Cut(i) \in [early : Seq(Point), late : Seq(Point)]
  <2>1. \A i \in 1 .. CutCount : i \in 1 .. Len(lid_raw)
    BY <1>2, <1>3
  <2> QED
    BY <1>2, <1>3, <2>1, Zenon
<1>5. CutCount \in Nat
  BY <1>2, <1>3
<1>6. Earlies \in Seq(Seq(Point)) /\ Lates \in Seq(Seq(Point))
      /\ Len(Earlies) = CutCount /\ Len(Lates) = CutCount
  BY <1>4, <1>5 DEF Earlies, Lates
<1>7. /\ pcl_cur' = pcl_next \o Concat([i \in 1 .. CutCount |-> cuts[i].early])
      /\ pcl_next' = Concat([i \in 1 .. CutCount |-> cuts[i].late])
      /\ lid_raw' = SubSeq(lid_raw, CutCount + 1, Len(lid_raw))
      /\ lid_header' = SubSeq(lid_header, CutCount + 1, Len(lid_header))
  BY DEF SyncLio, CutCount
<1>8. /\ [i \in 1 .. CutCount |-> cuts[i].early] = Earlies
      /\ [i \in 1 .. CutCount |-> cuts[i].late] = Lates
  BY DEF Earlies, Lates
<1> HIDE DEF cuts
<1> QED
  BY <1>2, <1>6, <1>7, <1>8 DEF DropFront

(***************************************************************************)
(* Types                                                                   *)
(***************************************************************************)
LEMMA InitTyped == Init => TypeOK /\ BuffersSorted
<1> SUFFICES ASSUME Init PROVE TypeOK /\ BuffersSorted
  OBVIOUS
<1>1. /\ lid_raw \in Seq(Seq(Point)) /\ lid_header \in Seq(Nat) /\ Len(lid_raw) <= Len(lid_header)
      /\ img_time \in Seq(Nat) /\ imu_buffer \in Seq(Nat) /\ rtk_buffer \in Seq(Nat)
      /\ pcl_cur \in Seq(Point) /\ pcl_next \in Seq(Point)
      /\ processed \in Seq(Nat) /\ dropped \in Seq(Nat)
  BY DEF Init
<1>2. meas \in [time : Nat, imu : Seq(Nat), rtk : Nat]
  BY DEF Init, NoMeasure
<1>3. published \in [stamp : Nat, cloud : Nat, previous : Nat]
  BY DEF Init
<1>4. TypeOK
  <2>1. /\ last_lidar \in Int /\ last_img \in Int /\ last_imu_stamp \in Int /\ last_rtk \in Int
        /\ rewinds \in Nat /\ last_lio \in Nat \cup {-1} /\ keyframe_time \in Nat
        /\ init_iter_num \in Nat /\ last_imu \in Nat /\ last_prop_end \in Nat /\ cloud \in Nat
        /\ delivered \in SUBSET Nat
    BY DEF Init
  <2>2. /\ rtk_ini \in BOOLEAN /\ imu_need_init \in BOOLEAN
        /\ step \in {"spin", "process"} /\ lio_vio_flg \in {"WAIT", "LIO", "VIO"}
    BY DEF Init
  <2> QED
    BY <1>1, <1>2, <1>3, <2>1, <2>2 DEF TypeOK
<1>5. BuffersSorted
  BY DEF Init, BuffersSorted, Sorted
<1> QED
  BY <1>4, <1>5

(* Appending a stamp that is not earlier keeps a buffer in order.          *)
LEMMA AppendSorted ==
  ASSUME NEW q \in Seq(Nat), NEW x \in Nat, NEW last \in Int, x >= last, Sorted(q),
         \A i \in DOMAIN q : q[i] <= last
  PROVE  /\ Append(q, x) \in Seq(Nat) /\ Sorted(Append(q, x))
         /\ \A i \in DOMAIN Append(q, x) : Append(q, x)[i] <= x
<1> DEFINE r == Append(q, x)
<1>1. /\ r \in Seq(Nat) /\ Len(r) = Len(q) + 1 /\ DOMAIN r = 1 .. Len(q) + 1
      /\ r[Len(q) + 1] = x /\ \A i \in 1 .. Len(q) : r[i] = q[i]
      /\ Len(q) \in Nat /\ DOMAIN q = 1 .. Len(q)
  OBVIOUS
<1> HIDE DEF r
<1>2. \A i \in 1 .. Len(q) + 1 : i = Len(q) + 1 \/ i \in 1 .. Len(q)
  BY <1>1
<1>3. \A i \in 1 .. Len(q) : q[i] \in Nat /\ q[i] <= x
  <2> TAKE i \in 1 .. Len(q)
  <2>1. q[i] \in Nat
    OBVIOUS
  <2>2. q[i] <= last
    OBVIOUS
  <2> QED
    BY <2>1, <2>2
<1>4. \A i \in DOMAIN r : r[i] <= x
  BY <1>1, <1>2, <1>3
<1>5. Sorted(r)
  <2> SUFFICES ASSUME NEW i \in DOMAIN r, NEW j \in DOMAIN r, i < j PROVE r[i] <= r[j]
    BY DEF Sorted
  <2>1. i \in 1 .. Len(q)
    BY <1>1
  <2>2. CASE j = Len(q) + 1
    BY <1>1, <1>3, <2>1, <2>2
  <2>3. CASE j \in 1 .. Len(q)
    BY <1>1, <2>1, <2>3 DEF Sorted
  <2> QED
    BY <1>1, <1>2, <2>2, <2>3
<1> QED
  BY <1>1, <1>4, <1>5 DEF r

LEMMA ScanTyped ==
  ASSUME NEW head \in Nat
  PROVE  /\ ScanAt(head) \in Seq(Point) /\ Len(ScanAt(head)) = Len(Offsets)
         /\ DOMAIN ScanAt(head) = 1 .. Len(Offsets) /\ Len(Offsets) \in Nat \ {0}
         /\ \A i \in 1 .. Len(Offsets) :
              /\ Offsets[i] \in Nat /\ Offsets[i] <= Span
              /\ ScanAt(head)[i].time = head + Offsets[i]
              /\ ScanAt(head)[i].curvature = Offsets[i]
<1>1. /\ Offsets \in Seq(Nat) /\ Offsets # <<>>
      /\ \A i, j \in DOMAIN Offsets : i < j => Offsets[i] < Offsets[j]
  BY FrontEndAssumption
<1>2. /\ DOMAIN Offsets = 1 .. Len(Offsets) /\ Len(Offsets) \in Nat \ {0}
      /\ \A i \in 1 .. Len(Offsets) : Offsets[i] \in Nat
  BY <1>1, EmptySeq
<1>3. \A i \in 1 .. Len(Offsets) : [time |-> head + Offsets[i], curvature |-> Offsets[i]] \in Point
  BY <1>2 DEF Point
<1>4. ScanAt(head) = [i \in 1 .. Len(Offsets) |->
                        [time |-> head + Offsets[i], curvature |-> Offsets[i]]]
  BY <1>2 DEF ScanAt
<1>5. Len(ScanAt(head)) = Len(Offsets) /\ ScanAt(head) \in Seq(Point)
  BY <1>2, <1>3, <1>4
<1>6. \A i \in 1 .. Len(Offsets) : Offsets[i] <= Span
  <2> TAKE i \in 1 .. Len(Offsets)
  <2> DEFINE n == Len(Offsets)
  <2>1. n \in Nat /\ n # 0 /\ i \in 1 .. n
    BY <1>2
  <2> HIDE DEF n
  <2>2. n \in 1 .. n /\ (i = n \/ i < n)
    BY <2>1
  <2>3. Offsets[i] \in Nat /\ Offsets[n] \in Nat /\ i \in DOMAIN Offsets /\ n \in DOMAIN Offsets
    BY <1>2, <2>1, <2>2 DEF n
  <2>4. i < n => Offsets[i] < Offsets[n]
    BY <1>1, <2>3
  <2>5. Offsets[i] <= Offsets[n]
    BY <2>2, <2>3, <2>4
  <2> QED
    BY <2>5 DEF Span, LastOf, n
<1> QED
  BY <1>2, <1>4, <1>5, <1>6

LEMMA LidarTyped == TypeOK /\ BuffersSorted /\ LidarCallback => TypeOK' /\ BuffersSorted'
<1> SUFFICES ASSUME TypeOK, BuffersSorted, LidarCallback PROVE TypeOK' /\ BuffersSorted'
  OBVIOUS
<1>1. PICK head \in ScanTimes, empty \in BOOLEAN :
        /\ rewinds' = IF head < last_lidar THEN rewinds + 1 ELSE rewinds
        /\ LET kept == IF head < last_lidar THEN <<>> ELSE lid_raw
           IN  IF empty
                 THEN /\ lid_raw' = kept
                      /\ UNCHANGED <<lid_header, last_lidar, delivered>>
                 ELSE /\ lid_raw' = Append(kept, ScanAt(head))
                      /\ lid_header' = Append(lid_header, head)
                      /\ last_lidar' = head
                      /\ delivered' = delivered \cup Range(Times(ScanAt(head)))
  BY DEF LidarCallback
<1>2. head \in Nat
  BY FrontEndAssumption
<1>3. ScanAt(head) \in Seq(Point)
  BY <1>2, ScanTyped
<1>4. Range(Times(ScanAt(head))) \in SUBSET Nat
  <2>1. \A i \in DOMAIN ScanAt(head) : ScanAt(head)[i] \in Point
    BY <1>3
  <2> QED
    BY <2>1 DEF Range, Times, Point
<1> DEFINE kept == IF head < last_lidar THEN <<>> ELSE lid_raw
<1>5. /\ kept \in Seq(Seq(Point)) /\ Len(kept) \in Nat /\ Len(kept) <= Len(lid_header)
      /\ lid_header \in Seq(Nat) /\ Len(lid_header) \in Nat
  BY DEF TypeOK
<1>6. /\ lid_raw' \in Seq(Seq(Point)) /\ lid_header' \in Seq(Nat)
      /\ Len(lid_raw') <= Len(lid_header')
      /\ last_lidar' \in Int /\ delivered' \in SUBSET Nat /\ rewinds' \in Nat
  <2>0. delivered \in SUBSET Nat /\ last_lidar \in Int /\ rewinds \in Nat
    BY DEF TypeOK
  <2>1. CASE empty
    <3>1. /\ lid_raw' = kept /\ lid_header' = lid_header
          /\ last_lidar' = last_lidar /\ delivered' = delivered
      BY <1>1, <2>1
    <3>2. rewinds' \in Nat
      BY <1>1, <2>0
    <3> HIDE DEF kept
    <3> QED
      BY <1>5, <2>0, <3>1, <3>2
  <2>2. CASE ~ empty
    <3>1. /\ lid_raw' = Append(kept, ScanAt(head)) /\ lid_header' = Append(lid_header, head)
          /\ last_lidar' = head /\ delivered' = delivered \cup Range(Times(ScanAt(head)))
      BY <1>1, <2>2
    <3>2. rewinds' \in Nat
      BY <1>1, <2>0
    <3> HIDE DEF kept
    <3>3. delivered' \in SUBSET Nat /\ last_lidar' \in Int
      <4>1. delivered' \in SUBSET Nat
        BY <1>4, <2>0, <3>1, Zenon
      <4> QED
        BY <1>2, <3>1, <4>1
    <3>4. /\ lid_raw' \in Seq(Seq(Point)) /\ Len(lid_raw') = Len(kept) + 1
          /\ lid_header' \in Seq(Nat) /\ Len(lid_header') = Len(lid_header) + 1
      BY <1>2, <1>3, <1>5, <3>1
    <3> QED
      BY <1>5, <3>2, <3>3, <3>4
  <2> QED
    BY <2>1, <2>2
<1>7. UNCHANGED <<img_time, last_img, imu_buffer, last_imu_stamp, rtk_buffer, last_rtk, rtk_ini,
                  syncVars, last_lio, imuVars, outVars>>
  BY DEF LidarCallback
<1> QED
  BY <1>6, <1>7 DEF TypeOK, BuffersSorted, syncVars, imuVars, outVars

LEMMA SyncLioTyped == TypeOK /\ BuffersSorted /\ SyncLio => TypeOK' /\ BuffersSorted'
<1> SUFFICES ASSUME TypeOK, BuffersSorted, SyncLio PROVE TypeOK' /\ BuffersSorted'
  OBVIOUS
<1>1. From \in Nat /\ Capture \in Nat /\ Len(lid_header) \in Nat
  BY CutTyped DEF SyncLio
<1>2. /\ imu_buffer \in Seq(Nat) /\ Sorted(imu_buffer)
      /\ rtk_buffer \in Seq(Nat) /\ Sorted(rtk_buffer)
      /\ \A i \in DOMAIN imu_buffer : imu_buffer[i] <= last_imu_stamp
      /\ \A i \in DOMAIN rtk_buffer : rtk_buffer[i] <= last_rtk
  BY DEF TypeOK, BuffersSorted
<1>3. /\ After(imu_buffer, Capture) \in Seq(Nat) /\ Sorted(After(imu_buffer, Capture))
      /\ \A j \in DOMAIN After(imu_buffer, Capture) :
           \E i \in DOMAIN imu_buffer : After(imu_buffer, Capture)[j] = imu_buffer[i]
      /\ After(rtk_buffer, Capture) \in Seq(Nat) /\ Sorted(After(rtk_buffer, Capture))
      /\ \A j \in DOMAIN After(rtk_buffer, Capture) :
           \E i \in DOMAIN rtk_buffer : After(rtk_buffer, Capture)[j] = rtk_buffer[i]
      /\ Within(imu_buffer, From, Capture) \in Seq(Nat)
  <2>1. Capture \in Int /\ From \in Int
    BY <1>1
  <2> QED
    BY <1>2, <2>1, AfterProperties, WithinProperties
<1>4. NewestRtk(rtk_buffer, From, Capture) \in Nat
  <2>1. Capture \in Int /\ From \in Int
    BY <1>1
  <2> QED
    BY <1>2, <2>1, NewestRtkIsNewest
<1>5. /\ keyframe_time' = Capture /\ last_lio' = From
      /\ meas' = [time |-> Capture, imu |-> Within(imu_buffer, From, Capture),
                  rtk |-> IF rtk_ini THEN NewestRtk(rtk_buffer, From, Capture) ELSE 0]
      /\ imu_buffer' = After(imu_buffer, Capture)
      /\ rtk_buffer' = IF rtk_ini THEN After(rtk_buffer, Capture) ELSE rtk_buffer
      /\ lio_vio_flg' = "LIO" /\ step' = "process"
      /\ UNCHANGED <<last_lidar, img_time, last_img, last_imu_stamp, last_rtk, rtk_ini, rewinds,
                     delivered, imuVars, outVars>>
  BY DEF SyncLio
<1>6. meas' \in [time : Nat, imu : Seq(Nat), rtk : Nat]
  <2> DEFINE r == IF rtk_ini THEN NewestRtk(rtk_buffer, From, Capture) ELSE 0
             w == Within(imu_buffer, From, Capture)
  <2>1. r \in Nat /\ w \in Seq(Nat)
    BY <1>3, <1>4
  <2>2. meas' = [time |-> Capture, imu |-> w, rtk |-> r]
    BY <1>5
  <2> HIDE DEF r, w
  <2> QED
    BY <1>1, <2>1, <2>2
<1>7. pcl_cur' \in Seq(Point) /\ pcl_next' \in Seq(Point)
  <2>1. /\ Earlies \in Seq(Seq(Point)) /\ Lates \in Seq(Seq(Point))
        /\ pcl_cur' = pcl_next \o Concat(Earlies) /\ pcl_next' = Concat(Lates)
    BY SyncLioResult
  <2>2. Concat(Earlies) \in Seq(Point) /\ Concat(Lates) \in Seq(Point)
    BY <2>1, ConcatElements
  <2>3. pcl_next \in Seq(Point)
    BY DEF TypeOK
  <2> QED
    BY <2>1, <2>2, <2>3
<1>8. lid_raw' \in Seq(Seq(Point)) /\ lid_header' \in Seq(Nat) /\ Len(lid_raw') <= Len(lid_header')
  <2>1. /\ CutCount \in 0 .. Len(lid_raw)
        /\ lid_raw' = DropFront(lid_raw, CutCount) /\ lid_header' = DropFront(lid_header, CutCount)
    BY SyncLioResult
  <2>2. /\ lid_raw \in Seq(Seq(Point)) /\ lid_header \in Seq(Nat)
        /\ Len(lid_raw) <= Len(lid_header) /\ Len(lid_raw) \in Nat
    BY DEF TypeOK
  <2>3. CutCount \in 0 .. Len(lid_header)
    BY <1>1, <2>1, <2>2
  <2>4. lid_raw' \in Seq(Seq(Point)) /\ Len(lid_raw') = Len(lid_raw) - CutCount
    BY <2>1, <2>2, DropFrontProperties
  <2>5. lid_header' \in Seq(Nat) /\ Len(lid_header') = Len(lid_header) - CutCount
    BY <2>1, <2>2, <2>3, DropFrontProperties
  <2> QED
    BY <1>1, <2>1, <2>2, <2>4, <2>5
<1>9. imu_buffer' \in Seq(Nat) /\ rtk_buffer' \in Seq(Nat) /\ last_lio' \in Nat \cup {-1}
      /\ keyframe_time' \in Nat
  BY <1>1, <1>2, <1>3, <1>5
<1>10. BuffersSorted'
  <2>1. \A j \in DOMAIN After(imu_buffer, Capture) : After(imu_buffer, Capture)[j] <= last_imu_stamp
    BY <1>2, <1>3
  <2>2. \A j \in DOMAIN After(rtk_buffer, Capture) : After(rtk_buffer, Capture)[j] <= last_rtk
    BY <1>2, <1>3
  <2>3. Sorted(imu_buffer') /\ \A i \in DOMAIN imu_buffer' : imu_buffer'[i] <= last_imu_stamp'
    BY <1>3, <1>5, <2>1
  <2>4. Sorted(rtk_buffer') /\ \A i \in DOMAIN rtk_buffer' : rtk_buffer'[i] <= last_rtk'
    <3>1. last_rtk' = last_rtk
      BY <1>5
    <3>2. CASE rtk_ini
      BY <1>3, <1>5, <2>2, <3>1, <3>2
    <3>3. CASE ~ rtk_ini
      BY <1>2, <1>5, <3>1, <3>3
    <3> QED
      BY <3>2, <3>3
  <2> QED
    BY <2>3, <2>4 DEF BuffersSorted
<1>11. TypeOK'
  BY <1>5, <1>6, <1>7, <1>8, <1>9 DEF TypeOK, imuVars, outVars
<1> QED
  BY <1>10, <1>11

LEMMA CallbacksTyped ==
  TypeOK /\ BuffersSorted /\ (ImageCallback \/ ImuCallback \/ RtkCallback) =>
    TypeOK' /\ BuffersSorted'
<1> SUFFICES ASSUME TypeOK, BuffersSorted, ImageCallback \/ ImuCallback \/ RtkCallback
             PROVE  TypeOK' /\ BuffersSorted'
  OBVIOUS
<1>0. /\ img_time \in Seq(Nat) /\ imu_buffer \in Seq(Nat) /\ rtk_buffer \in Seq(Nat)
      /\ last_imu_stamp \in Int /\ last_rtk \in Int /\ rtk_ini \in BOOLEAN
      /\ Sorted(imu_buffer) /\ \A i \in DOMAIN imu_buffer : imu_buffer[i] <= last_imu_stamp
      /\ Sorted(rtk_buffer) /\ \A i \in DOMAIN rtk_buffer : rtk_buffer[i] <= last_rtk
      /\ ImageTimes \subseteq Nat /\ ImuTimes \subseteq Nat /\ RtkTimes \subseteq Nat
  BY FrontEndAssumption DEF TypeOK, BuffersSorted
<1>1. CASE ImageCallback
  <2>1. PICK stamp \in ImageTimes : img_time' = Append(img_time, stamp) /\ last_img' = stamp
    BY <1>1 DEF ImageCallback
  <2>2. img_time' \in Seq(Nat) /\ last_img' \in Int
    BY <1>0, <2>1
  <2> QED
    BY <1>1, <2>2 DEF ImageCallback, TypeOK, BuffersSorted, syncVars, imuVars, outVars
<1>2. CASE ImuCallback
  <2>1. PICK stamp \in ImuTimes : /\ stamp > last_imu_stamp
                                  /\ imu_buffer' = Append(imu_buffer, stamp)
                                  /\ last_imu_stamp' = stamp
    BY <1>2 DEF ImuCallback
  <2>2. stamp \in Nat /\ stamp >= last_imu_stamp
    BY <1>0, <2>1
  <2>3. /\ imu_buffer' \in Seq(Nat) /\ Sorted(imu_buffer') /\ last_imu_stamp' \in Int
        /\ \A i \in DOMAIN imu_buffer' : imu_buffer'[i] <= last_imu_stamp'
    <3>1. /\ Append(imu_buffer, stamp) \in Seq(Nat) /\ Sorted(Append(imu_buffer, stamp))
          /\ \A i \in DOMAIN Append(imu_buffer, stamp) : Append(imu_buffer, stamp)[i] <= stamp
      BY <1>0, <2>2, AppendSorted
    <3> QED
      BY <2>1, <2>2, <3>1
  <2> QED
    BY <1>2, <2>3 DEF ImuCallback, TypeOK, BuffersSorted, syncVars, imuVars, outVars
<1>3. CASE RtkCallback
  <2>1. PICK stamp \in RtkTimes : /\ stamp > last_rtk
                                  /\ rtk_buffer' = Append(rtk_buffer, stamp)
                                  /\ last_rtk' = stamp
    BY <1>3 DEF RtkCallback
  <2>2. stamp \in Nat /\ stamp >= last_rtk
    BY <1>0, <2>1
  <2>3. /\ rtk_buffer' \in Seq(Nat) /\ Sorted(rtk_buffer') /\ last_rtk' \in Int
        /\ \A i \in DOMAIN rtk_buffer' : rtk_buffer'[i] <= last_rtk'
    BY <1>0, <2>1, <2>2, AppendSorted
  <2>4. rtk_ini' \in BOOLEAN
    BY <1>0, <1>3 DEF RtkCallback
  <2> QED
    BY <1>3, <2>3, <2>4 DEF RtkCallback, TypeOK, BuffersSorted, syncVars, imuVars, outVars
<1> QED
  BY <1>1, <1>2, <1>3

LEMMA PassesTyped ==
  TypeOK /\ BuffersSorted /\ (ThrowImage \/ WaitForData \/ SyncVio \/ ProcessVio) =>
    TypeOK' /\ BuffersSorted'
<1> SUFFICES ASSUME TypeOK, BuffersSorted, ThrowImage \/ WaitForData \/ SyncVio \/ ProcessVio
             PROVE  TypeOK' /\ BuffersSorted'
  OBVIOUS
<1>0. BuffersFilled => From \in Nat /\ Capture \in Nat /\ Tail(img_time) \in Seq(Nat)
  <2> SUFFICES ASSUME BuffersFilled PROVE From \in Nat /\ Capture \in Nat /\ Tail(img_time) \in Seq(Nat)
    OBVIOUS
  <2>1. From \in Nat /\ Capture \in Nat
    BY CutTyped
  <2>2. img_time \in Seq(Nat) /\ img_time # <<>>
    BY DEF TypeOK, BuffersFilled
  <2> QED
    BY <2>1, <2>2
<1>1. CASE ThrowImage
  <2>1. img_time' \in Seq(Nat) /\ keyframe_time' \in Nat /\ last_lio' \in Nat \cup {-1}
    BY <1>0, <1>1 DEF ThrowImage
  <2> QED
    BY <1>1, <2>1 DEF ThrowImage, TypeOK, BuffersSorted, imuVars, outVars
<1>2. CASE WaitForData
  <2>1. keyframe_time' \in Nat /\ last_lio' \in Nat \cup {-1}
    BY <1>0, <1>2 DEF WaitForData
  <2> QED
    BY <1>2, <2>1 DEF WaitForData, TypeOK, BuffersSorted, bufferVars, imuVars, outVars
<1>3. CASE SyncVio
  <2>1. img_time' \in Seq(Nat) /\ Capture \in Nat
    BY <1>0, <1>3 DEF SyncVio
  <2>2. meas' = [time |-> Capture, imu |-> <<>>, rtk |-> 0]
    BY <1>3 DEF SyncVio, NoMeasure
  <2>3. meas' \in [time : Nat, imu : Seq(Nat), rtk : Nat]
    BY <2>1, <2>2
  <2> QED
    BY <1>3, <2>1, <2>3 DEF SyncVio, TypeOK, BuffersSorted, imuVars, outVars
<1>4. CASE ProcessVio
  <2>1. meas.time \in Nat /\ cloud \in Nat /\ keyframe_time \in Nat
        /\ published \in [stamp : Nat, cloud : Nat, previous : Nat]
    BY DEF TypeOK
  <2>2. last_lio' \in Nat \cup {-1} /\ last_prop_end' \in Nat /\ cloud' \in Nat
    BY <1>4, <2>1 DEF ProcessVio
  <2>3. published' \in [stamp : Nat, cloud : Nat, previous : Nat]
    BY <1>4, <2>1 DEF ProcessVio
  <2> QED
    BY <1>4, <2>2, <2>3 DEF ProcessVio, TypeOK, BuffersSorted, bufferVars
<1> QED
  BY <1>1, <1>2, <1>3, <1>4

LEMMA ImuStepsTyped ==
  TypeOK /\ BuffersSorted /\ (InitializeImu \/ ProcessLio) => TypeOK' /\ BuffersSorted'
<1> SUFFICES ASSUME TypeOK, BuffersSorted, InitializeImu \/ ProcessLio
             PROVE  TypeOK' /\ BuffersSorted'
  OBVIOUS
<1>0. /\ meas \in [time : Nat, imu : Seq(Nat), rtk : Nat] /\ last_imu \in Nat
      /\ init_iter_num \in Nat /\ imu_need_init \in BOOLEAN /\ cloud \in Nat
      /\ processed \in Seq(Nat) /\ dropped \in Seq(Nat)
  BY DEF TypeOK
<1>1. meas.time \in Nat /\ meas.imu \in Seq(Nat)
  BY <1>0
<1>2. Times(pcl_cur) \in Seq(Nat)
  <2>1. pcl_cur \in Seq(Point)
    BY DEF TypeOK
  <2>2. \A i \in 1 .. Len(pcl_cur) : pcl_cur[i].time \in Nat
    <3>1. \A i \in 1 .. Len(pcl_cur) : pcl_cur[i] \in Point
      BY <2>1
    <3> QED
      BY <3>1 DEF Point
  <2>3. Times(pcl_cur) = [i \in 1 .. Len(pcl_cur) |-> pcl_cur[i].time] /\ Len(pcl_cur) \in Nat
    BY <2>1 DEF Times
  <2> QED
    BY <2>2, <2>3
<1>3. CASE InitializeImu
  <2>1. dropped' \in Seq(Nat)
    BY <1>0, <1>2, <1>3 DEF InitializeImu
  <2>2. init_iter_num' \in Nat /\ imu_need_init' \in BOOLEAN /\ last_imu' \in Nat
    <3>1. CASE meas.imu = <<>>
      BY <1>0, <1>3, <3>1 DEF InitializeImu
    <3>2. CASE meas.imu # <<>>
      <4>1. Len(meas.imu) \in Nat /\ LastOf(meas.imu) \in Nat
        BY <1>1, <3>2 DEF LastOf
      <4> QED
        BY <1>0, <1>3, <3>2, <4>1 DEF InitializeImu
    <3> QED
      BY <3>1, <3>2
  <2> QED
    BY <1>3, <2>1, <2>2 DEF InitializeImu, TypeOK, BuffersSorted, bufferVars
<1>4. CASE ProcessLio
  <2>1. processed' \in Seq(Nat)
    BY <1>0, <1>2, <1>4 DEF ProcessLio
  <2>2. last_lio' \in Nat \cup {-1} /\ last_prop_end' \in Nat /\ cloud' \in Nat
    BY <1>0, <1>1, <1>4 DEF ProcessLio
  <2>3. last_imu' \in Nat
    <3>1. ImuSequence \in Seq(Nat) /\ Len(ImuSequence) \in Nat \ {0}
      BY <1>0, <1>1 DEF ImuSequence
    <3>2. LastOf(ImuSequence) \in Nat
      BY <3>1 DEF LastOf
    <3> QED
      BY <1>4, <3>2 DEF ProcessLio
  <2> QED
    BY <1>4, <2>1, <2>2, <2>3 DEF ProcessLio, TypeOK, BuffersSorted, bufferVars
<1> QED
  BY <1>3, <1>4

LEMMA TypeStep == TypeOK /\ BuffersSorted /\ [Next]_vars => TypeOK' /\ BuffersSorted'
<1> SUFFICES ASSUME TypeOK, BuffersSorted, [Next]_vars PROVE TypeOK' /\ BuffersSorted'
  OBVIOUS
<1>1. CASE UNCHANGED vars
  BY <1>1 DEF vars, bufferVars, syncVars, imuVars, outVars, TypeOK, BuffersSorted
<1>2. CASE Next
  BY <1>2, LidarTyped, CallbacksTyped, PassesTyped, SyncLioTyped, ImuStepsTyped DEF Next
<1> QED
  BY <1>1, <1>2

(* The front end's buffers are in the order of their stamps and its state  *)
(* has the types the later proofs need.                                    *)
THEOREM FrontEndTypeCorrect == Spec => [](TypeOK /\ BuffersSorted)
<1>1. Init => TypeOK /\ BuffersSorted
  BY InitTyped
<1>2. TypeOK /\ BuffersSorted /\ [Next]_vars => (TypeOK /\ BuffersSorted)'
  BY TypeStep
<1> QED
  BY <1>1, <1>2, PTL DEF Spec

(***************************************************************************)
(* RTK                                                                     *)
(***************************************************************************)
LEMMA OnlySyncLioStartsLio ==
  ASSUME [Next]_vars, LioPending', ~ LioPending
  PROVE  SyncLio
BY DEF Next, LidarCallback, ImageCallback, ImuCallback, RtkCallback, ThrowImage, WaitForData,
       SyncVio, InitializeImu, ProcessLio, ProcessVio, LioPending, vars, bufferVars, syncVars

(* The RTK loop of sync_packages leaves in the measurement the newest fix  *)
(* between the last update and the image, whatever was buffered.           *)
THEOREM RtkIsNewest == Spec => NewestRtkUsed
<1> DEFINE Used == LioPending' /\ ~LioPending /\ rtk_ini =>
                     \A i \in DOMAIN rtk_buffer :
                       rtk_buffer[i] > last_lio' /\ rtk_buffer[i] <= meas'.time =>
                         rtk_buffer[i] <= meas'.rtk
<1>1. TypeOK /\ BuffersSorted /\ [Next]_vars => [Used]_vars
  <2> SUFFICES ASSUME TypeOK, BuffersSorted, [Next]_vars, LioPending', ~ LioPending, rtk_ini
               PROVE  \A i \in DOMAIN rtk_buffer :
                        rtk_buffer[i] > last_lio' /\ rtk_buffer[i] <= meas'.time =>
                          rtk_buffer[i] <= meas'.rtk
    OBVIOUS
  <2>1. SyncLio
    BY OnlySyncLioStartsLio
  <2>2. From \in Int /\ Capture \in Int
    BY <2>1, CutTyped DEF SyncLio
  <2>3. last_lio' = From /\ meas'.time = Capture
        /\ meas'.rtk = NewestRtk(rtk_buffer, From, Capture)
    BY <2>1 DEF SyncLio
  <2>4. rtk_buffer \in Seq(Nat) /\ Sorted(rtk_buffer)
    BY DEF TypeOK, BuffersSorted
  <2>5. \A i \in DOMAIN rtk_buffer : From < rtk_buffer[i] /\ rtk_buffer[i] <= Capture =>
          rtk_buffer[i] <= NewestRtk(rtk_buffer, From, Capture)
    BY <2>2, <2>4, NewestRtkIsNewest
  <2>6. \A i \in DOMAIN rtk_buffer : rtk_buffer[i] \in Int
    BY <2>4
  <2> QED
    BY <2>2, <2>3, <2>5, <2>6
<1>2. Spec => [](TypeOK /\ BuffersSorted)
  BY FrontEndTypeCorrect
<1>3. [][Used]_vars => NewestRtkUsed
  BY DEF NewestRtkUsed
<1> HIDE DEF Used
<1> QED
  BY <1>1, <1>2, <1>3, PTL DEF Spec

(***************************************************************************)
(* Keyframes                                                               *)
(***************************************************************************)
LEMMA KeyframeStep == TypeOK /\ KeyframeInv /\ [Next]_vars => KeyframeInv'
<1> SUFFICES ASSUME TypeOK, KeyframeInv, [Next]_vars PROVE KeyframeInv'
  OBVIOUS
<1>0. /\ published \in [stamp : Nat, cloud : Nat, previous : Nat]
      /\ keyframe_time \in Nat /\ last_lio \in Nat \cup {-1} /\ cloud \in Nat
      /\ meas.time \in Nat /\ img_time \in Seq(Nat)
  BY DEF TypeOK
<1>1. published.stamp \in Nat
  BY <1>0
<1> USE DEF KeyframeInv, KeyframesConsistent
<1>2. CASE LidarCallback \/ ImuCallback \/ RtkCallback \/ UNCHANGED vars
  <2>1. UNCHANGED <<img_time, step, lio_vio_flg, meas, keyframe_time, published, cloud,
                    imu_need_init, last_lio>>
    BY <1>2 DEF LidarCallback, ImuCallback, RtkCallback, vars, bufferVars, syncVars, imuVars,
                outVars
  <2>2. Capture' = Capture
    BY <2>1 DEF Capture
  <2> QED
    BY <2>1, <2>2
<1>3. CASE ImageCallback
  <2>1. PICK stamp \in ImageTimes : img_time' = Append(img_time, stamp)
    BY <1>3 DEF ImageCallback
  <2>2. img_time # <<>> => Head(img_time') = Head(img_time) /\ img_time' # <<>>
    BY <1>0, <2>1, FrontEndAssumption
  <2>3. img_time # <<>> => Capture' = Capture /\ img_time' # <<>>
    BY <2>2 DEF Capture
  <2>4. UNCHANGED <<step, lio_vio_flg, meas, keyframe_time, published, cloud,
                    imu_need_init, last_lio>>
    BY <1>3 DEF ImageCallback, syncVars, imuVars, outVars
  <2> QED
    BY <2>3, <2>4
<1>4. BuffersFilled => From \in Nat /\ Capture \in Nat /\ (last_lio \in Nat => From = last_lio)
  BY CutTyped DEF From
<1>5. CASE ThrowImage \/ WaitForData
  <2>1. /\ BuffersFilled /\ step = "spin" /\ lio_vio_flg # "LIO"
        /\ last_lio' = From /\ UNCHANGED <<step, lio_vio_flg, meas, published, cloud, imu_need_init>>
    BY <1>5 DEF ThrowImage, WaitForData, imuVars, outVars
  <2>2. cloud = 0
    BY <2>1
  <2>3. published.stamp # 0 => published.stamp <= last_lio'
    BY <1>0, <1>1, <1>4, <2>1
  <2> QED
    BY <2>1, <2>2, <2>3
<1>6. CASE SyncLio
  <2>1. /\ BuffersFilled /\ step = "spin" /\ lio_vio_flg # "LIO" /\ Capture > From
        /\ last_lio' = From /\ keyframe_time' = Capture /\ meas'.time = Capture
        /\ lio_vio_flg' = "LIO" /\ step' = "process"
        /\ UNCHANGED <<img_time, published, cloud, imu_need_init>>
    BY <1>6 DEF SyncLio, imuVars, outVars
  <2>2. cloud = 0
    BY <2>1
  <2>3. published.stamp # 0 => published.stamp <= last_lio'
    BY <1>0, <1>1, <1>4, <2>1
  <2>4. published.stamp < Capture
    BY <1>1, <1>4, <2>1, <2>3
  <2>5. Capture' = Capture /\ img_time' # <<>>
    BY <2>1 DEF Capture, BuffersFilled
  <2> QED
    BY <1>0, <1>4, <2>1, <2>2, <2>3, <2>4, <2>5
<1>7. CASE SyncVio
  <2>1. /\ step = "spin" /\ lio_vio_flg = "LIO" /\ lio_vio_flg' = "VIO" /\ step' = "process"
        /\ meas'.time = Capture
        /\ UNCHANGED <<keyframe_time, published, cloud, imu_need_init, last_lio>>
    BY <1>7 DEF SyncVio, NoMeasure, imuVars, outVars
  <2> QED
    BY <2>1
<1>8. CASE InitializeImu
  <2>1. /\ imu_need_init /\ step' = "spin" /\ step = "process"
        /\ UNCHANGED <<img_time, lio_vio_flg, meas, keyframe_time, published, cloud, last_lio>>
    BY <1>8 DEF InitializeImu, bufferVars
  <2>2. cloud = 0 /\ Capture' = Capture /\ lio_vio_flg # "WAIT"
    BY <2>1 DEF Capture
  <2> QED
    BY <2>1, <2>2
<1>9. CASE ProcessLio
  <2>1. /\ step = "process" /\ ~imu_need_init /\ lio_vio_flg = "LIO" /\ step' = "spin"
        /\ last_lio' = meas.time /\ cloud' = IF pcl_cur = <<>> THEN cloud ELSE meas.time
        /\ UNCHANGED <<img_time, lio_vio_flg, meas, keyframe_time, published, imu_need_init>>
    BY <1>9 DEF ProcessLio, bufferVars
  <2>2. Capture' = Capture
    BY <2>1 DEF Capture
  <2>3. cloud = 0 /\ meas.time = keyframe_time /\ keyframe_time > published.stamp
    BY <2>1
  <2> QED
    BY <1>0, <1>1, <2>1, <2>2, <2>3
<1>10. CASE ProcessVio
  <2>1. /\ step = "process" /\ ~imu_need_init /\ lio_vio_flg = "VIO" /\ step' = "spin"
        /\ last_lio' = meas.time /\ cloud' = 0
        /\ published' = IF cloud = 0 THEN published
                        ELSE [stamp |-> keyframe_time, cloud |-> cloud,
                              previous |-> published.stamp]
        /\ UNCHANGED <<lio_vio_flg, meas, keyframe_time, imu_need_init>>
    BY <1>10 DEF ProcessVio
  <2>2. meas.time = keyframe_time /\ keyframe_time > published.stamp
    BY <2>1
  <2>3. CASE cloud = 0
    BY <1>0, <1>1, <2>1, <2>2, <2>3
  <2>4. CASE cloud # 0
    <3>1. /\ published'.stamp = keyframe_time /\ published'.cloud = cloud
          /\ published'.previous = published.stamp
      BY <2>1, <2>4
    <3> QED
      BY <1>0, <1>1, <2>1, <2>2, <2>4, <3>1
  <2> QED
    BY <2>3, <2>4
<1> QED
  BY <1>2, <1>3, <1>5, <1>6, <1>7, <1>8, <1>9, <1>10 DEF Next

(* Odometry and cloud of a keyframe carry one stamp, and the stamps grow:  *)
(* the keyframe time is the image time from LIO to the end of VIO, and an  *)
(* image not later than the last update is thrown away.                    *)
THEOREM KeyframesAreConsistent == Spec => []KeyframesConsistent
<1>1. Init => KeyframeInv
  BY DEF Init, KeyframeInv, KeyframesConsistent
<1>2. TypeOK /\ KeyframeInv /\ [Next]_vars => KeyframeInv'
  BY KeyframeStep
<1>3. KeyframeInv => KeyframesConsistent
  BY DEF KeyframeInv
<1>4. Spec => [](TypeOK /\ BuffersSorted)
  BY FrontEndTypeCorrect
<1> QED
  BY <1>1, <1>2, <1>3, <1>4, PTL DEF Spec

(***************************************************************************)
(* Motion                                                                  *)
(***************************************************************************)

(* The pairs of UndistortPcl follow each other from the end of the last    *)
(* propagation to the time of the measurement.                             *)
LEMMA CoveredIsInterval ==
  ASSUME TypeOK, last_imu <= last_prop_end, Len(meas.imu) >= 2,
         \A i \in DOMAIN meas.imu : last_prop_end < meas.imu[i] /\ meas.imu[i] <= meas.time
  PROVE  Covered = last_prop_end + 1 .. meas.time
<1> DEFINE q == ImuSequence
           imu == meas.imu
           n == Len(imu)
           e == last_prop_end
           t == meas.time
<1>1. imu \in Seq(Nat) /\ last_imu \in Nat /\ e \in Nat /\ t \in Nat /\ n \in Nat /\ n >= 2
  BY DEF TypeOK
<1>2. \A i \in 1 .. n : imu[i] \in Nat /\ e < imu[i] /\ imu[i] <= t
  BY <1>1
<1>3. q = <<last_imu>> \o imu
  BY DEF ImuSequence
<1> HIDE DEF imu, e, t
<1>4. Len(q) = n + 1 /\ q[1] = last_imu /\ \A i \in 1 .. n : q[i + 1] = imu[i]
  <2>1. /\ <<last_imu>> \o imu \in Seq(Nat) /\ Len(<<last_imu>> \o imu) = Len(<<last_imu>>) + Len(imu)
        /\ IsJoin(<<last_imu>> \o imu, <<last_imu>>, imu)
    <3>1. <<last_imu>> \in Seq(Nat)
      BY <1>1
    <3> QED
      BY <1>1, <3>1, JoinedElements, Zenon
  <2>2. Len(<<last_imu>>) = 1 /\ DOMAIN <<last_imu>> = 1 .. 1 /\ <<last_imu>>[1] = last_imu
    OBVIOUS
  <2>3. DOMAIN imu = 1 .. n
    BY <1>1
  <2> HIDE DEF q
  <2>4. q[1] = last_imu
    BY <1>3, <2>1, <2>2 DEF IsJoin
  <2>5. \A i \in 1 .. n : q[1 + i] = imu[i]
    BY <1>3, <2>1, <2>2, <2>3 DEF IsJoin
  <2>6. \A i \in 1 .. n : 1 + i = i + 1
    BY <1>1
  <2>7. Len(q) = n + 1
    BY <1>1, <1>3, <2>1, <2>2
  <2> QED
    BY <2>4, <2>5, <2>6, <2>7
<1> HIDE DEF q, n
<1>5. \A i \in 2 .. n : i - 1 \in 1 .. n /\ i - 1 + 1 = i /\ q[i] = imu[i - 1]
  <2>1. \A i \in 2 .. n : i - 1 \in 1 .. n /\ i - 1 + 1 = i
    BY <1>1
  <2> QED
    BY <1>4, <2>1
<1>6. Pairs = 1 .. n
  <2>1. \A i \in 1 .. n : q[i + 1] >= e
    <3> TAKE i \in 1 .. n
    <3>1. q[i + 1] = imu[i]
      BY <1>4
    <3>2. imu[i] \in Nat /\ e < imu[i]
      BY <1>2
    <3> QED
      BY <1>1, <3>1, <3>2
  <2>2. Pairs = {i \in 1 .. Len(q) - 1 : q[i + 1] >= e}
    BY DEF Pairs, q, e
  <2>3. Len(q) - 1 = n
    BY <1>1, <1>4
  <2> QED
    BY <2>1, <2>2, <2>3
<1>7. PairBegin(1) = e
  BY <1>1, <1>4 DEF PairBegin, q, e
<1>8. \A i \in 2 .. n : PairBegin(i) = imu[i - 1]
  <2> TAKE i \in 2 .. n
  <2>1. q[i] = imu[i - 1] /\ ~ (q[i] < e)
    BY <1>1, <1>2, <1>5
  <2> QED
    BY <2>1 DEF PairBegin, q, e
<1>9. \A i \in 1 .. n : i # n => PairEnd(i) = imu[i]
  <2> TAKE i \in 1 .. n
  <2>1. Len(q) - 1 = n /\ q[i + 1] = imu[i]
    BY <1>1, <1>4
  <2> QED
    BY <2>1 DEF PairEnd, q
<1>10. PairEnd(n) = t
  <2>1. Len(q) - 1 = n /\ n \in 2 .. n
    BY <1>1, <1>4
  <2>2. ~ (q[n] < e)
    BY <1>1, <1>2, <1>5, <2>1
  <2> QED
    BY <2>1, <2>2 DEF PairEnd, q, e, t
<1> DEFINE begin(i) == PairBegin(i)
           stop(i) == PairEnd(i)
<1>11. \A i \in 1 .. n : stop(i) \in Nat /\ stop(i) <= t /\ begin(i) \in Nat /\ begin(i) >= e
  <2> TAKE i \in 1 .. n
  <2>1. stop(i) \in Nat /\ stop(i) <= t
    <3>1. CASE i = n
      BY <1>1, <1>10, <3>1
    <3>2. CASE i # n
      BY <1>2, <1>9, <3>2
    <3> QED
      BY <3>1, <3>2
  <2>2. begin(i) \in Nat /\ begin(i) >= e
    <3>1. CASE i = 1
      BY <1>1, <1>7, <3>1
    <3>2. CASE i # 1
      <4>1. i \in 2 .. n /\ i - 1 \in 1 .. n
        BY <1>1, <3>2
      <4>2. begin(i) = imu[i - 1]
        BY <1>8, <4>1
      <4>3. imu[i - 1] \in Nat /\ e < imu[i - 1]
        BY <1>2, <4>1
      <4> HIDE DEF begin
      <4> QED
        BY <1>1, <4>2, <4>3
    <3> QED
      BY <3>1, <3>2
  <2> QED
    BY <2>1, <2>2
<1>12. \A i \in 2 .. n : i - 1 \in 1 .. n /\ i - 1 # n /\ begin(i) = stop(i - 1)
  <2> TAKE i \in 2 .. n
  <2>1. i - 1 \in 1 .. n /\ i - 1 # n
    BY <1>1
  <2> QED
    BY <1>8, <1>9, <2>1
<1>13. Covered = UNION {begin(i) + 1 .. stop(i) : i \in 1 .. n}
  BY <1>6 DEF Covered
<1>14. begin(1) = e /\ stop(n) = t /\ n \in 1 .. n
  BY <1>1, <1>7, <1>10
<1> HIDE DEF begin, stop
<1>15. \A x \in Covered : x \in e + 1 .. t
  <2> TAKE x \in Covered
  <2>1. PICK i \in 1 .. n : x \in begin(i) + 1 .. stop(i)
    BY <1>13
  <2>2. stop(i) \in Nat /\ stop(i) <= t /\ begin(i) \in Nat /\ begin(i) >= e
    BY <1>11
  <2> QED
    BY <1>1, <2>1, <2>2
<1>16. \A x \in e + 1 .. t : x \in Covered
  <2> TAKE x \in e + 1 .. t
  <2> DEFINE reach == {i \in 1 .. n : x <= stop(i)}
  <2>1. n \in reach /\ reach \in SUBSET Nat
    BY <1>1, <1>14
  <2>2. PICK i \in reach : \A m \in reach : i <= m
    <3> HIDE DEF reach
    <3> QED
      BY <2>1, LeastMember
  <2>3. i \in 1 .. n /\ x <= stop(i) /\ stop(i) \in Nat /\ begin(i) \in Nat
    BY <1>11, <2>2
  <2>4. begin(i) < x
    <3>1. CASE i = 1
      BY <1>1, <1>14, <3>1
    <3>2. CASE i # 1
      <4>1. i \in 2 .. n /\ ~ (i <= i - 1)
        BY <1>1, <2>3, <3>2
      <4>2. i - 1 \in 1 .. n /\ begin(i) = stop(i - 1) /\ i - 1 \notin reach
        BY <1>12, <2>2, <4>1
      <4>3. ~ (x <= stop(i - 1)) /\ stop(i - 1) \in Nat
        BY <1>11, <4>2
      <4> QED
        BY <1>1, <4>2, <4>3
    <3> QED
      BY <3>1, <3>2
  <2>5. x \in begin(i) + 1 .. stop(i)
    BY <1>1, <2>3, <2>4
  <2> QED
    BY <1>13, <2>3, <2>5
<1>17. Covered = e + 1 .. t
  BY <1>15, <1>16
<1> QED
  BY <1>17 DEF e, t

LEMMA MotionStep ==
  TypeOK /\ BuffersSorted /\ KeyframeInv /\ MotionInv /\ [Next]_vars => MotionInv'
<1> SUFFICES ASSUME TypeOK, BuffersSorted, KeyframeInv, MotionInv, [Next]_vars PROVE MotionInv'
  OBVIOUS
<1>0. /\ meas \in [time : Nat, imu : Seq(Nat), rtk : Nat] /\ last_imu \in Nat
      /\ last_prop_end \in Nat /\ last_lio \in Nat \cup {-1} /\ keyframe_time \in Nat
      /\ imu_need_init \in BOOLEAN
      /\ step \in {"spin", "process"} /\ lio_vio_flg \in {"WAIT", "LIO", "VIO"}
  BY DEF TypeOK
<1>1. meas.time \in Nat /\ meas.imu \in Seq(Nat) /\ last_lio \in Int
  BY <1>0
<1> USE DEF MotionInv, MotionCovered, LioPending
<1>2. CASE LidarCallback \/ ImageCallback \/ ImuCallback \/ RtkCallback \/ UNCHANGED vars
  <2>1. UNCHANGED <<step, lio_vio_flg, meas, keyframe_time, last_lio, last_imu, last_prop_end,
                    imu_need_init, lio>>
    BY <1>2 DEF LidarCallback, ImageCallback, ImuCallback, RtkCallback, vars, bufferVars,
                syncVars, imuVars, outVars
  <2> QED
    BY <2>1
<1>3. BuffersFilled => From \in Nat /\ Capture \in Nat /\ (last_lio \in Nat => From = last_lio)
  BY CutTyped DEF From
<1>4. CASE ThrowImage \/ WaitForData
  <2>1. /\ BuffersFilled /\ step = "spin" /\ lio_vio_flg # "LIO" /\ last_lio' = From
        /\ UNCHANGED <<step, lio_vio_flg, meas, last_imu, last_prop_end, imu_need_init, lio>>
    BY <1>4 DEF ThrowImage, WaitForData, imuVars, outVars
  <2>2. ~imu_need_init => last_prop_end = last_lio /\ last_imu <= last_lio
    BY <1>0, <2>1
  <2>3. ~imu_need_init => last_lio' = last_lio
    BY <1>0, <1>3, <2>1, <2>2
  <2> QED
    BY <1>0, <2>1, <2>2, <2>3
<1>5. CASE SyncLio
  <2>1. /\ BuffersFilled /\ step = "spin" /\ lio_vio_flg # "LIO" /\ Capture > From
        /\ last_lio' = From /\ keyframe_time' = Capture /\ meas'.time = Capture
        /\ meas'.imu = Within(imu_buffer, From, Capture)
        /\ lio_vio_flg' = "LIO" /\ step' = "process"
        /\ UNCHANGED <<last_imu, last_prop_end, imu_need_init, lio>>
    BY <1>5 DEF SyncLio, imuVars, outVars
  <2>2. /\ Sorted(Within(imu_buffer, From, Capture))
        /\ \A j \in DOMAIN Within(imu_buffer, From, Capture) :
             /\ From < Within(imu_buffer, From, Capture)[j]
             /\ Within(imu_buffer, From, Capture)[j] <= Capture
    <3>1. imu_buffer \in Seq(Nat) /\ Sorted(imu_buffer)
      BY DEF TypeOK, BuffersSorted
    <3>2. From \in Int /\ Capture \in Int
      BY <1>3, <2>1
    <3> QED
      BY <3>1, <3>2, WithinProperties
  <2>3. ~imu_need_init => last_prop_end = last_lio /\ last_imu <= last_lio
    BY <1>0, <2>1
  <2>4. ~imu_need_init => last_prop_end = last_lio' /\ last_imu <= last_lio'
    BY <1>0, <1>3, <2>1, <2>3
  <2>5. 0 <= last_lio' /\ last_lio' < meas'.time
    BY <1>3, <2>1
  <2>6. /\ Sorted(meas'.imu)
        /\ \A i \in DOMAIN meas'.imu : last_lio' < meas'.imu[i] /\ meas'.imu[i] <= meas'.time
    BY <2>1, <2>2
  <2> QED
    BY <2>1, <2>4, <2>5, <2>6
<1>6. CASE SyncVio
  <2>1. /\ step = "spin" /\ lio_vio_flg = "LIO" /\ lio_vio_flg' = "VIO" /\ step' = "process"
        /\ meas'.time = Capture /\ meas'.imu = <<>>
        /\ UNCHANGED <<keyframe_time, last_lio, last_imu, last_prop_end, imu_need_init, lio>>
    BY <1>6 DEF SyncVio, NoMeasure, imuVars, outVars
  <2>2. keyframe_time = Capture
    BY <2>1 DEF KeyframeInv
  <2> QED
    BY <2>1, <2>2
<1>7. step = "process" => meas.time = keyframe_time /\ lio_vio_flg # "WAIT"
  BY DEF KeyframeInv
<1>8. CASE InitializeImu
  <2>1. /\ step = "process" /\ imu_need_init /\ step' = "spin"
        /\ UNCHANGED <<lio_vio_flg, meas, keyframe_time, last_lio, last_prop_end, lio>>
    BY <1>8 DEF InitializeImu, bufferVars
  <2>2. CASE meas.imu = <<>>
    <3>1. imu_need_init' = imu_need_init /\ last_imu' = last_imu
      BY <1>8, <2>2 DEF InitializeImu
    <3> QED
      BY <1>7, <2>1, <3>1
  <2>3. CASE meas.imu # <<>>
    <3>1. lio_vio_flg = "LIO" /\ last_imu' = LastOf(meas.imu)
      BY <1>0, <1>7, <1>8, <2>1, <2>3 DEF InitializeImu
    <3>2. Len(meas.imu) \in DOMAIN meas.imu
      BY <1>1, <2>3
    <3>3. last_imu' <= keyframe_time'
      BY <1>7, <2>1, <3>1, <3>2 DEF LastOf
    <3> QED
      BY <2>1, <3>1, <3>3
  <2> QED
    BY <2>2, <2>3
<1>9. CASE ProcessLio
  <2>1. /\ step = "process" /\ ~imu_need_init /\ lio_vio_flg = "LIO" /\ step' = "spin"
        /\ last_lio' = meas.time /\ last_prop_end' = meas.time /\ last_imu' = LastOf(ImuSequence)
        /\ lio'.from = last_prop_end /\ lio'.to = meas.time /\ lio'.covered = Covered
        /\ lio'.imus = Len(meas.imu)
        /\ UNCHANGED <<lio_vio_flg, meas, keyframe_time, imu_need_init>>
    BY <1>9 DEF ProcessLio
  <2>2. /\ last_prop_end = last_lio /\ last_imu <= last_lio /\ last_lio < meas.time
        /\ \A i \in DOMAIN meas.imu : last_prop_end < meas.imu[i] /\ meas.imu[i] <= meas.time
    BY <2>1
  <2>3. LastOf(ImuSequence) <= meas.time
    <3>1. /\ ImuSequence \in Seq(Nat) /\ Len(ImuSequence) = 1 + Len(meas.imu)
          /\ IsJoin(ImuSequence, <<last_imu>>, meas.imu)
      <4>1. <<last_imu>> \in Seq(Nat) /\ Len(<<last_imu>>) = 1
        BY <1>0
      <4>2. /\ <<last_imu>> \o meas.imu \in Seq(Nat)
            /\ Len(<<last_imu>> \o meas.imu) = Len(<<last_imu>>) + Len(meas.imu)
            /\ IsJoin(<<last_imu>> \o meas.imu, <<last_imu>>, meas.imu)
        BY <1>1, <4>1, JoinedElements, Zenon
      <4> QED
        BY <4>1, <4>2 DEF ImuSequence
    <3>2. Len(ImuSequence) \in DOMAIN ImuSequence /\ DOMAIN <<last_imu>> = 1 .. 1
      BY <1>1, <3>1
    <3>3. \A i \in DOMAIN <<last_imu>> : <<last_imu>>[i] = last_imu
      OBVIOUS
    <3>4. LastOf(ImuSequence) = last_imu
          \/ \E i \in DOMAIN meas.imu : LastOf(ImuSequence) = meas.imu[i]
      BY <3>1, <3>2, <3>3 DEF IsJoin, LastOf
    <3>5. last_imu <= meas.time
      BY <1>0, <1>1, <2>2
    <3> QED
      BY <2>2, <3>4, <3>5
  <2>4. lio'.imus >= 2 => lio'.covered = lio'.from + 1 .. lio'.to
    <3>1. last_imu <= last_prop_end
      BY <2>2
    <3>2. Len(meas.imu) >= 2 => Covered = last_prop_end + 1 .. meas.time
      BY <2>2, <3>1, CoveredIsInterval
    <3> QED
      BY <2>1, <3>2
  <2> QED
    BY <1>7, <2>1, <2>3, <2>4
<1>10. CASE ProcessVio
  <2>1. /\ step = "process" /\ ~imu_need_init /\ lio_vio_flg = "VIO" /\ step' = "spin"
        /\ last_lio' = meas.time /\ last_prop_end' = meas.time
        /\ UNCHANGED <<lio_vio_flg, meas, keyframe_time, imu_need_init, last_imu, lio>>
    BY <1>10 DEF ProcessVio
  <2> QED
    BY <2>1
<1> QED
  BY <1>2, <1>4, <1>5, <1>6, <1>8, <1>9, <1>10 DEF Next

(* LIO steps continue where the last propagation ended, and with two IMU   *)
(* messages the pairs of UndistortPcl leave no gap up to the image time:   *)
(* the IMU loop hands over exactly the messages of the interval, and the   *)
(* last pair is stretched to its end.                                      *)
THEOREM MotionIsCovered == Spec => []MotionCovered
<1>1. Init => KeyframeInv /\ MotionInv
  BY DEF Init, KeyframeInv, KeyframesConsistent, MotionInv, MotionCovered, LioPending, NoLio
<1>2. TypeOK /\ BuffersSorted /\ KeyframeInv /\ MotionInv /\ [Next]_vars => (KeyframeInv /\ MotionInv)'
  BY KeyframeStep, MotionStep
<1>3. MotionInv => MotionCovered
  BY DEF MotionInv
<1>4. Spec => [](TypeOK /\ BuffersSorted)
  BY FrontEndTypeCorrect
<1> QED
  BY <1>1, <1>2, <1>3, <1>4, PTL DEF Spec

(***************************************************************************)
(* Points: scans, images, cuts                                             *)
(***************************************************************************)

(* The LiDAR clock does not jump back and a scan ends before the next one  *)
(* begins; images are at least a scan's length apart, as they are with a   *)
(* camera triggered once per scan.                                         *)
ScansFollow == MaxRewinds = 0 /\ \A g, h \in ScanTimes : g < h => g + Span <= h
ImagesApart == \A s, t \in ImageTimes : s < t => s + Span <= t

LEMMA SpanNatural == Span \in Nat
<1>1. Offsets \in Seq(Nat) /\ Offsets # <<>>
  BY FrontEndAssumption
<1>2. Len(Offsets) \in DOMAIN Offsets
  BY <1>1
<1> QED
  BY <1>1, <1>2 DEF Span, LastOf

LEMMA AppendElements ==
  ASSUME NEW S, NEW q \in Seq(S), NEW x \in S
  PROVE  /\ Append(q, x) \in Seq(S) /\ Len(Append(q, x)) = Len(q) + 1 /\ Append(q, x) # <<>>
         /\ DOMAIN Append(q, x) = 1 .. Len(q) + 1 /\ DOMAIN q = 1 .. Len(q) /\ Len(q) \in Nat
         /\ Append(q, x)[Len(q) + 1] = x /\ \A i \in 1 .. Len(q) : Append(q, x)[i] = q[i]
         /\ \A i \in 1 .. Len(q) + 1 : i = Len(q) + 1 \/ i \in 1 .. Len(q)
         /\ \A i \in 1 .. Len(q) : i # Len(q) + 1 /\ i < Len(q) + 1
OBVIOUS

LEMMA ScansLidar == ScansFollow /\ TypeOK /\ ScansInv /\ LidarCallback => ScansInv'
<1> SUFFICES ASSUME ScansFollow, TypeOK, ScansInv, LidarCallback PROVE ScansInv'
  OBVIOUS
<1>1. PICK head \in ScanTimes, empty \in BOOLEAN :
        /\ head # last_lidar
        /\ head < last_lidar => rewinds < MaxRewinds
        /\ LET kept == IF head < last_lidar THEN <<>> ELSE lid_raw
           IN  IF empty
                 THEN /\ lid_raw' = kept
                      /\ UNCHANGED <<lid_header, last_lidar, delivered>>
                 ELSE /\ lid_raw' = Append(kept, ScanAt(head))
                      /\ lid_header' = Append(lid_header, head)
                      /\ last_lidar' = head
                      /\ delivered' = delivered \cup Range(Times(ScanAt(head)))
  BY DEF LidarCallback
<1>2. /\ head \in Nat /\ last_lidar \in Int /\ rewinds \in Nat /\ MaxRewinds = 0
      /\ lid_raw \in Seq(Seq(Point)) /\ lid_header \in Seq(Nat)
  BY FrontEndAssumption DEF TypeOK, ScansFollow
<1>3. ~ (head < last_lidar) /\ last_lidar < head
  BY <1>1, <1>2
<1>4. CASE empty
  <2>1. lid_raw' = lid_raw /\ UNCHANGED <<lid_header, last_lidar>>
    BY <1>1, <1>3, <1>4
  <2> QED
    BY <2>1 DEF ScansInv
<1>5. CASE ~ empty
  <2>1. /\ lid_raw' = Append(lid_raw, ScanAt(head)) /\ lid_header' = Append(lid_header, head)
        /\ last_lidar' = head
    BY <1>1, <1>3, <1>5
  <2> DEFINE n == Len(lid_header)
  <2>2. /\ lid_header' \in Seq(Nat) /\ Len(lid_header') = n + 1 /\ n \in Nat
        /\ DOMAIN lid_header' = 1 .. n + 1 /\ DOMAIN lid_header = 1 .. n
        /\ lid_header'[n + 1] = head /\ \A i \in 1 .. n : lid_header'[i] = lid_header[i]
        /\ \A i \in 1 .. n + 1 : i = n + 1 \/ i \in 1 .. n
    BY <1>2, <2>1, AppendElements
  <2>3. /\ Len(lid_raw) = n /\ Len(lid_raw') = n + 1
        /\ lid_raw'[n + 1] = ScanAt(head) /\ \A i \in 1 .. n : lid_raw'[i] = lid_raw[i]
    <3>1. ScanAt(head) \in Seq(Point) /\ Len(lid_raw) = n
      BY <1>2, ScanTyped DEF ScansInv
    <3> QED
      BY <1>2, <2>1, <3>1, AppendElements
  <2>a. \A i \in 1 .. n : lid_header[i] \in Nat
    BY <1>2
  <2> HIDE DEF n
  <2>4. \A i \in 1 .. n : /\ lid_header[i] \in ScanTimes /\ lid_raw[i] = ScanAt(lid_header[i])
                          /\ lid_header[i] <= last_lidar /\ lid_header[i] \in Nat
    BY <2>2, <2>a DEF ScansInv
  <2>5. \A i \in 1 .. n : lid_header[i] < head
    BY <1>2, <1>3, <2>4
  <2>6. \A i \in DOMAIN lid_header' :
          /\ lid_header'[i] \in ScanTimes /\ lid_raw'[i] = ScanAt(lid_header'[i])
          /\ lid_header'[i] <= last_lidar'
    <3> TAKE i \in DOMAIN lid_header'
    <3>1. CASE i = n + 1
      BY <1>2, <2>1, <2>2, <2>3, <3>1
    <3>2. CASE i \in 1 .. n
      <4>1. lid_header'[i] = lid_header[i] /\ lid_raw'[i] = lid_raw[i]
        BY <2>2, <2>3, <3>2
      <4> QED
        BY <1>2, <2>1, <2>4, <2>5, <3>2, <4>1
    <3> QED
      BY <2>2, <3>1, <3>2
  <2>7. \A i, j \in DOMAIN lid_header' : i < j => lid_header'[i] < lid_header'[j]
    <3> SUFFICES ASSUME NEW i \in DOMAIN lid_header', NEW j \in DOMAIN lid_header', i < j
                 PROVE  lid_header'[i] < lid_header'[j]
      OBVIOUS
    <3>1. i \in 1 .. n
      BY <2>2
    <3>2. CASE j = n + 1
      BY <2>2, <2>5, <3>1, <3>2
    <3>3. CASE j \in 1 .. n
      <4>1. lid_header[i] < lid_header[j]
        BY <2>2, <3>1, <3>3 DEF ScansInv
      <4> QED
        BY <2>2, <3>1, <3>3, <4>1
    <3> QED
      BY <2>2, <3>2, <3>3
  <2>8. last_lidar' = LastOf(lid_header') /\ Len(lid_raw') = Len(lid_header')
    BY <2>1, <2>2, <2>3 DEF LastOf
  <2> QED
    BY <2>1, <2>6, <2>7, <2>8 DEF ScansInv
<1> QED
  BY <1>4, <1>5

LEMMA ScansCut == TypeOK /\ ScansInv /\ SyncLio => ScansInv'
<1> SUFFICES ASSUME TypeOK, ScansInv, SyncLio PROVE ScansInv'
  OBVIOUS
<1> DEFINE k == CutCount
           n == Len(lid_header)
<1>1. /\ lid_raw \in Seq(Seq(Point)) /\ lid_header \in Seq(Nat) /\ n \in Nat
      /\ Len(lid_raw) = n /\ DOMAIN lid_header = 1 .. n /\ DOMAIN lid_raw = 1 .. n
  BY DEF TypeOK, ScansInv
<1>2. /\ k \in 0 .. n /\ lid_raw' = DropFront(lid_raw, k) /\ lid_header' = DropFront(lid_header, k)
  BY <1>1, SyncLioResult
<1>3. /\ lid_header' \in Seq(Nat) /\ Len(lid_header') = n - k
      /\ \A i \in 1 .. n - k : lid_header'[i] = lid_header[k + i]
  BY <1>1, <1>2, DropFrontProperties
<1>4. /\ lid_raw' \in Seq(Seq(Point)) /\ Len(lid_raw') = n - k
      /\ \A i \in 1 .. n - k : lid_raw'[i] = lid_raw[k + i]
  BY <1>1, <1>2, DropFrontProperties
<1>5. last_lidar' = last_lidar /\ DOMAIN lid_header' = 1 .. n - k
  BY <1>3 DEF SyncLio
<1> HIDE DEF k, n
<1>6. \A i \in 1 .. n - k : k + i \in 1 .. n
  BY <1>1, <1>2
<1>7. \A i \in DOMAIN lid_header' :
        /\ lid_header'[i] \in ScanTimes /\ lid_raw'[i] = ScanAt(lid_header'[i])
        /\ lid_header'[i] <= last_lidar'
  BY <1>1, <1>3, <1>4, <1>5, <1>6 DEF ScansInv
<1>8. \A i, j \in DOMAIN lid_header' : i < j => lid_header'[i] < lid_header'[j]
  <2> SUFFICES ASSUME NEW i \in 1 .. n - k, NEW j \in 1 .. n - k, i < j
               PROVE  lid_header'[i] < lid_header'[j]
    BY <1>5
  <2>1. k + i \in 1 .. n /\ k + j \in 1 .. n /\ k + i < k + j
    BY <1>1, <1>2
  <2>2. lid_header[k + i] < lid_header[k + j]
    BY <1>1, <2>1 DEF ScansInv
  <2> QED
    BY <1>3, <2>2
<1>9. lid_raw' = <<>> \/ last_lidar' = LastOf(lid_header')
  <2>1. CASE n - k = 0
    BY <1>4, <2>1
  <2>2. CASE n - k # 0
    <3>1. n - k \in 1 .. n - k /\ k + (n - k) = n /\ n # 0
      BY <1>1, <1>2, <2>2
    <3>2. LastOf(lid_header') = lid_header[n]
      BY <1>3, <3>1 DEF LastOf
    <3>3. last_lidar = LastOf(lid_header)
      BY <1>1, <3>1 DEF ScansInv
    <3> QED
      BY <1>5, <3>2, <3>3 DEF LastOf, n
  <2> QED
    BY <2>1, <2>2
<1> QED
  BY <1>3, <1>4, <1>5, <1>7, <1>8, <1>9 DEF ScansInv

LEMMA TailElements ==
  ASSUME NEW S, NEW q \in Seq(S), q # <<>>
  PROVE  /\ Tail(q) \in Seq(S) /\ Len(Tail(q)) = Len(q) - 1 /\ Len(q) \in Nat \ {0}
         /\ DOMAIN q = 1 .. Len(q) /\ DOMAIN Tail(q) = 1 .. Len(q) - 1
         /\ Head(q) = q[1] /\ 1 \in DOMAIN q
         /\ \A i \in 1 .. Len(q) - 1 : i + 1 \in 1 .. Len(q) /\ 1 < i + 1 /\ Tail(q)[i] = q[i + 1]
OBVIOUS

LEMMA ImagesStep ==
  TypeOK /\ KeyframeInv /\ MotionInv /\ ImagesInv /\ [Next]_vars => ImagesInv'
<1> SUFFICES ASSUME TypeOK, KeyframeInv, MotionInv, ImagesInv, [Next]_vars PROVE ImagesInv'
  OBVIOUS
<1>0. /\ img_time \in Seq(Nat) /\ last_img \in Int /\ ImageTimes \subseteq Nat
      /\ lio_vio_flg \in {"WAIT", "LIO", "VIO"} /\ MinImageGap \in Nat \ {0}
      /\ DOMAIN img_time = 1 .. Len(img_time) /\ Len(img_time) \in Nat
      /\ \A i \in DOMAIN img_time : img_time[i] \in Nat
  <2>1. img_time \in Seq(Nat) /\ last_img \in Int /\ lio_vio_flg \in {"WAIT", "LIO", "VIO"}
    BY DEF TypeOK
  <2>2. ImageTimes \subseteq Nat /\ MinImageGap \in Nat \ {0}
    BY FrontEndAssumption
  <2>3. /\ DOMAIN img_time = 1 .. Len(img_time) /\ Len(img_time) \in Nat
        /\ \A i \in DOMAIN img_time : img_time[i] \in Nat
    BY <2>1
  <2> QED
    BY <2>1, <2>2, <2>3
<1>1. CASE LidarCallback \/ ImuCallback \/ RtkCallback \/ WaitForData \/ UNCHANGED vars
           \/ ProcessLio \/ ProcessVio \/ InitializeImu
  <2>1. UNCHANGED <<img_time, last_img, lio_vio_flg, meas>>
    BY <1>1 DEF LidarCallback, ImuCallback, RtkCallback, WaitForData, ProcessLio, ProcessVio,
                InitializeImu, vars, bufferVars, syncVars
  <2> QED
    BY <2>1 DEF ImagesInv
<1>2. CASE ImageCallback
  <2>1. PICK stamp \in ImageTimes :
          /\ last_img >= 0 => stamp - last_img >= MinImageGap
          /\ img_time' = Append(img_time, stamp) /\ last_img' = stamp
    BY <1>2 DEF ImageCallback
  <2>2. UNCHANGED <<lio_vio_flg, meas>>
    BY <1>2 DEF ImageCallback, syncVars
  <2> DEFINE n == Len(img_time)
  <2>3. stamp \in Nat /\ (last_img >= 0 => last_img < stamp)
    BY <1>0, <2>1
  <2>4. /\ img_time' \in Seq(Nat) /\ Len(img_time') = n + 1 /\ n \in Nat /\ img_time' # <<>>
        /\ DOMAIN img_time' = 1 .. n + 1 /\ DOMAIN img_time = 1 .. n
        /\ img_time'[n + 1] = stamp /\ \A i \in 1 .. n : img_time'[i] = img_time[i]
        /\ \A i \in 1 .. n + 1 : i = n + 1 \/ i \in 1 .. n
    BY <1>0, <2>1, <2>3, AppendElements
  <2>5. \A i \in 1 .. n : /\ img_time[i] \in ImageTimes /\ img_time[i] \in Nat
                          /\ img_time[i] <= last_img
    BY <1>0, <2>4 DEF ImagesInv
  <2>6. img_time # <<>> => Head(img_time') = Head(img_time)
    BY <1>0, <2>1, <2>3
  <2> HIDE DEF n
  <2>7. \A i \in 1 .. n : img_time[i] < stamp
    <3> TAKE i \in 1 .. n
    <3>1. img_time[i] \in Nat /\ img_time[i] <= last_img
      BY <2>5
    <3> QED
      BY <1>0, <2>3, <3>1
  <2>8. \A i \in DOMAIN img_time' : img_time'[i] \in ImageTimes /\ img_time'[i] <= last_img'
    <3> TAKE i \in DOMAIN img_time'
    <3>1. CASE i = n + 1
      BY <2>1, <2>3, <2>4, <3>1
    <3>2. CASE i \in 1 .. n
      BY <2>1, <2>3, <2>4, <2>5, <2>7, <3>2
    <3> QED
      BY <2>4, <3>1, <3>2
  <2>9. \A i, j \in DOMAIN img_time' : i < j => img_time'[i] < img_time'[j]
    <3> SUFFICES ASSUME NEW i \in DOMAIN img_time', NEW j \in DOMAIN img_time', i < j
                 PROVE  img_time'[i] < img_time'[j]
      OBVIOUS
    <3>1. i \in 1 .. n
      BY <2>4
    <3>2. CASE j = n + 1
      BY <2>4, <2>7, <3>1, <3>2
    <3>3. CASE j \in 1 .. n
      <4>1. img_time[i] < img_time[j]
        BY <2>4, <3>1, <3>3 DEF ImagesInv
      <4> QED
        BY <2>4, <3>1, <3>3, <4>1
    <3> QED
      BY <2>4, <3>2, <3>3
  <2>10. ASSUME lio_vio_flg # "WAIT"
         PROVE  \E s \in ImageTimes :
                  /\ meas.time = s + ExposureTime /\ s <= last_img'
                  /\ lio_vio_flg = "LIO" => img_time' # <<>> /\ s = Head(img_time')
                  /\ lio_vio_flg = "VIO" => \A i \in DOMAIN img_time' : s < img_time'[i]
    <3>1. PICK s \in ImageTimes :
            /\ meas.time = s + ExposureTime /\ s <= last_img
            /\ lio_vio_flg = "LIO" => img_time # <<>> /\ s = Head(img_time)
            /\ lio_vio_flg = "VIO" => \A i \in DOMAIN img_time : s < img_time[i]
      BY <2>10 DEF ImagesInv
    <3>2. s \in Nat /\ s < stamp
      BY <1>0, <2>3, <3>1
    <3>3. lio_vio_flg = "VIO" => \A i \in DOMAIN img_time' : s < img_time'[i]
      BY <2>4, <3>1, <3>2
    <3>4. s <= last_img'
      BY <2>1, <2>3, <3>2
    <3> QED
      BY <2>4, <2>6, <3>1, <3>3, <3>4
  <2> QED
    BY <2>2, <2>8, <2>9, <2>10 DEF ImagesInv
<1>3. ASSUME BuffersFilled, img_time' = Tail(img_time)
      PROVE  /\ \A i \in DOMAIN img_time' : /\ \E j \in DOMAIN img_time : img_time'[i] = img_time[j]
                                            /\ Head(img_time) < img_time'[i]
             /\ \A i, j \in DOMAIN img_time' : i < j => img_time'[i] < img_time'[j]
  <2> DEFINE n == Len(img_time)
             t == Tail(img_time)
  <2>1. /\ n \in Nat \ {0} /\ DOMAIN img_time = 1 .. n /\ DOMAIN t = 1 .. n - 1
        /\ Head(img_time) = img_time[1] /\ 1 \in DOMAIN img_time
        /\ \A i \in 1 .. n - 1 : i + 1 \in 1 .. n /\ 1 < i + 1 /\ t[i] = img_time[i + 1]
    BY <1>0, <1>3, TailElements DEF BuffersFilled
  <2> HIDE DEF n, t
  <2>2. \A i \in DOMAIN t : /\ \E j \in DOMAIN img_time : t[i] = img_time[j]
                            /\ Head(img_time) < t[i]
    BY <2>1 DEF ImagesInv
  <2>3. \A i, j \in DOMAIN t : i < j => t[i] < t[j]
    <3> SUFFICES ASSUME NEW i \in 1 .. n - 1, NEW j \in 1 .. n - 1, i < j PROVE t[i] < t[j]
      BY <2>1
    <3>1. i + 1 \in 1 .. n /\ j + 1 \in 1 .. n /\ i + 1 < j + 1
      BY <2>1
    <3>2. img_time[i + 1] < img_time[j + 1]
      BY <2>1, <3>1 DEF ImagesInv
    <3> QED
      BY <2>1, <3>2
  <2> QED
    BY <1>3, <2>2, <2>3 DEF t
<1>4. CASE ThrowImage
  <2>1. /\ BuffersFilled /\ lio_vio_flg # "LIO" /\ img_time' = Tail(img_time)
        /\ UNCHANGED <<last_img, lio_vio_flg, meas>>
    BY <1>4 DEF ThrowImage
  <2>2. /\ \A i \in DOMAIN img_time' : \E j \in DOMAIN img_time : img_time'[i] = img_time[j]
        /\ \A i, j \in DOMAIN img_time' : i < j => img_time'[i] < img_time'[j]
    BY <1>3, <2>1
  <2> QED
    BY <2>1, <2>2 DEF ImagesInv
<1>5. CASE SyncLio
  <2>1. /\ img_time # <<>> /\ lio_vio_flg' = "LIO" /\ meas'.time = Capture
        /\ UNCHANGED <<img_time, last_img>>
    BY <1>5 DEF SyncLio, BuffersFilled
  <2>2. 1 \in DOMAIN img_time /\ Head(img_time) = img_time[1]
    BY <1>0, <2>1, TailElements
  <2>3. Head(img_time) \in ImageTimes /\ Head(img_time) <= last_img
    BY <2>2 DEF ImagesInv
  <2> QED
    BY <2>1, <2>3 DEF ImagesInv, Capture
<1>6. CASE SyncVio
  <2>1. /\ BuffersFilled /\ lio_vio_flg = "LIO" /\ lio_vio_flg' = "VIO" /\ meas'.time = Capture
        /\ img_time' = Tail(img_time) /\ last_img' = last_img
    BY <1>6 DEF SyncVio, NoMeasure
  <2>2. /\ \A i \in DOMAIN img_time' : /\ \E j \in DOMAIN img_time : img_time'[i] = img_time[j]
                                       /\ Head(img_time) < img_time'[i]
        /\ \A i, j \in DOMAIN img_time' : i < j => img_time'[i] < img_time'[j]
    BY <1>3, <2>1
  <2>3. Head(img_time) \in ImageTimes /\ Head(img_time) <= last_img
    BY <2>1 DEF ImagesInv
  <2> QED
    BY <2>1, <2>2, <2>3 DEF ImagesInv, Capture
<1> QED
  BY <1>1, <1>2, <1>4, <1>5, <1>6 DEF Next

(* The points of a cut are the points of the scan on its side of the       *)
(* image, with their offsets from the end they are counted from.           *)
IsPartOf(part, h, from) ==
  \A m \in DOMAIN part : \E j \in DOMAIN Offsets :
    part[m].time = h + Offsets[j] /\ part[m].curvature = Offsets[j] + (h - from)

LEMMA CutParts ==
  ASSUME TypeOK, BuffersFilled, NEW i \in DOMAIN lid_raw, NEW h \in Nat, h = lid_header[i],
         lid_raw[i] = ScanAt(h)
  PROVE  /\ IsPartOf(Cut(i).early, h, From) /\ IsPartOf(Cut(i).late, h, Capture)
         /\ \A m \in DOMAIN Cut(i).early : Cut(i).early[m].time < Capture
         /\ \A m \in DOMAIN Cut(i).late : Cut(i).late[m].time >= Capture
<1> DEFINE scan == ScanAt(h)
           early == {j \in DOMAIN scan : scan[j].curvature < Capture - h}
           late == DOMAIN scan \ early
<1>1. From \in Nat /\ Capture \in Nat
  BY CutTyped
<1>2. /\ scan \in Seq(Point) /\ DOMAIN scan = 1 .. Len(Offsets) /\ DOMAIN Offsets = 1 .. Len(Offsets)
      /\ \A j \in DOMAIN Offsets : /\ Offsets[j] \in Nat
                                   /\ scan[j].time = h + Offsets[j]
                                   /\ scan[j].curvature = Offsets[j]
  <2>1. /\ scan \in Seq(Point) /\ DOMAIN scan = 1 .. Len(Offsets)
        /\ \A j \in 1 .. Len(Offsets) : /\ Offsets[j] \in Nat
                                        /\ scan[j].time = h + Offsets[j]
                                        /\ scan[j].curvature = Offsets[j]
    BY ScanTyped
  <2>2. DOMAIN Offsets = 1 .. Len(Offsets)
    <3>1. Offsets \in Seq(Nat)
      BY FrontEndAssumption
    <3> QED
      BY <3>1
  <2> HIDE DEF scan
  <2> QED
    BY <2>1, <2>2
<1>3. Cut(i) = [early |-> Shift(Kept(scan, early), h - From),
                late |-> Shift(Kept(scan, late), h - Capture)]
  BY DEF Cut
<1> HIDE DEF scan
<1>4. ASSUME NEW good \in SUBSET DOMAIN scan, NEW from \in Nat
      PROVE  /\ IsPartOf(Shift(Kept(scan, good), h - from), h, from)
             /\ \A m \in DOMAIN Shift(Kept(scan, good), h - from) :
                  \E j \in good : Shift(Kept(scan, good), h - from)[m].time = h + Offsets[j]
  <2> DEFINE kept == Kept(scan, good)
             part == Shift(kept, h - from)
  <2>1. kept \in Seq(Point) /\ \E at : ArePositions(at, scan, good)
    BY <1>2, KeptPositions
  <2>2. PICK at : ArePositions(at, scan, good)
    BY <2>1
  <2>3. at \in [DOMAIN kept -> good] /\ \A m \in DOMAIN kept : kept[m] = scan[at[m]]
    BY <2>2, Zenon DEF ArePositions
  <2> HIDE DEF kept
  <2>4. h - from \in Int
    OBVIOUS
  <2>5. /\ part \in Seq(Point) /\ Len(part) = Len(kept)
        /\ \A m \in DOMAIN kept : /\ part[m].time = kept[m].time
                                  /\ part[m].curvature = kept[m].curvature + (h - from)
    BY <2>1, <2>4, Shifted
  <2>6. DOMAIN part = DOMAIN kept
    BY <2>1, <2>5
  <2> HIDE DEF part
  <2>7. \A m \in DOMAIN part : /\ at[m] \in good /\ at[m] \in DOMAIN Offsets
                               /\ part[m].time = h + Offsets[at[m]]
                               /\ part[m].curvature = Offsets[at[m]] + (h - from)
    <3> TAKE m \in DOMAIN part
    <3>1. m \in DOMAIN kept
      BY <2>6
    <3>2. at[m] \in good /\ kept[m] = scan[at[m]]
      BY <2>3, <3>1
    <3>3. at[m] \in DOMAIN scan /\ DOMAIN scan = DOMAIN Offsets
      BY <1>2, <3>2
    <3>4. scan[at[m]].time = h + Offsets[at[m]] /\ scan[at[m]].curvature = Offsets[at[m]]
      BY <1>2, <3>3
    <3>5. part[m].time = kept[m].time /\ part[m].curvature = kept[m].curvature + (h - from)
      BY <2>5, <3>1
    <3> QED
      BY <3>2, <3>3, <3>4, <3>5
  <2>8. IsPartOf(part, h, from)
    BY <2>7 DEF IsPartOf
  <2>9. \A m \in DOMAIN part : \E j \in good : part[m].time = h + Offsets[j]
    BY <2>7
  <2> QED
    BY <2>8, <2>9 DEF part, kept
<1>5. early \in SUBSET DOMAIN scan /\ late \in SUBSET DOMAIN scan
  OBVIOUS
<1>6. /\ \A j \in early : h + Offsets[j] < Capture
      /\ \A j \in late : h + Offsets[j] >= Capture
  <2>1. \A j \in early : Offsets[j] \in Nat /\ Offsets[j] < Capture - h
    BY <1>2
  <2>2. \A j \in late : Offsets[j] \in Nat /\ ~ (Offsets[j] < Capture - h)
    BY <1>2
  <2> HIDE DEF early, late
  <2> QED
    BY <1>1, <2>1, <2>2
<1> HIDE DEF early, late
<1>7. /\ IsPartOf(Cut(i).early, h, From)
      /\ \A m \in DOMAIN Cut(i).early : \E j \in early : Cut(i).early[m].time = h + Offsets[j]
  <2>1. Cut(i).early = Shift(Kept(scan, early), h - From)
    BY <1>3
  <2>2. /\ IsPartOf(Shift(Kept(scan, early), h - From), h, From)
        /\ \A m \in DOMAIN Shift(Kept(scan, early), h - From) :
             \E j \in early : Shift(Kept(scan, early), h - From)[m].time = h + Offsets[j]
    BY <1>1, <1>4, <1>5
  <2> QED
    BY <2>1, <2>2
<1>8. /\ IsPartOf(Cut(i).late, h, Capture)
      /\ \A m \in DOMAIN Cut(i).late : \E j \in late : Cut(i).late[m].time = h + Offsets[j]
  <2>1. Cut(i).late = Shift(Kept(scan, late), h - Capture)
    BY <1>3
  <2>2. /\ IsPartOf(Shift(Kept(scan, late), h - Capture), h, Capture)
        /\ \A m \in DOMAIN Shift(Kept(scan, late), h - Capture) :
             \E j \in late : Shift(Kept(scan, late), h - Capture)[m].time = h + Offsets[j]
    BY <1>1, <1>4, <1>5
  <2> QED
    BY <2>1, <2>2
<1> QED
  BY <1>6, <1>7, <1>8

LEMMA CutSyncLio ==
  /\ ScansFollow /\ ImagesApart /\ TypeOK /\ MotionInv
  /\ ScansInv /\ ImagesInv /\ CutInv /\ SyncLio
  => CutInv'
<1> SUFFICES ASSUME ScansFollow, ImagesApart, TypeOK, MotionInv, ScansInv, ImagesInv, CutInv, SyncLio
             PROVE  CutInv'
  OBVIOUS
<1> DEFINE k == CutCount
           n == Len(lid_header)
<1>1. /\ BuffersFilled /\ step = "spin" /\ lio_vio_flg # "LIO" /\ Capture > From
      /\ DataReach(Capture) /\ last_lio' = From /\ meas'.time = Capture
      /\ lio_vio_flg' = "LIO" /\ step' = "process"
      /\ UNCHANGED <<last_lidar, imu_need_init>>
  BY DEF SyncLio, imuVars
<1>2. /\ From \in Nat /\ Capture \in Nat /\ n \in Nat \ {0} /\ k \in 0 .. Len(lid_raw)
      /\ \A i \in 1 .. k : lid_header[i] <= Capture
      /\ k < Len(lid_raw) => ~ (lid_header[k + 1] <= Capture)
  BY <1>1, CutTyped DEF CutCount
<1>3. /\ lid_raw \in Seq(Seq(Point)) /\ lid_header \in Seq(Nat) /\ Len(lid_raw) = n
      /\ DOMAIN lid_header = 1 .. n /\ DOMAIN lid_raw = 1 .. n
      /\ \A i \in 1 .. n : lid_header[i] \in Nat
  <2>1. lid_raw \in Seq(Seq(Point)) /\ lid_header \in Seq(Nat)
    BY DEF TypeOK
  <2>2. Len(lid_raw) = n
    BY DEF ScansInv
  <2>3. DOMAIN lid_header = 1 .. n /\ DOMAIN lid_raw = 1 .. n
    BY <2>1, <2>2
  <2>4. \A i \in 1 .. n : lid_header[i] \in Nat
    BY <2>1
  <2> QED
    BY <2>1, <2>2, <2>3, <2>4
<1>4. /\ Earlies \in Seq(Seq(Point)) /\ Lates \in Seq(Seq(Point))
      /\ Len(Earlies) = k /\ Len(Lates) = k
      /\ pcl_cur' = pcl_next \o Concat(Earlies) /\ pcl_next' = Concat(Lates)
      /\ lid_header' = DropFront(lid_header, k)
  BY SyncLioResult
<1>5. \A i \in 1 .. k : Earlies[i] = Cut(i).early /\ Lates[i] = Cut(i).late
  BY DEF Earlies, Lates
<1>6. /\ lid_header' \in Seq(Nat) /\ Len(lid_header') = n - k
      /\ \A i \in 1 .. n - k : lid_header'[i] = lid_header[k + i]
  <2>1. k \in 0 .. n
    BY <1>2, <1>3
  <2>2. /\ DropFront(lid_header, k) \in Seq(Nat) /\ Len(DropFront(lid_header, k)) = n - k
        /\ \A i \in 1 .. n - k : DropFront(lid_header, k)[i] = lid_header[k + i]
    <3> HIDE DEF k
    <3> QED
      BY <1>3, <2>1, DropFrontProperties
  <2> QED
    BY <1>4, <2>2
<1>7. Span \in Nat
  BY SpanNatural
<1> HIDE DEF k, n
<1>8. ASSUME NEW i \in 1 .. k
      PROVE  /\ IsPartOf(Cut(i).early, lid_header[i], From)
             /\ IsPartOf(Cut(i).late, lid_header[i], Capture)
             /\ \A m \in DOMAIN Cut(i).early : Cut(i).early[m].time < Capture
             /\ \A m \in DOMAIN Cut(i).late : Cut(i).late[m].time >= Capture
             /\ lid_header[i] \in Nat /\ lid_header[i] <= Capture /\ meas.time <= lid_header[i]
  <2>1. i \in 1 .. n
    BY <1>2, <1>3
  <2>2. /\ lid_header[i] \in Nat /\ lid_raw[i] = ScanAt(lid_header[i]) /\ i \in DOMAIN lid_raw
        /\ meas.time <= lid_header[i]
    BY <1>3, <2>1 DEF ScansInv, CutInv
  <2> QED
    BY <1>1, <1>2, <2>2, CutParts
<1>9. \A j \in DOMAIN Offsets : Offsets[j] \in Nat /\ Offsets[j] <= Span
  <2>1. \A j \in 1 .. Len(Offsets) : Offsets[j] \in Nat /\ Offsets[j] <= Span
    BY <1>2, ScanTyped
  <2>2. Offsets \in Seq(Nat)
    BY FrontEndAssumption
  <2> QED
    BY <2>1, <2>2
<1>10. \A i \in DOMAIN pcl_next' :
         /\ pcl_next'[i].time = meas'.time + pcl_next'[i].curvature
         /\ 0 <= pcl_next'[i].curvature /\ pcl_next'[i].curvature <= Span
  <2>1. OnlyOf(pcl_next', Lates, k)
    BY <1>4, ConcatElements
  <2> TAKE m \in DOMAIN pcl_next'
  <2>2. PICK i \in 1 .. k : \E l \in DOMAIN Lates[i] : pcl_next'[m] = Lates[i][l]
    BY <2>1 DEF OnlyOf
  <2>3. PICK l \in DOMAIN Cut(i).late : pcl_next'[m] = Cut(i).late[l]
    BY <1>5, <2>2
  <2>4. PICK j \in DOMAIN Offsets :
          /\ pcl_next'[m].time = lid_header[i] + Offsets[j]
          /\ pcl_next'[m].curvature = Offsets[j] + (lid_header[i] - Capture)
    BY <1>8, <2>3 DEF IsPartOf
  <2>5. lid_header[i] + Offsets[j] >= Capture
    BY <1>8, <2>3, <2>4
  <2>6. Offsets[j] \in Nat /\ Offsets[j] <= Span /\ lid_header[i] \in Nat /\ lid_header[i] <= Capture
    BY <1>8, <1>9
  <2> QED
    BY <1>1, <1>2, <1>7, <2>4, <2>5, <2>6
<1>11. \A i \in DOMAIN lid_header' : meas'.time <= lid_header'[i]
  <2> TAKE i \in DOMAIN lid_header'
  <2>0. k \in Nat /\ n \in Nat /\ k <= n /\ i \in 1 .. n - k
    <3>1. DOMAIN lid_header' = 1 .. n - k
      BY <1>6
    <3> QED
      BY <1>2, <1>3, <3>1
  <2>1. /\ k + 1 \in 1 .. n /\ k + i \in 1 .. n /\ k < n
        /\ k + i = k + 1 \/ k + 1 < k + i
    BY <2>0
  <2>2. ~ (lid_header[k + 1] <= Capture)
    BY <1>2, <1>3, <2>1
  <2>3. lid_header[k + 1] \in Nat /\ lid_header[k + i] \in Nat
    BY <1>3, <2>1
  <2>4. lid_header[k + 1] = lid_header[k + i] \/ lid_header[k + 1] < lid_header[k + i]
    BY <1>3, <2>1 DEF ScansInv
  <2> QED
    <3>1. lid_header'[i] = lid_header[k + i]
      BY <1>6, <2>0
    <3>2. Capture <= lid_header[k + i]
      BY <1>2, <2>2, <2>3, <2>4
    <3> QED
      BY <1>1, <3>1, <3>2
<1>12. last_lidar' \in ScanTimes /\ meas'.time <= last_lidar' + Span
  <2>1. lid_raw # <<>> /\ n \in 1 .. n
    BY <1>1, <1>2 DEF BuffersFilled
  <2>2. last_lidar = lid_header[n]
    BY <2>1 DEF ScansInv, LastOf, n
  <2>3. lid_header[n] \in ScanTimes /\ lid_raw[n] = ScanAt(lid_header[n]) /\ lid_header[n] \in Nat
    BY <1>3, <2>1 DEF ScansInv
  <2>4. LastOf(lid_raw[n]).curvature = Span
    <3>1. /\ Len(ScanAt(lid_header[n])) = Len(Offsets) /\ Len(Offsets) \in Nat \ {0}
          /\ \A i \in 1 .. Len(Offsets) : ScanAt(lid_header[n])[i].curvature = Offsets[i]
      BY <2>3, ScanTyped
    <3>2. Len(Offsets) \in 1 .. Len(Offsets)
      BY <3>1
    <3> QED
      BY <2>3, <3>1, <3>2 DEF LastOf, Span
  <2>5. LidNewest = last_lidar + Span
    BY <1>3, <2>2, <2>4 DEF LidNewest, LastOf, n
  <2> QED
    BY <1>1, <2>2, <2>3, <2>5 DEF DataReach
<1>13. ASSUME ~ imu_need_init
       PROVE  \A i \in DOMAIN pcl_cur' :
                /\ From + pcl_cur'[i].curvature = pcl_cur'[i].time
                /\ From <= pcl_cur'[i].time /\ pcl_cur'[i].time <= Capture
  <2>1. lio_vio_flg = "VIO"
    BY <1>1, <1>13 DEF MotionInv, TypeOK
  <2>2. last_lio = meas.time
    BY <1>1, <1>13, <2>1 DEF CutInv
  <2>3. meas.time \in Nat /\ From = meas.time
    BY <2>2 DEF TypeOK, From
  <2>4. meas.time + Span <= Capture
    <3>1. PICK s \in ImageTimes :
            /\ meas.time = s + ExposureTime
            /\ \A i \in DOMAIN img_time : s < img_time[i]
      BY <2>1 DEF ImagesInv
    <3>2. img_time \in Seq(Nat) /\ img_time # <<>>
      BY <1>1 DEF TypeOK, BuffersFilled
    <3>3. 1 \in DOMAIN img_time /\ Head(img_time) = img_time[1]
      BY <3>2, TailElements
    <3>4. Head(img_time) \in ImageTimes /\ s + Span <= Head(img_time)
      BY <3>1, <3>3 DEF ImagesInv, ImagesApart
    <3>5. s \in Nat /\ Head(img_time) \in Nat /\ ExposureTime \in Nat
      BY <3>4, FrontEndAssumption
    <3> QED
      BY <1>7, <3>1, <3>4, <3>5 DEF Capture
  <2>5. pcl_next \in Seq(Point)
    BY DEF TypeOK
  <2>6. Concat(Earlies) \in Seq(Point) /\ OnlyOf(Concat(Earlies), Earlies, k)
    BY <1>4, ConcatElements
  <2>7. IsJoin(pcl_cur', pcl_next, Concat(Earlies))
    BY <1>4, <2>5, <2>6, JoinedElements
  <2>8. ASSUME NEW i \in DOMAIN pcl_next
        PROVE  /\ From + pcl_next[i].curvature = pcl_next[i].time
               /\ From <= pcl_next[i].time /\ pcl_next[i].time <= Capture
    <3>1. /\ pcl_next[i].time = meas.time + pcl_next[i].curvature
          /\ 0 <= pcl_next[i].curvature /\ pcl_next[i].curvature <= Span
      BY DEF CutInv
    <3>2. pcl_next[i].curvature \in Int
      <4>1. pcl_next[i] \in Point
        BY <2>5
      <4> QED
        BY <4>1 DEF Point
    <3> QED
      BY <1>2, <1>7, <2>3, <2>4, <3>1, <3>2
  <2>9. ASSUME NEW m \in DOMAIN Concat(Earlies)
        PROVE  /\ From + Concat(Earlies)[m].curvature = Concat(Earlies)[m].time
               /\ From <= Concat(Earlies)[m].time /\ Concat(Earlies)[m].time <= Capture
    <3> DEFINE p == Concat(Earlies)[m]
    <3>1. PICK i \in 1 .. k : \E l \in DOMAIN Earlies[i] : p = Earlies[i][l]
      BY <2>6 DEF OnlyOf
    <3>2. PICK l \in DOMAIN Cut(i).early : p = Cut(i).early[l]
      BY <1>5, <3>1
    <3> HIDE DEF p
    <3>3. PICK j \in DOMAIN Offsets :
            /\ p.time = lid_header[i] + Offsets[j]
            /\ p.curvature = Offsets[j] + (lid_header[i] - From)
      BY <1>8, <3>2 DEF IsPartOf
    <3>4. lid_header[i] + Offsets[j] < Capture
      BY <1>8, <3>2, <3>3
    <3>5. Offsets[j] \in Nat /\ lid_header[i] \in Nat /\ meas.time <= lid_header[i]
      BY <1>8, <1>9
    <3>6. From + p.curvature = p.time /\ From <= p.time /\ p.time <= Capture
      BY <1>2, <2>3, <3>3, <3>4, <3>5
    <3> QED
      BY <3>6 DEF p
  <2> TAKE i \in DOMAIN pcl_cur'
  <2>10. \/ i \in DOMAIN pcl_next /\ pcl_cur'[i] = pcl_next[i]
         \/ /\ i - Len(pcl_next) \in DOMAIN Concat(Earlies)
            /\ pcl_cur'[i] = Concat(Earlies)[i - Len(pcl_next)]
    BY <2>7 DEF IsJoin
  <2> QED
    BY <2>8, <2>9, <2>10
<1>14. PointTimesConsistent'
  BY <1>1, <1>13 DEF PointTimesConsistent
<1> QED
  BY <1>1, <1>10, <1>11, <1>12, <1>14 DEF CutInv

LEMMA CutStep ==
  /\ ScansFollow /\ ImagesApart /\ TypeOK /\ KeyframeInv /\ MotionInv
  /\ ScansInv /\ ImagesInv /\ CutInv /\ [Next]_vars
  => CutInv'
<1> SUFFICES ASSUME ScansFollow, ImagesApart, TypeOK, KeyframeInv, MotionInv,
                    ScansInv, ImagesInv, CutInv, [Next]_vars
             PROVE  CutInv'
  OBVIOUS
<1>0. /\ lid_header \in Seq(Nat) /\ meas.time \in Nat /\ last_lio \in Nat \cup {-1}
      /\ imu_need_init \in BOOLEAN /\ lio_vio_flg \in {"WAIT", "LIO", "VIO"}
  BY DEF TypeOK
<1> USE DEF CutInv, PointTimesConsistent, LioPending
<1>1. CASE ImageCallback \/ ImuCallback \/ RtkCallback \/ UNCHANGED vars
  <2>1. UNCHANGED <<lid_header, last_lidar, step, lio_vio_flg, meas, pcl_cur, pcl_next,
                    last_lio, imu_need_init>>
    BY <1>1 DEF ImageCallback, ImuCallback, RtkCallback, vars, bufferVars, syncVars, imuVars,
                outVars
  <2> QED
    BY <2>1
<1>2. CASE LidarCallback
  <2>1. UNCHANGED <<step, lio_vio_flg, meas, pcl_cur, pcl_next, last_lio, imu_need_init>>
    BY <1>2 DEF LidarCallback, syncVars, imuVars
  <2>2. PICK head \in ScanTimes, empty \in BOOLEAN :
          /\ head # last_lidar
          /\ head < last_lidar => rewinds < MaxRewinds
          /\ IF empty THEN UNCHANGED <<lid_header, last_lidar>>
                      ELSE lid_header' = Append(lid_header, head) /\ last_lidar' = head
    BY <1>2 DEF LidarCallback
  <2>3. CASE empty
    BY <2>1, <2>2, <2>3
  <2>4. CASE ~ empty
    <3>1. lid_header' = Append(lid_header, head) /\ last_lidar' = head
      BY <2>2, <2>4
    <3>2. head \in Nat /\ last_lidar \in Int /\ rewinds \in Nat /\ MaxRewinds = 0 /\ Span \in Nat
      BY FrontEndAssumption, SpanNatural DEF TypeOK, ScansFollow
    <3>3. last_lidar < head
      BY <2>2, <3>2
    <3>4. meas.time <= head /\ head <= head + Span
      <4>1. CASE lio_vio_flg = "WAIT"
        BY <3>2, <4>1
      <4>2. CASE lio_vio_flg # "WAIT"
        <5>1. last_lidar \in ScanTimes /\ meas.time <= last_lidar + Span
          BY <4>2
        <5>2. last_lidar + Span <= head
          BY <3>3, <5>1 DEF ScansFollow
        <5> QED
          BY <1>0, <3>2, <5>1, <5>2
      <4> QED
        BY <4>1, <4>2
    <3>5. \A i \in DOMAIN lid_header' : meas.time <= lid_header'[i]
      BY <1>0, <3>1, <3>2, <3>4, AppendElements
    <3>6. meas.time <= head + Span
      BY <1>0, <3>2, <3>4
    <3> QED
      BY <2>1, <3>1, <3>5, <3>6
  <2> QED
    BY <2>3, <2>4
<1>3. CASE ThrowImage \/ WaitForData
  <2>1. /\ BuffersFilled /\ step = "spin" /\ last_lio' = From
        /\ UNCHANGED <<lid_header, last_lidar, step, lio_vio_flg, meas, pcl_cur, pcl_next,
                       imu_need_init>>
    BY <1>3 DEF ThrowImage, WaitForData, bufferVars, imuVars
  <2>2. ~imu_need_init /\ lio_vio_flg = "VIO" => last_lio' = last_lio
    BY <1>0, <2>1 DEF From
  <2> QED
    BY <2>1, <2>2
<1>4. CASE SyncLio
  BY <1>4, CutSyncLio
<1>5. CASE SyncVio
  <2>1. /\ lio_vio_flg = "LIO" /\ lio_vio_flg' = "VIO" /\ step' = "process"
        /\ meas'.time = Capture
        /\ UNCHANGED <<lid_header, last_lidar, pcl_cur, pcl_next, last_lio, imu_need_init>>
    BY <1>5 DEF SyncVio, NoMeasure, imuVars
  <2>2. meas.time = Capture
    BY <2>1 DEF ImagesInv, Capture
  <2> QED
    BY <2>1, <2>2
<1>6. CASE InitializeImu
  <2>1. /\ imu_need_init /\ step = "process" /\ step' = "spin"
        /\ UNCHANGED <<lid_header, last_lidar, lio_vio_flg, meas, pcl_cur, pcl_next, last_lio>>
    BY <1>6 DEF InitializeImu, bufferVars
  <2>2. lio_vio_flg = "VIO" => imu_need_init'
    BY <1>6, <2>1 DEF InitializeImu, MotionInv
  <2> QED
    BY <2>1, <2>2
<1>7. CASE ProcessLio
  <2>1. /\ lio_vio_flg = "LIO" /\ step' = "spin"
        /\ UNCHANGED <<lid_header, last_lidar, lio_vio_flg, meas, pcl_cur, pcl_next, imu_need_init>>
    BY <1>7 DEF ProcessLio, bufferVars
  <2> QED
    BY <2>1
<1>8. CASE ProcessVio
  <2>1. /\ lio_vio_flg = "VIO" /\ step' = "spin" /\ last_lio' = meas.time
        /\ UNCHANGED <<lid_header, last_lidar, lio_vio_flg, meas, pcl_cur, pcl_next, imu_need_init>>
    BY <1>8 DEF ProcessVio, bufferVars
  <2> QED
    BY <2>1
<1> QED
  BY <1>1, <1>2, <1>3, <1>4, <1>5, <1>6, <1>7, <1>8 DEF Next

LEMMA ScansStep == ScansFollow /\ TypeOK /\ ScansInv /\ [Next]_vars => ScansInv'
<1> SUFFICES ASSUME ScansFollow, TypeOK, ScansInv, [Next]_vars PROVE ScansInv'
  OBVIOUS
<1>1. CASE UNCHANGED <<lid_raw, lid_header, last_lidar>>
  BY <1>1 DEF ScansInv
<1>2. LidarCallback \/ SyncLio \/ UNCHANGED <<lid_raw, lid_header, last_lidar>>
  BY DEF Next, ImageCallback, ImuCallback, RtkCallback, ThrowImage, WaitForData, SyncVio,
         InitializeImu, ProcessLio, ProcessVio, vars, bufferVars
<1> QED
  BY <1>1, <1>2, ScansLidar, ScansCut

(* The offset a LIO step knows a point by is its true time, for the points *)
(* cut off earlier scans as well: sync_packages recounts the offsets from  *)
(* the image, and by the next LIO step the last update is that image.  It  *)
(* holds while scans follow each other and images are a scan's length      *)
(* apart; two images within one scan would leave points later than the     *)
(* second one in its interval.                                             *)
THEOREM PointTimesAreConsistent ==
  ASSUME ScansFollow, ImagesApart
  PROVE  Spec => []PointTimesConsistent
<1> DEFINE Inv == KeyframeInv /\ MotionInv /\ ScansInv /\ ImagesInv /\ CutInv
<1>1. Init => Inv
  <2> SUFFICES ASSUME Init PROVE Inv
    OBVIOUS
  <2>1. KeyframeInv /\ MotionInv
    BY DEF Init, KeyframeInv, KeyframesConsistent, MotionInv, MotionCovered, LioPending, NoLio
  <2>2. ScansInv /\ ImagesInv
    BY DEF Init, ScansInv, ImagesInv
  <2>3. CutInv
    BY DEF Init, CutInv, PointTimesConsistent, LioPending, NoMeasure
  <2> QED
    BY <2>1, <2>2, <2>3
<1>2. TypeOK /\ BuffersSorted /\ Inv /\ [Next]_vars => Inv'
  BY KeyframeStep, MotionStep, ScansStep, ImagesStep, CutStep
<1>3. Inv => PointTimesConsistent
  BY DEF CutInv
<1>4. Spec => [](TypeOK /\ BuffersSorted)
  BY FrontEndTypeCorrect
<1> HIDE DEF Inv
<1> QED
  BY <1>1, <1>2, <1>3, <1>4, PTL DEF Spec

(***************************************************************************)
(* Points conserved                                                        *)
(***************************************************************************)

LEMMA SumOfFour ==
  ASSUME NEW p \in Nat, NEW q \in Nat, NEW u \in Nat, NEW v \in Nat
  PROVE  (p + u) + (q + v) = (p + q) + (u + v)
OBVIOUS

(* Two loops over sequences of sequences whose i-th parts have L elements  *)
(* together give L elements for each part.                                 *)
LEMMA ConcatLengths ==
  ASSUME NEW S, NEW a \in Seq(Seq(S)), NEW b \in Seq(Seq(S)), Len(a) = Len(b),
         NEW L \in Nat, \A i \in 1 .. Len(a) : Len(a[i]) + Len(b[i]) = L
  PROVE  Len(Concat(a)) + Len(Concat(b)) = L * Len(a)
<1>1. PICK f : ArePartial(f, S, a)
  BY ConcatRounds
<1>2. PICK g : ArePartial(g, S, b)
  BY ConcatRounds
<1> DEFINE n == Len(a)
           bad == {k \in 0 .. n : Len(f[k]) + Len(g[k]) # L * k}
<1>3. /\ n \in Nat /\ f[0] = <<>> /\ g[0] = <<>> /\ Concat(a) = f[n] /\ Concat(b) = g[n]
      /\ f \in [0 .. n -> Seq(S)] /\ g \in [0 .. n -> Seq(S)]
      /\ \A k \in 1 .. n : f[k] = f[k - 1] \o a[k] /\ g[k] = g[k - 1] \o b[k]
  <2>0. n \in Nat /\ Len(b) = n
    OBVIOUS
  <2>1. /\ f[0] = <<>> /\ Concat(a) = f[n] /\ f \in [0 .. n -> Seq(S)]
        /\ \A k \in 1 .. n : f[k] = f[k - 1] \o a[k]
    BY <1>1 DEF ArePartial
  <2>2. /\ g[0] = <<>> /\ Concat(b) = g[n] /\ g \in [0 .. n -> Seq(S)]
        /\ \A k \in 1 .. n : g[k] = g[k - 1] \o b[k]
    BY <1>2 DEF ArePartial
  <2> HIDE DEF n
  <2> QED
    BY <2>0, <2>1, <2>2
<1>4. \A k \in 1 .. n : a[k] \in Seq(S) /\ b[k] \in Seq(S)
  OBVIOUS
<1>5. \A k \in 1 .. n : Len(a[k]) + Len(b[k]) = L
  OBVIOUS
<1> HIDE DEF n
<1>6. bad = {}
  <2> SUFFICES ASSUME bad # {} PROVE FALSE
    OBVIOUS
  <2>1. bad \in SUBSET Nat
    BY <1>3
  <2>2. PICK k \in bad : \A m \in bad : k <= m
    BY <2>1, LeastMember
  <2>3. k # 0
    <3>1. Len(f[0]) + Len(g[0]) = 0 /\ L * 0 = 0
      BY <1>3
    <3> QED
      BY <2>2, <3>1
  <2>4. k - 1 \in 0 .. n /\ k \in 1 .. n /\ ~ (k <= k - 1) /\ k \in Nat
    BY <1>3, <2>2, <2>3
  <2>5. Len(f[k - 1]) + Len(g[k - 1]) = L * (k - 1)
    BY <2>2, <2>4
  <2>6. f[k - 1] \in Seq(S) /\ g[k - 1] \in Seq(S) /\ a[k] \in Seq(S) /\ b[k] \in Seq(S)
    BY <1>3, <1>4, <2>4
  <2>7. /\ Len(f[k]) = Len(f[k - 1]) + Len(a[k]) /\ Len(g[k]) = Len(g[k - 1]) + Len(b[k])
        /\ Len(f[k - 1]) \in Nat /\ Len(a[k]) \in Nat /\ Len(g[k - 1]) \in Nat /\ Len(b[k]) \in Nat
    <3>1. f[k] = f[k - 1] \o a[k] /\ g[k] = g[k - 1] \o b[k]
      BY <1>3, <2>4
    <3> QED
      BY <2>6, <3>1
  <2>8. Len(a[k]) + Len(b[k]) = L
    BY <1>5, <2>4
  <2>9. L * (k - 1) + L = L * k
    BY <2>4
  <2>10. Len(f[k]) + Len(g[k]) = L * k
    <3> DEFINE p == Len(f[k - 1])
               q == Len(g[k - 1])
               u == Len(a[k])
               v == Len(b[k])
               z == L * (k - 1)
    <3>1. /\ p \in Nat /\ q \in Nat /\ u \in Nat /\ v \in Nat
          /\ p + q = z /\ u + v = L
      BY <2>5, <2>7, <2>8
    <3>2. Len(f[k]) + Len(g[k]) = (p + u) + (q + v)
      BY <2>7
    <3> HIDE DEF p, q, u, v, z, bad
    <3>3. (p + u) + (q + v) = z + L
      <4>1. (p + u) + (q + v) = (p + q) + (u + v)
        BY <3>1, SumOfFour
      <4> QED
        BY <3>1, <4>1, Zenon
    <3> QED
      BY <2>9, <3>2, <3>3 DEF z
  <2> QED
    BY <2>2, <2>10
<1>7. n \in 0 .. n
  BY <1>3
<1>8. Len(f[n]) + Len(g[n]) = L * n
  BY <1>6, <1>7
<1> QED
  BY <1>3, <1>8 DEF n

(* Scans that all have L elements.                                         *)
LEMMA ConcatOfEqual ==
  ASSUME NEW S, NEW a \in Seq(Seq(S)), NEW L \in Nat, \A i \in 1 .. Len(a) : Len(a[i]) = L
  PROVE  Len(Concat(a)) = L * Len(a)
<1>1. \A i \in 1 .. Len(a) : Len(a[i]) + Len(a[i]) = 2 * L
  OBVIOUS
<1>2. Len(Concat(a)) + Len(Concat(a)) = (2 * L) * Len(a)
  <2>1. 2 * L \in Nat
    OBVIOUS
  <2> QED
    BY <1>1, <2>1, ConcatLengths
<1>3. Concat(a) \in Seq(S)
  BY ConcatElements
<1>4. Len(Concat(a)) \in Nat /\ Len(a) \in Nat
  BY <1>3
<1>5. (2 * L) * Len(a) = 2 * (L * Len(a)) /\ L * Len(a) \in Nat
  BY <1>4
<1> QED
  BY <1>2, <1>4, <1>5

(* What is kept and what is left make up the buffer.                       *)
LEMMA KeptAndLeft ==
  ASSUME NEW S, NEW s \in Seq(S), NEW good \in SUBSET DOMAIN s
  PROVE  Len(Kept(s, good)) + Len(Kept(s, DOMAIN s \ good)) = Len(s)
<1> DEFINE left == DOMAIN s \ good
           n == Len(s)
<1>1. PICK f : AreRounds(f, S, s, good)
  BY KeptRounds, Zenon
<1>2. PICK g : AreRounds(g, S, s, left)
  BY KeptRounds, Zenon
<1> DEFINE bad == {k \in 0 .. n : Len(f[k]) + Len(g[k]) # k}
<1>3. /\ n \in Nat /\ f[0] = <<>> /\ g[0] = <<>>
      /\ Kept(s, good) = f[n] /\ Kept(s, left) = g[n]
      /\ f \in [0 .. n -> Seq(S)] /\ g \in [0 .. n -> Seq(S)]
      /\ \A k \in 1 .. n : f[k] = IF k \in good THEN Append(f[k - 1], s[k]) ELSE f[k - 1]
      /\ \A k \in 1 .. n : g[k] = IF k \in left THEN Append(g[k - 1], s[k]) ELSE g[k - 1]
  <2> HIDE DEF left
  <2> QED
    BY <1>1, <1>2 DEF AreRounds
<1>4. \A k \in 1 .. n : (k \in left <=> k \notin good) /\ s[k] \in S
  OBVIOUS
<1> HIDE DEF n, left
<1>5. bad = {}
  <2> SUFFICES ASSUME bad # {} PROVE FALSE
    OBVIOUS
  <2>1. bad \in SUBSET Nat
    BY <1>3
  <2>2. PICK k \in bad : \A m \in bad : k <= m
    BY <2>1, LeastMember
  <2>3. k # 0
    <3>1. Len(f[0]) + Len(g[0]) = 0
      BY <1>3
    <3> QED
      BY <2>2, <3>1
  <2>4. k - 1 \in 0 .. n /\ k \in 1 .. n /\ ~ (k <= k - 1) /\ k \in Nat
    BY <1>3, <2>2, <2>3
  <2>5. Len(f[k - 1]) + Len(g[k - 1]) = k - 1
    BY <2>2, <2>4
  <2>6. f[k - 1] \in Seq(S) /\ g[k - 1] \in Seq(S) /\ s[k] \in S
    BY <1>3, <1>4, <2>4
  <2>7. /\ Len(f[k - 1]) \in Nat /\ Len(g[k - 1]) \in Nat
        /\ Len(Append(f[k - 1], s[k])) = Len(f[k - 1]) + 1
        /\ Len(Append(g[k - 1], s[k])) = Len(g[k - 1]) + 1
    BY <2>6
  <2>8. \/ f[k] = Append(f[k - 1], s[k]) /\ g[k] = g[k - 1]
        \/ f[k] = f[k - 1] /\ g[k] = Append(g[k - 1], s[k])
    BY <1>3, <1>4, <2>4
  <2>9. Len(f[k]) + Len(g[k]) = k
    <3> DEFINE p == Len(f[k - 1])
               q == Len(g[k - 1])
    <3>1. p \in Nat /\ q \in Nat /\ p + q = k - 1
      BY <2>5, <2>7
    <3>2. \/ Len(f[k]) = p + 1 /\ Len(g[k]) = q
          \/ Len(f[k]) = p /\ Len(g[k]) = q + 1
      BY <2>7, <2>8
    <3> HIDE DEF p, q, bad
    <3>3. (p + 1) + q = k /\ p + (q + 1) = k
      BY <2>4, <3>1
    <3> QED
      BY <3>2, <3>3
  <2> QED
    BY <2>2, <2>9
<1>6. n \in 0 .. n
  BY <1>3
<1>7. Len(f[n]) + Len(g[n]) = n
  BY <1>5, <1>6
<1> QED
  BY <1>3, <1>7 DEF n, left

(* Each point of a scan that is cut ends up on one side.                   *)
HasTimesOf(part, scan, good) ==
  \A j \in good : \E m \in DOMAIN part : part[m].time = scan[j].time

LEMMA CutWhole ==
  ASSUME TypeOK, BuffersFilled, NEW i \in DOMAIN lid_raw, NEW h \in Nat, h = lid_header[i],
         lid_raw[i] = ScanAt(h)
  PROVE  /\ Len(Cut(i).early) + Len(Cut(i).late) = Len(Offsets)
         /\ \A j \in DOMAIN Offsets :
              \/ \E m \in DOMAIN Cut(i).early : Cut(i).early[m].time = h + Offsets[j]
              \/ \E m \in DOMAIN Cut(i).late : Cut(i).late[m].time = h + Offsets[j]
<1> DEFINE scan == ScanAt(h)
           early == {j \in DOMAIN scan : scan[j].curvature < Capture - h}
           late == DOMAIN scan \ early
<1>1. From \in Nat /\ Capture \in Nat
  BY CutTyped
<1>2. /\ scan \in Seq(Point) /\ Len(scan) = Len(Offsets) /\ DOMAIN scan = 1 .. Len(Offsets)
      /\ \A j \in 1 .. Len(Offsets) : scan[j].time = h + Offsets[j]
  <2> HIDE DEF scan
  <2> QED
    BY ScanTyped DEF scan
<1>3. Cut(i) = [early |-> Shift(Kept(scan, early), h - From),
                late |-> Shift(Kept(scan, late), h - Capture)]
  BY DEF Cut
<1>4. DOMAIN Offsets = 1 .. Len(Offsets)
  <2>1. Offsets \in Seq(Nat)
    BY FrontEndAssumption
  <2> QED
    BY <2>1
<1> HIDE DEF scan
<1>5. ASSUME NEW good \in SUBSET DOMAIN scan, NEW by \in Int
      PROVE  /\ Len(Shift(Kept(scan, good), by)) = Len(Kept(scan, good))
             /\ HasTimesOf(Shift(Kept(scan, good), by), scan, good)
  <2> DEFINE kept == Kept(scan, good)
             part == Shift(kept, by)
  <2>1. kept \in Seq(Point) /\ \E at : ArePositions(at, scan, good)
    BY <1>2, KeptPositions
  <2>2. PICK at : ArePositions(at, scan, good)
    BY <2>1
  <2>3. /\ \A m \in DOMAIN kept : kept[m] = scan[at[m]]
        /\ \A j \in good : \E m \in DOMAIN kept : at[m] = j
    BY <2>2, Zenon DEF ArePositions
  <2> HIDE DEF kept
  <2>4. /\ part \in Seq(Point) /\ Len(part) = Len(kept)
        /\ \A m \in DOMAIN kept : part[m].time = kept[m].time
    BY <2>1, Shifted
  <2>5. DOMAIN part = DOMAIN kept
    BY <2>1, <2>4
  <2> HIDE DEF part
  <2>6. HasTimesOf(part, scan, good)
    BY <2>3, <2>4, <2>5 DEF HasTimesOf
  <2> QED
    BY <2>4, <2>6 DEF part, kept
<1>6. /\ early \in SUBSET DOMAIN scan /\ late \in SUBSET DOMAIN scan
      /\ \A j \in DOMAIN scan : j \in early \/ j \in late
      /\ h - From \in Int /\ h - Capture \in Int
  BY <1>1
<1>7. Len(Kept(scan, early)) + Len(Kept(scan, late)) = Len(scan)
  <2> HIDE DEF early
  <2> QED
    BY <1>2, <1>6, KeptAndLeft
<1> HIDE DEF early, late
<1>8. /\ Len(Cut(i).early) = Len(Kept(scan, early))
      /\ HasTimesOf(Cut(i).early, scan, early)
  <2>1. Cut(i).early = Shift(Kept(scan, early), h - From)
    BY <1>3
  <2> QED
    BY <1>5, <1>6, <2>1
<1>9. /\ Len(Cut(i).late) = Len(Kept(scan, late))
      /\ HasTimesOf(Cut(i).late, scan, late)
  <2>1. Cut(i).late = Shift(Kept(scan, late), h - Capture)
    BY <1>3
  <2> QED
    BY <1>5, <1>6, <2>1
<1>10. Len(Cut(i).early) + Len(Cut(i).late) = Len(Offsets)
  BY <1>2, <1>7, <1>8, <1>9
<1>11. ASSUME NEW j \in DOMAIN Offsets
       PROVE  \/ \E m \in DOMAIN Cut(i).early : Cut(i).early[m].time = h + Offsets[j]
              \/ \E m \in DOMAIN Cut(i).late : Cut(i).late[m].time = h + Offsets[j]
  <2>1. j \in DOMAIN scan /\ scan[j].time = h + Offsets[j]
    BY <1>2, <1>4
  <2> QED
    BY <1>6, <1>8, <1>9, <2>1 DEF HasTimesOf
<1> QED
  BY <1>10, <1>11

LEMMA TimesTyped ==
  ASSUME NEW points \in Seq(Point)
  PROVE  /\ Times(points) \in Seq(Nat) /\ Len(Times(points)) = Len(points)
         /\ DOMAIN Times(points) = DOMAIN points
         /\ \A i \in DOMAIN points : Times(points)[i] = points[i].time
<1>1. \A i \in DOMAIN points : points[i].time \in Nat
  <2>1. \A i \in DOMAIN points : points[i] \in Point
    OBVIOUS
  <2> QED
    BY <2>1 DEF Point
<1>2. DOMAIN points = 1 .. Len(points) /\ Len(points) \in Nat
  OBVIOUS
<1>3. Times(points) = [i \in 1 .. Len(points) |-> points[i].time]
  BY <1>2 DEF Times
<1>4. Times(points) \in Seq(Nat) /\ Len(Times(points)) = Len(points)
  BY <1>1, <1>2, <1>3
<1> QED
  BY <1>2, <1>3, <1>4

LEMMA TimesElements ==
  ASSUME NEW points \in Seq(Point), NEW x
  PROVE  x \in Range(Times(points)) <=> \E i \in DOMAIN points : x = points[i].time
BY TimesTyped DEF Range

LEMMA RangeJoin ==
  ASSUME NEW S, NEW a \in Seq(S), NEW b \in Seq(S)
  PROVE  Range(a \o b) = Range(a) \cup Range(b)
<1> DEFINE c == a \o b
<1>1. IsJoin(c, a, b)
  BY JoinedElements
<1> HIDE DEF c
<1>2. \A x : x \in Range(c) => x \in Range(a) \cup Range(b)
  BY <1>1 DEF IsJoin, Range
<1>3. \A x : x \in Range(a) \cup Range(b) => x \in Range(c)
  BY <1>1 DEF IsJoin, Range
<1> QED
  BY <1>2, <1>3 DEF c

LEMMA TimesJoin ==
  ASSUME NEW a \in Seq(Point), NEW b \in Seq(Point)
  PROVE  Range(Times(a \o b)) = Range(Times(a)) \cup Range(Times(b))
<1> DEFINE c == a \o b
<1>1. IsJoin(c, a, b) /\ c \in Seq(Point)
  BY JoinedElements
<1> HIDE DEF c
<1>2. \A x : x \in Range(Times(c)) <=> \E i \in DOMAIN c : x = c[i].time
  BY <1>1, TimesElements
<1>3. \A x : x \in Range(Times(a)) <=> \E i \in DOMAIN a : x = a[i].time
  BY TimesElements
<1>4. \A x : x \in Range(Times(b)) <=> \E i \in DOMAIN b : x = b[i].time
  BY TimesElements
<1>5. \A x : x \in Range(Times(c)) => x \in Range(Times(a)) \cup Range(Times(b))
  BY <1>1, <1>2, <1>3, <1>4 DEF IsJoin
<1>6. \A x : x \in Range(Times(a)) => x \in Range(Times(c))
  BY <1>1, <1>2, <1>3 DEF IsJoin
<1>7. \A x : x \in Range(Times(b)) => x \in Range(Times(c))
  BY <1>1, <1>2, <1>4 DEF IsJoin
<1> QED
  BY <1>5, <1>6, <1>7 DEF c

LEMMA CutConserves ==
  ASSUME TypeOK, ScansInv, SyncLio
  PROVE  /\ Len(Concat(Earlies)) + Len(Concat(Lates)) = Len(Offsets) * CutCount
         /\ CutCount \in Nat /\ Len(lid_raw') = Len(lid_raw) - CutCount
         /\ RawTimes = RawTimes' \cup Range(Times(Concat(Earlies))) \cup Range(Times(Concat(Lates)))
<1> DEFINE k == CutCount
           n == Len(lid_raw)
<1>1. /\ lid_raw \in Seq(Seq(Point)) /\ lid_header \in Seq(Nat) /\ n \in Nat
      /\ Len(lid_header) = n /\ DOMAIN lid_header = 1 .. n /\ DOMAIN lid_raw = 1 .. n
  BY DEF TypeOK, ScansInv
<1>2. /\ k \in 0 .. n /\ lid_raw' = DropFront(lid_raw, k) /\ lid_header' = DropFront(lid_header, k)
      /\ Earlies \in Seq(Seq(Point)) /\ Lates \in Seq(Seq(Point))
      /\ Len(Earlies) = k /\ Len(Lates) = k
  BY SyncLioResult
<1>3. \A i \in 1 .. n - k : lid_header'[i] = lid_header[k + i]
  <2>1. k \in 0 .. Len(lid_header) /\ Len(lid_header) = n
    BY <1>1, <1>2
  <2>2. \A i \in 1 .. Len(lid_header) - k : DropFront(lid_header, k)[i] = lid_header[k + i]
    <3> HIDE DEF k, n
    <3> QED
      BY <1>1, <2>1, DropFrontProperties
  <2> QED
    BY <1>2, <2>1, <2>2
<1>4. Len(lid_raw') = n - k /\ DOMAIN lid_raw' = 1 .. n - k
  <2>1. lid_raw' \in Seq(Seq(Point)) /\ Len(lid_raw') = n - k
    BY <1>1, <1>2, DropFrontProperties
  <2> QED
    BY <2>1
<1>5. \A i \in 1 .. k : Earlies[i] = Cut(i).early /\ Lates[i] = Cut(i).late
  BY DEF Earlies, Lates
<1>6. BuffersFilled
  BY DEF SyncLio
<1>7. /\ Concat(Earlies) \in Seq(Point) /\ OnlyOf(Concat(Earlies), Earlies, k)
      /\ AllOf(Concat(Earlies), Earlies, k)
      /\ Concat(Lates) \in Seq(Point) /\ OnlyOf(Concat(Lates), Lates, k)
      /\ AllOf(Concat(Lates), Lates, k)
  BY <1>2, ConcatElements
<1> HIDE DEF k, n
<1>8. ASSUME NEW i \in 1 .. k
      PROVE  /\ i \in DOMAIN lid_raw
             /\ IsPartOf(Cut(i).early, lid_header[i], From)
             /\ IsPartOf(Cut(i).late, lid_header[i], Capture)
             /\ Len(Cut(i).early) + Len(Cut(i).late) = Len(Offsets)
             /\ \A j \in DOMAIN Offsets :
                  \/ \E m \in DOMAIN Cut(i).early :
                       Cut(i).early[m].time = lid_header[i] + Offsets[j]
                  \/ \E m \in DOMAIN Cut(i).late :
                       Cut(i).late[m].time = lid_header[i] + Offsets[j]
  <2>1. i \in 1 .. n
    BY <1>1, <1>2
  <2>2. lid_header[i] \in Nat /\ i \in DOMAIN lid_raw
    BY <1>1, <2>1
  <2>3. lid_raw[i] = ScanAt(lid_header[i])
    BY <1>1, <2>1 DEF ScansInv
  <2> QED
    BY <1>6, <2>2, <2>3, CutParts, CutWhole
<1>9. Len(Concat(Earlies)) + Len(Concat(Lates)) = Len(Offsets) * k
  <2>1. \A i \in 1 .. Len(Earlies) : Len(Earlies[i]) + Len(Lates[i]) = Len(Offsets)
    BY <1>2, <1>5, <1>8
  <2>2. Len(Offsets) \in Nat
    BY FrontEndAssumption
  <2>3. Len(Concat(Earlies)) + Len(Concat(Lates)) = Len(Offsets) * Len(Earlies)
    <3> DEFINE size == Len(Offsets)
    <3> HIDE DEF size
    <3>1. size \in Nat /\ \A i \in 1 .. Len(Earlies) : Len(Earlies[i]) + Len(Lates[i]) = size
      BY <2>1, <2>2 DEF size
    <3>2. Len(Earlies) = Len(Lates)
      BY <1>2
    <3>3. Len(Concat(Earlies)) + Len(Concat(Lates)) = size * Len(Earlies)
      BY <1>2, <3>1, <3>2, ConcatLengths
    <3> QED
      BY <3>3 DEF size
  <2> QED
    BY <1>2, <2>3
<1> DEFINE E == Range(Times(Concat(Earlies)))
           L == Range(Times(Concat(Lates)))
<1>10. \A x : x \in E <=> \E m \in DOMAIN Concat(Earlies) : x = Concat(Earlies)[m].time
  BY <1>7, TimesElements
<1>11. \A x : x \in L <=> \E m \in DOMAIN Concat(Lates) : x = Concat(Lates)[m].time
  BY <1>7, TimesElements
<1> HIDE DEF E, L
<1>12. ASSUME NEW x \in RawTimes PROVE x \in RawTimes' \cup E \cup L
  <2>1. PICK i \in 1 .. n, j \in DOMAIN Offsets : x = lid_header[i] + Offsets[j]
    BY <1>1 DEF RawTimes
  <2>2. CASE i \in 1 .. k
    <3>1. CASE \E m \in DOMAIN Cut(i).early : Cut(i).early[m].time = lid_header[i] + Offsets[j]
      <4>1. PICK m \in DOMAIN Earlies[i] : Earlies[i][m].time = x
        BY <1>5, <2>1, <2>2, <3>1
      <4> QED
        BY <1>7, <1>10, <2>2, <4>1 DEF AllOf
    <3>2. CASE \E m \in DOMAIN Cut(i).late : Cut(i).late[m].time = lid_header[i] + Offsets[j]
      <4>1. PICK m \in DOMAIN Lates[i] : Lates[i][m].time = x
        BY <1>5, <2>1, <2>2, <3>2
      <4> QED
        BY <1>7, <1>11, <2>2, <4>1 DEF AllOf
    <3> QED
      BY <1>8, <2>2, <3>1, <3>2
  <2>3. CASE i \notin 1 .. k
    <3>1. i - k \in 1 .. n - k /\ k + (i - k) = i
      BY <1>1, <1>2, <2>3
    <3>2. lid_header'[i - k] = lid_header[i]
      BY <1>3, <3>1
    <3> QED
      BY <1>4, <2>1, <3>1, <3>2 DEF RawTimes
  <2> QED
    BY <2>2, <2>3
<1>13. ASSUME NEW x \in RawTimes' PROVE x \in RawTimes
  <2>1. PICK i \in 1 .. n - k, j \in DOMAIN Offsets : x = lid_header'[i] + Offsets[j]
    BY <1>4 DEF RawTimes
  <2>2. k + i \in DOMAIN lid_raw
    BY <1>1, <1>2
  <2> QED
    BY <1>3, <2>1, <2>2 DEF RawTimes
<1>14. ASSUME NEW x \in E PROVE x \in RawTimes
  <2>1. PICK m \in DOMAIN Concat(Earlies) : x = Concat(Earlies)[m].time
    BY <1>10
  <2>2. PICK i \in 1 .. k : \E l \in DOMAIN Earlies[i] : Concat(Earlies)[m] = Earlies[i][l]
    BY <1>7 DEF OnlyOf
  <2>3. PICK l \in DOMAIN Cut(i).early : x = Cut(i).early[l].time
    BY <1>5, <2>1, <2>2
  <2>4. PICK j \in DOMAIN Offsets : x = lid_header[i] + Offsets[j]
    BY <1>8, <2>3 DEF IsPartOf
  <2>5. i \in DOMAIN lid_raw
    BY <1>8
  <2> QED
    BY <2>4, <2>5 DEF RawTimes
<1>15. ASSUME NEW x \in L PROVE x \in RawTimes
  <2>1. PICK m \in DOMAIN Concat(Lates) : x = Concat(Lates)[m].time
    BY <1>11
  <2>2. PICK i \in 1 .. k : \E l \in DOMAIN Lates[i] : Concat(Lates)[m] = Lates[i][l]
    BY <1>7 DEF OnlyOf
  <2>3. PICK l \in DOMAIN Cut(i).late : x = Cut(i).late[l].time
    BY <1>5, <2>1, <2>2
  <2>4. PICK j \in DOMAIN Offsets : x = lid_header[i] + Offsets[j]
    BY <1>8, <2>3 DEF IsPartOf
  <2>5. i \in DOMAIN lid_raw
    BY <1>8
  <2> QED
    BY <2>4, <2>5 DEF RawTimes
<1>16. RawTimes = RawTimes' \cup E \cup L
  BY <1>12, <1>13, <1>14, <1>15
<1>17. k \in Nat
  BY <1>1, <1>2
<1> QED
  BY <1>4, <1>9, <1>16, <1>17 DEF E, L, k, n

(* The LiDAR clock does not jump back and the last point of a scan is      *)
(* earlier than the first of the next: a point is told by its time.        *)
ScansApart == MaxRewinds = 0 /\ \A g, h \in ScanTimes : g < h => g + Span < h

(* A scan brings as many points as there are offsets, all new.             *)
LEMMA ScanBrings ==
  ASSUME NEW head \in Nat
  PROVE  /\ IsFiniteSet(Range(Times(ScanAt(head))))
         /\ Cardinality(Range(Times(ScanAt(head)))) = Len(Offsets) /\ Len(Offsets) \in Nat
         /\ \A x : x \in Range(Times(ScanAt(head))) <=> \E j \in DOMAIN Offsets : x = head + Offsets[j]
         /\ \A x \in Range(Times(ScanAt(head))) : x \in Nat /\ head <= x /\ x <= head + Span
<1> DEFINE L == Len(Offsets)
           T == Range(Times(ScanAt(head)))
           f == [j \in 1 .. L |-> head + Offsets[j]]
<1>1. /\ L \in Nat /\ DOMAIN Offsets = 1 .. L
      /\ \A j \in 1 .. L : Offsets[j] \in Nat
      /\ \A i, j \in 1 .. L : i < j => Offsets[i] < Offsets[j]
  BY FrontEndAssumption
<1>2. /\ ScanAt(head) \in Seq(Point) /\ DOMAIN ScanAt(head) = 1 .. L
      /\ \A j \in 1 .. L : ScanAt(head)[j].time = head + Offsets[j] /\ Offsets[j] <= Span
  BY ScanTyped
<1> HIDE DEF L
<1>3. \A x : x \in T <=> \E j \in 1 .. L : x = head + Offsets[j]
  <2>1. \A x : x \in T <=> \E i \in DOMAIN ScanAt(head) : x = ScanAt(head)[i].time
    BY <1>2, TimesElements
  <2> QED
    BY <1>2, <2>1
<1> HIDE DEF T
<1>4. f \in Bijection(1 .. L, T)
  <2>1. f \in [1 .. L -> T]
    BY <1>3
  <2>2. \A i, j \in 1 .. L : f[i] = f[j] => i = j
    <3> SUFFICES ASSUME NEW i \in 1 .. L, NEW j \in 1 .. L, f[i] = f[j] PROVE i = j
      OBVIOUS
    <3>1. Offsets[i] \in Nat /\ Offsets[j] \in Nat /\ head + Offsets[i] = head + Offsets[j]
      BY <1>1
    <3>2. ~ (Offsets[i] < Offsets[j]) /\ ~ (Offsets[j] < Offsets[i])
      BY <3>1
    <3>3. ~ (i < j) /\ ~ (j < i)
      BY <1>1, <3>2
    <3> QED
      BY <1>1, <3>3
  <2>3. \A x \in T : \E j \in 1 .. L : f[j] = x
    BY <1>3
  <2> HIDE DEF f
  <2>4. f \in Injection(1 .. L, T)
    BY <2>1, <2>2 DEF Injection, IsInjective
  <2>5. f \in Surjection(1 .. L, T)
    BY <2>1, <2>3, Zenon DEF Surjection
  <2> QED
    BY <2>4, <2>5 DEF Bijection
<1>5. IsFiniteSet(1 .. L) /\ Cardinality(1 .. L) = L
  <2>1. 1 \in Int /\ L \in Int /\ (IF 1 > L THEN 0 ELSE L - 1 + 1) = L
    BY <1>1
  <2> QED
    BY <2>1, FS_Interval
<1>6. IsFiniteSet(T) /\ Cardinality(T) = L
  <2>1. ExistsBijection(1 .. L, T)
    BY <1>4 DEF ExistsBijection
  <2> QED
    BY <1>5, <2>1, FS_Bijection
<1>7. \A x \in T : x \in Nat /\ head <= x /\ x <= head + Span
  BY <1>1, <1>2, <1>3, SpanNatural
<1> QED
  BY <1>1, <1>3, <1>6, <1>7 DEF L, T

LEMMA RawAppended ==
  ASSUME NEW head \in Nat
  PROVE  /\ TypeOK /\ ScansInv
         /\ lid_raw' = Append(lid_raw, ScanAt(head)) /\ lid_header' = Append(lid_header, head)
         => /\ Len(lid_raw) \in Nat /\ Len(lid_raw') = Len(lid_raw) + 1
            /\ RawTimes' = RawTimes \cup Range(Times(ScanAt(head)))
<1>0. SUFFICES ASSUME /\ TypeOK /\ ScansInv
                      /\ lid_raw' = Append(lid_raw, ScanAt(head))
                      /\ lid_header' = Append(lid_header, head)
               PROVE  /\ Len(lid_raw) \in Nat /\ Len(lid_raw') = Len(lid_raw) + 1
                      /\ RawTimes' = RawTimes \cup Range(Times(ScanAt(head)))
  OBVIOUS
<1> DEFINE n == Len(lid_raw)
           T == Range(Times(ScanAt(head)))
<1>1. /\ lid_raw \in Seq(Seq(Point)) /\ lid_header \in Seq(Nat) /\ Len(lid_header) = n
      /\ ScanAt(head) \in Seq(Point)
  BY <1>0, ScanTyped DEF TypeOK, ScansInv
<1>2. /\ Len(lid_raw') = n + 1 /\ DOMAIN lid_raw' = 1 .. n + 1 /\ DOMAIN lid_raw = 1 .. n
      /\ n \in Nat /\ \A i \in 1 .. n + 1 : i = n + 1 \/ i \in 1 .. n
  BY <1>0, <1>1, AppendElements
<1>3. lid_header'[n + 1] = head /\ \A i \in 1 .. n : lid_header'[i] = lid_header[i]
  <2>1. /\ lid_header'[Len(lid_header) + 1] = head
        /\ \A i \in 1 .. Len(lid_header) : lid_header'[i] = lid_header[i]
    BY <1>0, <1>1, AppendElements
  <2> QED
    BY <1>1, <2>1
<1>4. \A x : x \in T <=> \E j \in DOMAIN Offsets : x = head + Offsets[j]
  BY ScanBrings
<1> HIDE DEF n, T
<1>5. ASSUME NEW x \in RawTimes' PROVE x \in RawTimes \cup T
  <2>1. PICK i \in 1 .. n + 1, j \in DOMAIN Offsets : x = lid_header'[i] + Offsets[j]
    BY <1>2 DEF RawTimes
  <2>2. CASE i = n + 1
    BY <1>3, <1>4, <2>1, <2>2
  <2>3. CASE i \in 1 .. n
    BY <1>2, <1>3, <2>1, <2>3 DEF RawTimes
  <2> QED
    BY <1>2, <2>2, <2>3
<1>6. ASSUME NEW x \in RawTimes PROVE x \in RawTimes'
  <2>1. PICK i \in 1 .. n, j \in DOMAIN Offsets : x = lid_header[i] + Offsets[j]
    BY <1>2 DEF RawTimes
  <2>2. i \in DOMAIN lid_raw' /\ x = lid_header'[i] + Offsets[j]
    BY <1>2, <1>3, <2>1
  <2> QED
    BY <2>2 DEF RawTimes
<1>7. ASSUME NEW x \in T PROVE x \in RawTimes'
  <2>1. PICK j \in DOMAIN Offsets : x = head + Offsets[j]
    BY <1>4
  <2>2. n + 1 \in DOMAIN lid_raw' /\ x = lid_header'[n + 1] + Offsets[j]
    BY <1>2, <1>3, <2>1
  <2> QED
    BY <2>2 DEF RawTimes
<1> QED
  BY <1>2, <1>5, <1>6, <1>7 DEF n, T

LEMMA CountArithmetic ==
  ASSUME NEW a \in Nat, NEW b \in Nat, NEW c \in Nat, NEW d \in Nat, NEW e \in Nat,
         NEW size \in Nat, NEW n \in Nat, NEW k \in Nat
  PROVE  /\ a + b + size * (n + 1) + c + 0 = (a + b + size * n + c + 0) + size
         /\ d + e = size * k =>
              a + b + size * (n - k) + e + (c + d) = a + b + size * n + c + 0
         /\ (a + d) + b + size * n + c + 0 = a + b + size * n + c + d
         /\ a + (b + d) + size * n + c + 0 = a + b + size * n + c + d
<1>1. size * (n + 1) = size * n + size /\ size * n \in Nat
  OBVIOUS
<1>2. size * (n - k) = size * n - size * k /\ size * k \in Nat
  OBVIOUS
<1> DEFINE x == size * n
           y == size * k
<1> HIDE DEF x, y
<1>3. x \in Nat /\ y \in Nat
  BY <1>1, <1>2 DEF x, y
<1>4. a + b + (x + size) + c + 0 = (a + b + x + c + 0) + size
  BY <1>3
<1>5. d + e = y => a + b + (x - y) + e + (c + d) = a + b + x + c + 0
  BY <1>3
<1>6. /\ (a + d) + b + x + c + 0 = a + b + x + c + d
      /\ a + (b + d) + x + c + 0 = a + b + x + c + d
  BY <1>3
<1> QED
  BY <1>1, <1>2, <1>4, <1>5, <1>6 DEF x, y

LEMMA CountsNatural ==
  ASSUME TypeOK
  PROVE  /\ Len(processed) \in Nat /\ Len(dropped) \in Nat /\ Len(pcl_next) \in Nat
         /\ Len(pcl_cur) \in Nat /\ Len(lid_raw) \in Nat /\ Len(Offsets) \in Nat
<1>1. /\ processed \in Seq(Nat) /\ dropped \in Seq(Nat) /\ pcl_next \in Seq(Point)
      /\ pcl_cur \in Seq(Point) /\ lid_raw \in Seq(Seq(Point)) /\ Offsets \in Seq(Nat)
  BY FrontEndAssumption DEF TypeOK
<1> QED
  BY <1>1

LEMMA ConservedLidar ==
  ScansApart /\ TypeOK /\ ScansInv /\ ConservedInv /\ LidarCallback => ConservedInv'
<1> SUFFICES ASSUME ScansApart, TypeOK, ScansInv, ConservedInv, LidarCallback PROVE ConservedInv'
  OBVIOUS
<1>1. PICK head \in ScanTimes, empty \in BOOLEAN :
        /\ head # last_lidar
        /\ head < last_lidar => rewinds < MaxRewinds
        /\ LET kept == IF head < last_lidar THEN <<>> ELSE lid_raw
           IN  IF empty
                 THEN /\ lid_raw' = kept
                      /\ UNCHANGED <<lid_header, last_lidar, delivered>>
                 ELSE /\ lid_raw' = Append(kept, ScanAt(head))
                      /\ lid_header' = Append(lid_header, head)
                      /\ last_lidar' = head
                      /\ delivered' = delivered \cup Range(Times(ScanAt(head)))
  BY DEF LidarCallback
<1>2. /\ head \in Nat /\ last_lidar \in Int /\ rewinds \in Nat /\ MaxRewinds = 0 /\ Span \in Nat
      /\ delivered \in SUBSET Nat
  BY FrontEndAssumption, SpanNatural DEF TypeOK, ScansApart
<1>3. ~ (head < last_lidar) /\ last_lidar < head
  BY <1>1, <1>2
<1>4. /\ step = "spin" /\ step' = "spin"
      /\ UNCHANGED <<processed, dropped, pcl_next, pcl_cur>>
  BY DEF LidarCallback, syncVars, outVars
<1>5. ~ LioPending /\ ~ LioPending'
  BY <1>4 DEF LioPending
<1>6. CASE empty
  <2>1. UNCHANGED <<lid_raw, lid_header, last_lidar, delivered>>
    BY <1>1, <1>3, <1>6
  <2> QED
    BY <1>4, <1>5, <2>1 DEF ConservedInv, PointCount, HeldTimes, RawTimes
<1>7. CASE ~ empty
  <2> DEFINE T == Range(Times(ScanAt(head)))
  <2>1. /\ lid_raw' = Append(lid_raw, ScanAt(head)) /\ lid_header' = Append(lid_header, head)
        /\ last_lidar' = head /\ delivered' = delivered \cup T
    BY <1>1, <1>3, <1>7
  <2>2. /\ Len(lid_raw) \in Nat /\ Len(lid_raw') = Len(lid_raw) + 1
        /\ RawTimes' = RawTimes \cup T
    BY <1>2, <2>1, RawAppended
  <2>3. /\ IsFiniteSet(T) /\ Cardinality(T) = Len(Offsets)
        /\ \A x \in T : x \in Nat /\ head <= x /\ x <= head + Span
    BY <1>2, ScanBrings
  <2> HIDE DEF T
  <2>4. IsFiniteSet(delivered) /\ Cardinality(delivered) = PointCount /\ delivered = HeldTimes
    BY DEF ConservedInv
  <2>5. \A p \in delivered : p \in Nat /\ p < head
    <3> TAKE p \in delivered
    <3>1. p \in Nat /\ last_lidar \in ScanTimes /\ p <= last_lidar + Span
      BY <1>2 DEF ConservedInv
    <3>2. last_lidar + Span < head
      BY <1>3, <3>1 DEF ScansApart
    <3> QED
      BY <1>2, <3>1, <3>2
  <2>6. delivered \cap T = {}
    <3>1. \A p \in delivered : p \notin T
      BY <1>2, <2>3, <2>5
    <3> QED
      BY <3>1
  <2>7. /\ IsFiniteSet(delivered')
        /\ Cardinality(delivered') = Cardinality(delivered) + Len(Offsets)
    <3>1. Cardinality(delivered \cap T) = 0
      BY <2>6, FS_EmptySet
    <3>2. Cardinality(delivered) \in Nat
      BY <2>4, FS_CardinalityType
    <3>3. /\ IsFiniteSet(delivered \cup T)
          /\ Cardinality(delivered \cup T)
               = Cardinality(delivered) + Cardinality(T) - Cardinality(delivered \cap T)
      BY <2>3, <2>4, FS_Union
    <3> QED
      BY <2>1, <2>3, <3>1, <3>2, <3>3, CountsNatural
  <2>8. PointCount' = PointCount + Len(Offsets)
    <3> DEFINE size == Len(Offsets)
               n == Len(lid_raw)
    <3>1. PointCount = Len(processed) + Len(dropped) + size * n + Len(pcl_next) + 0
      BY <1>5 DEF PointCount
    <3>2. PointCount' = Len(processed) + Len(dropped) + size * (n + 1) + Len(pcl_next) + 0
      BY <1>4, <1>5, <2>2 DEF PointCount
    <3> QED
      BY <3>1, <3>2, CountsNatural, CountArithmetic
  <2>9. HeldTimes' = HeldTimes \cup T
    BY <1>4, <1>5, <2>2 DEF HeldTimes
  <2>10. \A p \in delivered' : last_lidar' \in ScanTimes /\ p <= last_lidar' + Span
    BY <1>2, <2>1, <2>3, <2>5
  <2> QED
    BY <2>1, <2>4, <2>7, <2>8, <2>9, <2>10 DEF ConservedInv
<1> QED
  BY <1>6, <1>7

LEMMA ConservedCut == TypeOK /\ ScansInv /\ ConservedInv /\ SyncLio => ConservedInv'
<1> SUFFICES ASSUME TypeOK, ScansInv, ConservedInv, SyncLio PROVE ConservedInv'
  OBVIOUS
<1> DEFINE E == Concat(Earlies)
           L == Concat(Lates)
           size == Len(Offsets)
           n == Len(lid_raw)
           k == CutCount
<1>1. /\ step = "spin" /\ step' = "process" /\ lio_vio_flg' = "LIO"
      /\ UNCHANGED <<last_lidar, delivered, processed, dropped>>
  BY DEF SyncLio, outVars
<1>2. ~ LioPending /\ LioPending'
  BY <1>1 DEF LioPending
<1>3. /\ Earlies \in Seq(Seq(Point)) /\ Lates \in Seq(Seq(Point))
      /\ pcl_cur' = pcl_next \o E /\ pcl_next' = L
  BY SyncLioResult
<1>4. E \in Seq(Point) /\ L \in Seq(Point) /\ pcl_next \in Seq(Point)
  BY <1>3, ConcatElements DEF TypeOK
<1>5. /\ Len(E) + Len(L) = size * k /\ k \in Nat /\ Len(lid_raw') = n - k
      /\ RawTimes = RawTimes' \cup Range(Times(E)) \cup Range(Times(L))
  BY CutConserves
<1> HIDE DEF E, L, k
<1>6. Len(E) \in Nat /\ Len(L) \in Nat /\ Len(pcl_cur') = Len(pcl_next) + Len(E)
  BY <1>3, <1>4, JoinedElements
<1>7. Range(Times(pcl_cur')) = Range(Times(pcl_next)) \cup Range(Times(E))
  BY <1>3, <1>4, TimesJoin
<1>8. PointCount' = PointCount
  <2>1. PointCount = Len(processed) + Len(dropped) + size * n + Len(pcl_next) + 0
    BY <1>2 DEF PointCount
  <2>2. PointCount' = Len(processed) + Len(dropped) + size * (n - k) + Len(L)
                      + (Len(pcl_next) + Len(E))
    BY <1>1, <1>2, <1>3, <1>5, <1>6 DEF PointCount
  <2> QED
    BY <1>5, <1>6, <2>1, <2>2, CountsNatural, CountArithmetic
<1>9. HeldTimes' = HeldTimes
  <2>1. HeldTimes = Range(processed) \cup Range(dropped) \cup RawTimes \cup Range(Times(pcl_next)) \cup {}
    BY <1>2 DEF HeldTimes
  <2>2. HeldTimes' = Range(processed) \cup Range(dropped) \cup RawTimes' \cup Range(Times(L))
                     \cup Range(Times(pcl_cur'))
    BY <1>1, <1>2, <1>3 DEF HeldTimes
  <2> QED
    BY <1>5, <1>7, <2>1, <2>2
<1> QED
  BY <1>1, <1>8, <1>9 DEF ConservedInv

(* A LIO step ends: its points have been processed or dropped.             *)
LEMMA ConservedLio ==
  TypeOK /\ ConservedInv /\ (InitializeImu \/ ProcessLio) => ConservedInv'
<1> SUFFICES ASSUME TypeOK, ConservedInv, InitializeImu \/ ProcessLio PROVE ConservedInv'
  OBVIOUS
<1> DEFINE size == Len(Offsets)
           n == Len(lid_raw)
           P == Times(pcl_cur)
<1>1. /\ step = "process" /\ step' = "spin"
      /\ UNCHANGED <<lid_raw, lid_header, last_lidar, delivered, pcl_next>>
  BY DEF InitializeImu, ProcessLio, bufferVars
<1>2. ~ LioPending'
  BY <1>1 DEF LioPending
<1>3. RawTimes' = RawTimes
  BY <1>1 DEF RawTimes
<1>4. processed \in Seq(Nat) /\ dropped \in Seq(Nat) /\ P \in Seq(Nat) /\ Len(P) = Len(pcl_cur)
  BY TimesTyped DEF TypeOK
<1>5. \/ LioPending /\ processed' = processed \o P /\ dropped' = dropped
      \/ LioPending /\ processed' = processed /\ dropped' = dropped \o P
      \/ ~ LioPending /\ processed' = processed /\ dropped' = dropped
  BY <1>1 DEF InitializeImu, ProcessLio, LioPending
<1> HIDE DEF P
<1>6. /\ Len(processed \o P) = Len(processed) + Len(pcl_cur)
      /\ Len(dropped \o P) = Len(dropped) + Len(pcl_cur)
      /\ Range(processed \o P) = Range(processed) \cup Range(P)
      /\ Range(dropped \o P) = Range(dropped) \cup Range(P)
  <2>1. /\ Len(processed \o P) = Len(processed) + Len(P)
        /\ Len(dropped \o P) = Len(dropped) + Len(P)
    BY <1>4, JoinedElements
  <2>2. Range(processed \o P) = Range(processed) \cup Range(P)
    BY <1>4, RangeJoin
  <2>3. Range(dropped \o P) = Range(dropped) \cup Range(P)
    BY <1>4, RangeJoin
  <2> QED
    BY <1>4, <2>1, <2>2, <2>3
<1>7. PointCount' = PointCount
  <2>1. PointCount' = Len(processed') + Len(dropped') + size * n + Len(pcl_next) + 0
    BY <1>1, <1>2 DEF PointCount
  <2>2. CASE ~ LioPending
    BY <1>5, <2>1, <2>2 DEF PointCount
  <2>3. CASE LioPending
    <3>1. PointCount = Len(processed) + Len(dropped) + size * n + Len(pcl_next) + Len(pcl_cur)
      BY <2>3 DEF PointCount
    <3>2. \/ /\ Len(processed') = Len(processed) + Len(pcl_cur)
             /\ Len(dropped') = Len(dropped)
          \/ /\ Len(processed') = Len(processed)
             /\ Len(dropped') = Len(dropped) + Len(pcl_cur)
      BY <1>5, <1>6, <2>3
    <3> QED
      BY <2>1, <3>1, <3>2, CountsNatural, CountArithmetic
  <2> QED
    BY <2>2, <2>3
<1>8. HeldTimes' = HeldTimes
  <2>1. HeldTimes' = Range(processed') \cup Range(dropped') \cup RawTimes
                     \cup Range(Times(pcl_next)) \cup {}
    BY <1>1, <1>2, <1>3 DEF HeldTimes
  <2>2. CASE ~ LioPending
    BY <1>5, <2>1, <2>2 DEF HeldTimes
  <2>3. CASE LioPending
    <3>1. HeldTimes = Range(processed) \cup Range(dropped) \cup RawTimes
                      \cup Range(Times(pcl_next)) \cup Range(P)
      BY <2>3 DEF HeldTimes, P
    <3>2. Range(processed') \cup Range(dropped') = Range(processed) \cup Range(dropped) \cup Range(P)
      BY <1>5, <1>6, <2>3
    <3> QED
      BY <2>1, <3>1, <3>2
  <2> QED
    BY <2>2, <2>3
<1> QED
  BY <1>1, <1>7, <1>8 DEF ConservedInv

LEMMA ConservedStep ==
  ScansApart /\ TypeOK /\ ScansInv /\ ConservedInv /\ [Next]_vars => ConservedInv'
<1> SUFFICES ASSUME ScansApart, TypeOK, ScansInv, ConservedInv, [Next]_vars PROVE ConservedInv'
  OBVIOUS
<1>1. CASE /\ UNCHANGED <<lid_raw, lid_header, last_lidar, delivered, processed, dropped, pcl_next>>
           /\ \/ ~ LioPending /\ ~ LioPending'
              \/ UNCHANGED <<step, lio_vio_flg, pcl_cur>>
  <2>1. RawTimes' = RawTimes
    BY <1>1 DEF RawTimes
  <2>2. PointCount' = PointCount /\ HeldTimes' = HeldTimes
    <3>1. CASE ~ LioPending /\ ~ LioPending'
      BY <1>1, <2>1, <3>1 DEF PointCount, HeldTimes
    <3>2. CASE UNCHANGED <<step, lio_vio_flg, pcl_cur>>
      <4>1. LioPending' = LioPending
        BY <3>2 DEF LioPending
      <4> QED
        BY <1>1, <2>1, <3>2, <4>1 DEF PointCount, HeldTimes
    <3> QED
      BY <1>1, <3>1, <3>2
  <2> QED
    BY <1>1, <2>2 DEF ConservedInv
<1>2. CASE UNCHANGED vars
  <2>1. /\ UNCHANGED <<lid_raw, lid_header, last_lidar, delivered, processed, dropped, pcl_next>>
        /\ UNCHANGED <<step, lio_vio_flg, pcl_cur>>
    BY <1>2 DEF vars, bufferVars, syncVars, outVars
  <2> QED
    BY <1>1, <2>1
<1>3. CASE ImageCallback \/ ImuCallback \/ RtkCallback
  <2>1. /\ UNCHANGED <<lid_raw, lid_header, last_lidar, delivered, processed, dropped, pcl_next>>
        /\ UNCHANGED <<step, lio_vio_flg, pcl_cur>>
    BY <1>3 DEF ImageCallback, ImuCallback, RtkCallback, syncVars, outVars
  <2> QED
    BY <1>1, <2>1
<1>4. CASE ThrowImage \/ WaitForData
  <2>1. /\ UNCHANGED <<lid_raw, lid_header, last_lidar, delivered, processed, dropped, pcl_next>>
        /\ UNCHANGED <<step, lio_vio_flg, pcl_cur>>
    BY <1>4 DEF ThrowImage, WaitForData, bufferVars, outVars
  <2> QED
    BY <1>1, <2>1
<1>5. CASE SyncVio
  <2>1. UNCHANGED <<lid_raw, lid_header, last_lidar, delivered, processed, dropped, pcl_next>>
    BY <1>5 DEF SyncVio, outVars
  <2>2. ~ LioPending /\ ~ LioPending'
    BY <1>5 DEF SyncVio, LioPending
  <2> QED
    BY <1>1, <2>1, <2>2
<1>6. CASE ProcessVio
  <2>1. UNCHANGED <<lid_raw, lid_header, last_lidar, delivered, processed, dropped, pcl_next>>
    BY <1>6 DEF ProcessVio, bufferVars
  <2>2. ~ LioPending /\ ~ LioPending'
    BY <1>6 DEF ProcessVio, LioPending
  <2> QED
    BY <1>1, <2>1, <2>2
<1> QED
  BY <1>2, <1>3, <1>4, <1>5, <1>6, ConservedLidar, ConservedCut, ConservedLio DEF Next

(* What the counts and the times say of the sequences.                     *)
LEMMA ConservedMeaning == TypeOK /\ ScansInv /\ ConservedInv => PointsConserved
<1> SUFFICES ASSUME TypeOK, ScansInv, ConservedInv PROVE PointsConserved
  OBVIOUS
<1> DEFINE raw == Concat(lid_raw)
           cur == IF LioPending THEN pcl_cur ELSE <<>>
           buffered == raw \o pcl_next \o cur
           done == processed \o dropped
           size == Len(Offsets)
           n == Len(lid_raw)
<1>1. /\ lid_raw \in Seq(Seq(Point)) /\ pcl_next \in Seq(Point) /\ pcl_cur \in Seq(Point)
      /\ processed \in Seq(Nat) /\ dropped \in Seq(Nat) /\ lid_header \in Seq(Nat)
      /\ Len(lid_header) = n
  BY DEF TypeOK, ScansInv
<1>2. \A i \in 1 .. n : lid_header[i] \in Nat /\ lid_raw[i] = ScanAt(lid_header[i])
  <2>1. DOMAIN lid_header = 1 .. n
    BY <1>1
  <2>2. \A i \in DOMAIN lid_header : lid_header[i] \in Nat
    BY <1>1
  <2> QED
    BY <2>1, <2>2 DEF ScansInv
<1>3. /\ size \in Nat /\ DOMAIN Offsets = 1 .. size
      /\ \A i \in 1 .. n : /\ Len(lid_raw[i]) = size /\ DOMAIN lid_raw[i] = 1 .. size
                           /\ \A j \in 1 .. size : lid_raw[i][j].time = lid_header[i] + Offsets[j]
  <2>1. size \in Nat /\ DOMAIN Offsets = 1 .. size
    BY FrontEndAssumption
  <2>2. ASSUME NEW i \in 1 .. n
        PROVE  /\ Len(lid_raw[i]) = size /\ DOMAIN lid_raw[i] = 1 .. size
               /\ \A j \in 1 .. size : lid_raw[i][j].time = lid_header[i] + Offsets[j]
    <3>1. lid_header[i] \in Nat /\ lid_raw[i] = ScanAt(lid_header[i])
      BY <1>2
    <3> QED
      BY <3>1, ScanTyped
  <2> QED
    BY <2>1, <2>2
<1>4. /\ raw \in Seq(Point) /\ OnlyOf(raw, lid_raw, n) /\ AllOf(raw, lid_raw, n)
  BY <1>1, ConcatElements
<1>5. Len(raw) = size * n
  <2> HIDE DEF size
  <2> QED
    BY <1>1, <1>3, ConcatOfEqual
<1>6. /\ cur \in Seq(Point)
      /\ Len(cur) = IF LioPending THEN Len(pcl_cur) ELSE 0
      /\ Range(Times(cur)) = IF LioPending THEN Range(Times(pcl_cur)) ELSE {}
  <2>1. CASE LioPending
    BY <1>1, <2>1
  <2>2. CASE ~ LioPending
    BY <2>2 DEF Times, Range
  <2> QED
    BY <2>1, <2>2
<1> HIDE DEF raw, cur, size, n
<1>7. /\ raw \o pcl_next \in Seq(Point) /\ Len(raw \o pcl_next) = Len(raw) + Len(pcl_next)
      /\ Range(Times(raw \o pcl_next)) = Range(Times(raw)) \cup Range(Times(pcl_next))
  BY <1>1, <1>4, JoinedElements, TimesJoin
<1>8. /\ buffered \in Seq(Point) /\ Len(buffered) = Len(raw) + Len(pcl_next) + Len(cur)
      /\ Range(Times(buffered)) = Range(Times(raw)) \cup Range(Times(pcl_next)) \cup Range(Times(cur))
  <2> DEFINE front == raw \o pcl_next
  <2> HIDE DEF front
  <2>1. front \in Seq(Point) /\ buffered = front \o cur
    BY <1>7 DEF front
  <2>2. buffered \in Seq(Point) /\ Len(buffered) = Len(front) + Len(cur)
    <3> HIDE DEF buffered
    <3> QED
      BY <1>6, <2>1, JoinedElements
  <2>3. Range(Times(buffered)) = Range(Times(front)) \cup Range(Times(cur))
    <3> HIDE DEF buffered
    <3> QED
      BY <1>6, <2>1, TimesJoin
  <2> HIDE DEF buffered
  <2> QED
    BY <1>7, <2>2, <2>3 DEF front
<1>9. /\ done \in Seq(Nat) /\ Len(done) = Len(processed) + Len(dropped)
      /\ Range(done) = Range(processed) \cup Range(dropped)
  BY <1>1, JoinedElements, RangeJoin
<1> HIDE DEF buffered, done
<1>10. Times(buffered) \in Seq(Nat) /\ Len(Times(buffered)) = Len(buffered)
  BY <1>8, TimesTyped
<1>11. /\ Len(done \o Times(buffered)) = Len(done) + Len(buffered)
       /\ Range(done \o Times(buffered)) = Range(done) \cup Range(Times(buffered))
  BY <1>9, <1>10, JoinedElements, RangeJoin
<1>12. Range(Times(raw)) = RawTimes
  <2>1. \A x : x \in Range(Times(raw)) <=> \E m \in DOMAIN raw : x = raw[m].time
    BY <1>4, TimesElements
  <2>2. DOMAIN lid_raw = 1 .. n
    BY <1>1 DEF n
  <2>3. ASSUME NEW x \in Range(Times(raw)) PROVE x \in RawTimes
    <3>1. PICK m \in DOMAIN raw : x = raw[m].time
      BY <2>1
    <3>2. PICK i \in 1 .. n : \E j \in DOMAIN lid_raw[i] : raw[m] = lid_raw[i][j]
      BY <1>4 DEF OnlyOf
    <3>3. PICK j \in 1 .. size : x = lid_header[i] + Offsets[j]
      BY <1>3, <3>1, <3>2
    <3> QED
      BY <1>3, <2>2, <3>3 DEF RawTimes
  <2>4. ASSUME NEW x \in RawTimes PROVE x \in Range(Times(raw))
    <3>1. PICK i \in 1 .. n, j \in 1 .. size : x = lid_header[i] + Offsets[j]
      BY <1>3, <2>2 DEF RawTimes
    <3>2. j \in DOMAIN lid_raw[i] /\ lid_raw[i][j].time = x
      BY <1>3, <3>1
    <3>3. PICK m \in DOMAIN raw : raw[m] = lid_raw[i][j]
      BY <1>4, <3>2 DEF AllOf
    <3> QED
      BY <2>1, <3>2, <3>3
  <2> QED
    BY <2>3, <2>4
<1>13. Range(done \o Times(buffered)) = delivered
  <2>1. delivered = HeldTimes
    BY DEF ConservedInv
  <2> QED
    BY <1>6, <1>8, <1>9, <1>11, <1>12, <2>1 DEF HeldTimes
<1>14. Cardinality(delivered) = Len(done \o Times(buffered))
  <2>1. Cardinality(delivered) = Len(processed) + Len(dropped) + size * n + Len(pcl_next) + Len(cur)
    BY <1>6 DEF ConservedInv, PointCount, size, n
  <2>2. Len(done \o Times(buffered))
        = (Len(processed) + Len(dropped)) + (size * n + Len(pcl_next) + Len(cur))
    BY <1>5, <1>8, <1>9, <1>11
  <2>3. /\ Len(processed) \in Nat /\ Len(dropped) \in Nat /\ Len(pcl_next) \in Nat
        /\ Len(cur) \in Nat /\ size * n \in Nat
    BY <1>1, <1>4, <1>5, <1>6
  <2> DEFINE total == size * n
  <2> HIDE DEF total
  <2> QED
    BY <2>1, <2>2, <2>3 DEF total
<1>15. PointsConserved = (/\ Range(done \o Times(buffered)) = delivered
                          /\ Cardinality(delivered) = Len(done \o Times(buffered)))
  BY DEF PointsConserved, done, buffered, raw, cur
<1> QED
  BY <1>13, <1>14, <1>15

(* No point is lost or doubled: every one the callbacks stored is in a     *)
(* buffer, in the LIO step at hand, processed, or dropped with the         *)
(* initialisation, and nowhere else.                                       *)
THEOREM PointsAreConserved ==
  ASSUME ScansApart
  PROVE  Spec => []PointsConserved
<1> DEFINE Inv == ScansInv /\ ConservedInv
<1>0. ScansFollow
  BY FrontEndAssumption, SpanNatural DEF ScansApart, ScansFollow
<1>1. Init => Inv
  <2> SUFFICES ASSUME Init PROVE Inv
    OBVIOUS
  <2>1. ScansInv
    BY DEF Init, ScansInv
  <2>2. ~ LioPending /\ delivered = {} /\ processed = <<>> /\ dropped = <<>>
        /\ pcl_next = <<>> /\ lid_raw = <<>>
    BY DEF Init, LioPending
  <2>3. IsFiniteSet(delivered) /\ Cardinality(delivered) = 0
    BY <2>2, FS_EmptySet
  <2>4. PointCount = 0
    <3>1. Len(Offsets) \in Nat
      BY FrontEndAssumption
    <3>2. Len(Offsets) * 0 = 0
      BY <3>1
    <3> QED
      BY <2>2, <3>2 DEF PointCount
  <2>5. HeldTimes = {}
    BY <2>2 DEF HeldTimes, RawTimes, Times, Range
  <2> QED
    BY <2>1, <2>2, <2>3, <2>4, <2>5 DEF ConservedInv
<1>2. TypeOK /\ BuffersSorted /\ Inv /\ [Next]_vars => Inv'
  BY <1>0, ScansStep, ConservedStep
<1>3. TypeOK /\ Inv => PointsConserved
  BY ConservedMeaning
<1>4. Spec => [](TypeOK /\ BuffersSorted)
  BY FrontEndTypeCorrect
<1> HIDE DEF Inv
<1> QED
  BY <1>1, <1>2, <1>3, <1>4, PTL DEF Spec
=============================================================================
