---------------------------- MODULE ProgressProofs ----------------------------
(***************************************************************************)
(* Theorems about the drivers and nodes ProgressMC puts side by side, for  *)
(* every value of their constants:                                         *)
(*   - a read of the shared stamp the camera accepts is a snapshot;        *)
(*   - the camera driver accounts for every frame and uses only a device   *)
(*     that is open and grabbing;                                          *)
(*   - the receiver's three nodes keep their sessions, descriptors and     *)
(*     clocks apart.                                                       *)
(***************************************************************************)
EXTENDS ProgressMC, TLAPS

(* Versions alternate.                                                     *)
LEMMA Parity ==
  ASSUME NEW n \in Nat
  PROVE  /\ IsOdd(n) \in BOOLEAN
         /\ IsOdd(n) => n >= 1 /\ ~IsOdd(n + 1) /\ IsOdd(n + 2)
         /\ ~IsOdd(n) => IsOdd(n + 1) /\ ~IsOdd(n + 2)
  BY DEF IsOdd

Mapped == wpc \in {"opened", "sized", "cleared", "idle", "store_low", "store_even"}

(* The words of a file are touched only through the driver's mapping.      *)
LEMMA MappedFile == TypeOK /\ Mapped => wmap \in Inodes
  BY DEF TypeOK, Mapped, Inodes, None

LEMMA ReaderFile == TypeOK /\ rpc \in {"before", "low", "after"} => rmap \in Inodes
  BY DEF TypeOK, Inodes, None

(***************************************************************************)
(* Type correctness                                                        *)
(***************************************************************************)
LEMMA TypeInit == Init => TypeOK
<1> SUFFICES ASSUME Init PROVE TypeOK
  OBVIOUS
<1>1. NoPair \in [sequence : Nat, stamp : Nat]
  BY DEF NoPair
<1>2. /\ high \in [Inodes -> Nat] /\ low \in [Inodes -> Nat] /\ sized \in [Inodes -> BOOLEAN]
  BY DEF Init
<1>3. accepted \in [pair : [sequence : Nat, stamp : Nat],
                    was : [sequence : Nat, stamp : Nat], undisturbed : BOOLEAN]
  BY <1>1 DEF Init
<1>4. snapshot \in [sequence : Nat, stamp : Nat]
  BY <1>1 DEF Init
<1>5. /\ created \in 0 .. MaxInodes /\ path \in 0 .. MaxInodes /\ wmap \in 0 .. MaxInodes
      /\ rmap \in 0 .. MaxInodes /\ attempt \in 0 .. ReadAttempts
      /\ timeouts \in 0 .. RemapAfter - 1
  BY SharedStampAssumption DEF Init, None
<1>6. /\ wpc = "down" /\ wmap = None /\ rpc = "frame" /\ undisturbed \in BOOLEAN
  BY DEF Init
<1>7. /\ wseq \in Nat /\ stamp \in Nat /\ crashes \in Nat /\ sequence_before \in Nat
      /\ value \in Nat /\ last_shared_sequence \in Nat
  BY DEF Init
<1> QED BY <1>2, <1>3, <1>4, <1>5, <1>6, <1>7 DEF TypeOK

LEMMA TypeDriver == TypeOK /\ Driver => TypeOK'
<1> SUFFICES ASSUME TypeOK, Driver PROVE TypeOK'
  OBVIOUS
<1> USE SharedStampAssumption
<1>1. CASE StartDriver
  BY <1>1 DEF StartDriver, TypeOK, fileVars, readVars, cameraVars
<1>2. CASE OpenShare
  BY <1>2 DEF OpenShare, TypeOK, readVars, cameraVars, None
<1>3. CASE ShareFails
  BY <1>3 DEF ShareFails, TypeOK, fileVars, readVars, cameraVars, None
<1>4. CASE SizeShare
  BY <1>4 DEF SizeShare, TypeOK, readVars, cameraVars
<1>5. CASE ClearHigh
  BY <1>5 DEF ClearHigh, TypeOK, readVars, cameraVars
<1>6. CASE ClearLow
  BY <1>6, MappedFile DEF ClearLow, Mapped, TypeOK, readVars, cameraVars
<1>7. CASE PublishUnshared
  BY <1>7 DEF PublishUnshared, TypeOK, fileVars, readVars, cameraVars
<1>8. CASE StoreOdd
  <2>1. wmap \in Inodes /\ high[wmap] \in Nat
    BY <1>8, MappedFile DEF StoreOdd, TypeOK, Mapped
  <2>2. wseq' \in Nat /\ high' \in [Inodes -> Nat]
    BY <2>1, <1>8 DEF StoreOdd, TypeOK
  <2> QED BY <1>8, <2>2 DEF StoreOdd, TypeOK, readVars, cameraVars
<1>9. CASE StoreLow
  BY <1>9 DEF StoreLow, TypeOK, readVars, cameraVars
<1>10. CASE StoreEven
  <2> DEFINE even == wseq + 2
  <2>1. even \in Nat /\ high \in [Inodes -> Nat] /\ high' = [high EXCEPT ![wmap] = even]
    BY <1>10 DEF StoreEven, TypeOK
  <2> HIDE DEF even
  <2>2. high' \in [Inodes -> Nat]
    BY <2>1
  <2> QED BY <1>10, <2>2 DEF StoreEven, TypeOK, readVars, cameraVars
<1>11. CASE StopDriver
  BY <1>11 DEF StopDriver, TypeOK, fileVars, readVars, cameraVars, None
<1> QED BY <1>1, <1>2, <1>3, <1>4, <1>5, <1>6, <1>7, <1>8, <1>9, <1>10, <1>11 DEF Driver

LEMMA TypeCamera == TypeOK /\ Camera => TypeOK'
<1> SUFFICES ASSUME TypeOK, Camera PROVE TypeOK'
  OBVIOUS
<1> USE SharedStampAssumption
<1>1. CASE FrameUnshared
  BY <1>1 DEF FrameUnshared, TypeOK, fileVars, driverVars, readVars
<1>2. CASE FrameMaps
  <2>1. path \in Inodes /\ high[path] \in Nat
    BY <1>2 DEF FrameMaps, TypeOK, None, Inodes
  <2>2. last_shared_sequence' \in Nat
    BY <2>1, <1>2, Parity DEF FrameMaps
  <2> QED BY <1>2, <2>2 DEF FrameMaps, TypeOK, fileVars, driverVars, readVars
<1>3. CASE FrameMapped
  BY <1>3 DEF FrameMapped, TypeOK, fileVars, driverVars, readVars
<1>4. CASE Poll
  BY <1>4 DEF Poll, TypeOK, fileVars, driverVars
<1>5. CASE ReadBefore
  <2>1. rmap \in Inodes /\ high[rmap] \in Nat /\ low[rmap] \in Nat
    BY <1>5 DEF ReadBefore, TypeOK, None, Inodes
  <2> QED BY <1>5, <2>1 DEF ReadBefore, NextAttempt, TypeOK, fileVars, driverVars
<1>6. CASE ReadLow
  <2>1. low[rmap] \in Nat
    BY <1>6 DEF ReadLow, TypeOK, None, Inodes
  <2> QED BY <1>6, <2>1 DEF ReadLow, TypeOK, fileVars, driverVars
<1>7. CASE ReadAfter
  BY <1>7 DEF ReadAfter, NextAttempt, TypeOK, fileVars, driverVars
<1>8. CASE WaitTimesOut
  BY <1>8 DEF WaitTimesOut, TypeOK, fileVars, driverVars, readVars, None
<1> QED BY <1>1, <1>2, <1>3, <1>4, <1>5, <1>6, <1>7, <1>8 DEF Camera

LEMMA TypeStep == TypeOK /\ [Next]_vars => TypeOK'
<1> SUFFICES ASSUME TypeOK, [Next]_vars PROVE TypeOK'
  OBVIOUS
<1>1. CASE DeleteFile
  BY <1>1, SharedStampAssumption DEF DeleteFile, TypeOK, driverVars, readVars, cameraVars, None
<1>2. CASE UNCHANGED vars
  BY <1>2 DEF vars, TypeOK, fileVars, driverVars, readVars, cameraVars
<1> QED BY <1>1, <1>2, TypeDriver, TypeCamera DEF Next

(* Program counters, mappings and words have their types, for any bounds.  *)
THEOREM ShareTypeCorrect == Spec => []TypeOK
  BY TypeInit, TypeStep, PTL DEF Spec

(***************************************************************************)
(* A read is a snapshot.  While the driver changes the stamp its version   *)
(* is odd, or zero after a start; a reader holds an even version above     *)
(* zero, and versions of a file that is not cleared only grow.  So as long *)
(* as the file shows the reader's version, the stamp is the one of the     *)
(* snapshot.                                                               *)
(***************************************************************************)
Writing ==
  /\ wpc \in {"store_low", "store_even"} => high[wmap] = wseq + 1 /\ ~IsOdd(wseq)
  /\ wpc = "cleared" => high[wmap] = 0

Reading == rpc \in {"low", "after"}
VersionHeld ==
  Reading => snapshot.sequence = sequence_before /\ sequence_before > 0 /\ ~IsOdd(sequence_before)

StampHeld ==
  Reading /\ undisturbed =>
    /\ high[rmap] >= sequence_before
    /\ high[rmap] = sequence_before => low[rmap] = snapshot.stamp
    /\ rpc = "after" /\ high[rmap] = sequence_before => value = snapshot.stamp

SnapshotInv == Writing /\ VersionHeld /\ StampHeld /\ ReadIsSnapshot

LEMMA SnapshotInit == Init => SnapshotInv
  BY DEF Init, SnapshotInv, Writing, VersionHeld, StampHeld, Reading, ReadIsSnapshot

(* A step of the driver.                                                   *)
LEMMA SnapshotDriver == TypeOK /\ SnapshotInv /\ Driver => SnapshotInv'
<1> SUFFICES ASSUME TypeOK, SnapshotInv, Driver PROVE SnapshotInv'
  OBVIOUS
<1> DEFINE CameraStays == UNCHANGED <<rpc, rmap, attempt, sequence_before, value, snapshot, accepted>>
<1>1. CameraStays
  BY DEF Driver, StartDriver, OpenShare, ShareFails, SizeShare, ClearHigh, ClearLow,
         PublishUnshared, StoreOdd, StoreLow, StoreEven, StopDriver, readVars, cameraVars
<1>2. VersionHeld' /\ ReadIsSnapshot'
  BY <1>1 DEF SnapshotInv, VersionHeld, Reading, ReadIsSnapshot
<1>3. CASE StartDriver \/ OpenShare \/ ShareFails \/ SizeShare \/ PublishUnshared \/ StopDriver
  <2>1. UNCHANGED <<high, low, undisturbed>>
        /\ wpc' \notin {"store_low", "store_even", "cleared"}
    BY <1>3 DEF StartDriver, OpenShare, ShareFails, SizeShare, PublishUnshared, StopDriver, fileVars
  <2> QED BY <2>1, <1>1, <1>2 DEF SnapshotInv, Writing, StampHeld, Reading
<1>4. CASE ClearHigh
  <2>1. wmap \in Inodes /\ high \in [Inodes -> Nat]
    BY <1>4, MappedFile DEF ClearHigh, Mapped, TypeOK
  <2>2. Writing'
    BY <1>4, <2>1 DEF ClearHigh, Writing
  <2>3. CASE Reading /\ undisturbed /\ rmap # wmap
    <3>1. high'[rmap] = high[rmap] /\ low' = low
      BY <1>4, <2>1, <2>3, ReaderFile DEF ClearHigh, Reading
    <3>2. StampHeld'
      BY <1>1, <2>3, <3>1 DEF SnapshotInv, StampHeld, Reading
    <3> QED BY <1>2, <2>2, <3>2 DEF SnapshotInv
  <2>4. CASE ~(Reading /\ undisturbed /\ rmap # wmap)
    <3>1. ~(Reading' /\ undisturbed')
      BY <1>1, <1>4, <2>4 DEF ClearHigh, Reading
    <3> QED BY <1>2, <2>2, <3>1 DEF SnapshotInv, StampHeld
  <2> QED BY <2>3, <2>4
<1>5. CASE ClearLow
  <2>1. wmap \in Inodes /\ low \in [Inodes -> Nat] /\ high[wmap] = 0
    BY <1>5, MappedFile DEF ClearLow, Mapped, TypeOK, SnapshotInv, Writing
  <2>2. Writing'
    BY <1>5 DEF ClearLow, Writing
  <2>3. Reading /\ undisturbed => rmap # wmap
    BY <2>1 DEF SnapshotInv, VersionHeld, StampHeld, TypeOK
  <2>4. StampHeld'
    BY <1>1, <1>5, <2>1, <2>3 DEF ClearLow, SnapshotInv, StampHeld, Reading
  <2> QED BY <1>2, <2>2, <2>4 DEF SnapshotInv
<1>6. CASE StoreOdd
  <2>1. wmap \in Inodes /\ high \in [Inodes -> Nat] /\ high[wmap] \in Nat
    BY <1>6, MappedFile DEF StoreOdd, Mapped, TypeOK
  <2>2. wseq' \in Nat /\ wseq' >= high[wmap] /\ ~IsOdd(wseq')
    BY <1>6, <2>1, Parity DEF StoreOdd
  <2>3. high'[wmap] = wseq' + 1 /\ wmap' = wmap /\ wpc' = "store_low" /\ low' = low
        /\ undisturbed' = undisturbed /\ \A f \in Inodes \ {wmap} : high'[f] = high[f]
    BY <1>6, <2>1 DEF StoreOdd
  <2>4. Writing'
    BY <2>2, <2>3 DEF Writing
  <2>5. StampHeld'
    <3> SUFFICES ASSUME Reading, undisturbed
                 PROVE  high'[rmap] >= sequence_before
                        /\ (high'[rmap] = sequence_before => high[rmap] = sequence_before)
      BY <1>1, <2>3 DEF SnapshotInv, StampHeld, Reading
    <3>1. rmap \in Inodes /\ sequence_before \in Nat /\ high[rmap] >= sequence_before
          /\ high[rmap] \in Nat
      BY <2>1, ReaderFile DEF TypeOK, SnapshotInv, StampHeld, Reading
    <3> QED BY <3>1, <2>1, <2>2, <2>3
  <2> QED BY <1>2, <2>4, <2>5 DEF SnapshotInv
<1>7. CASE StoreLow
  <2>1. wmap \in Inodes /\ low \in [Inodes -> Nat] /\ wseq \in Nat
        /\ high[wmap] = wseq + 1 /\ ~IsOdd(wseq)
    BY <1>7, MappedFile DEF StoreLow, Mapped, TypeOK, SnapshotInv, Writing
  <2>2. Writing'
    BY <1>7, <2>1 DEF StoreLow, Writing
  <2>3. Reading => rmap # wmap \/ high[rmap] # sequence_before
    BY <2>1, Parity DEF SnapshotInv, VersionHeld
  <2>4. high' = high /\ wmap' = wmap /\ undisturbed' = undisturbed
        /\ \A f \in Inodes \ {wmap} : low'[f] = low[f]
    BY <1>7, <2>1 DEF StoreLow
  <2>5. Reading => rmap \in Inodes
    BY DEF TypeOK, Reading, Inodes, None
  <2>6. StampHeld'
    BY <1>1, <2>3, <2>4, <2>5 DEF SnapshotInv, StampHeld, Reading
  <2> QED BY <1>2, <2>2, <2>6 DEF SnapshotInv
<1>8. CASE StoreEven
  <2>1. wmap \in Inodes /\ high \in [Inodes -> Nat] /\ wseq \in Nat
        /\ high[wmap] = wseq + 1 /\ ~IsOdd(wseq)
    BY <1>8, MappedFile DEF StoreEven, Mapped, TypeOK, SnapshotInv, Writing
  <2>2. Writing'
    BY <1>8 DEF StoreEven, Writing
  <2>3. high'[wmap] = wseq + 2 /\ low' = low /\ undisturbed' = undisturbed
        /\ \A f \in Inodes \ {wmap} : high'[f] = high[f]
    BY <1>8, <2>1 DEF StoreEven
  <2>4. StampHeld'
    <3> SUFFICES ASSUME Reading, undisturbed
                 PROVE  high'[rmap] >= sequence_before
                        /\ (high'[rmap] = sequence_before => high[rmap] = sequence_before)
      BY <1>1, <2>3 DEF SnapshotInv, StampHeld, Reading
    <3>1. rmap \in Inodes /\ sequence_before \in Nat /\ high[rmap] >= sequence_before
          /\ high[rmap] \in Nat
      BY <2>1, ReaderFile DEF TypeOK, SnapshotInv, StampHeld, Reading
    <3> QED BY <3>1, <2>1, <2>3
  <2> QED BY <1>2, <2>2, <2>4 DEF SnapshotInv
<1> QED BY <1>3, <1>4, <1>5, <1>6, <1>7, <1>8 DEF Driver

(* A step of the camera.                                                   *)
LEMMA SnapshotCamera == TypeOK /\ SnapshotInv /\ Camera => SnapshotInv'
<1> SUFFICES ASSUME TypeOK, SnapshotInv, Camera PROVE SnapshotInv'
  OBVIOUS
<1>1. UNCHANGED <<fileVars, driverVars>>
  BY DEF Camera, FrameUnshared, FrameMaps, FrameMapped, Poll, ReadBefore, ReadLow, ReadAfter,
         WaitTimesOut
<1>2. Writing'
  BY <1>1 DEF SnapshotInv, Writing, fileVars, driverVars
<1>3. CASE FrameUnshared \/ FrameMaps \/ FrameMapped \/ Poll \/ WaitTimesOut
  <2>1. rpc' \in {"wait", "before", "frame"} /\ accepted' = accepted
    BY <1>3 DEF FrameUnshared, FrameMaps, FrameMapped, Poll, WaitTimesOut
  <2> QED BY <2>1, <1>2 DEF SnapshotInv, VersionHeld, StampHeld, Reading, ReadIsSnapshot
<1>4. CASE ReadBefore
  <2>1. accepted' = accepted /\ sequence_before' = high[rmap] /\ rmap' = rmap
        /\ high' = high /\ low' = low
        /\ snapshot' = [sequence |-> high[rmap], stamp |-> low[rmap]]
        /\ (rpc' = "low" => high[rmap] # 0 /\ ~IsOdd(high[rmap]))
        /\ rpc' # "after"
    BY <1>4 DEF ReadBefore, NextAttempt, fileVars
  <2>2. rmap \in Inodes /\ high[rmap] \in Nat
    BY <1>4, ReaderFile DEF ReadBefore, TypeOK
  <2> QED BY <2>1, <2>2, <1>2 DEF SnapshotInv, VersionHeld, StampHeld, Reading, ReadIsSnapshot
<1>5. CASE ReadLow
  <2>1. UNCHANGED <<high, low, rmap, sequence_before, snapshot, accepted, undisturbed>>
        /\ value' = low[rmap] /\ rpc = "low" /\ rpc' = "after"
    BY <1>5 DEF ReadLow, fileVars
  <2> QED BY <2>1, <1>2 DEF SnapshotInv, VersionHeld, StampHeld, Reading, ReadIsSnapshot
<1>6. CASE ReadAfter
  <2>1. rpc = "after" /\ rpc' \notin {"low", "after"}
    BY <1>6 DEF ReadAfter, NextAttempt
  <2>2. ReadIsSnapshot'
    <3>1. CASE accepted' = accepted
      BY <3>1 DEF SnapshotInv, ReadIsSnapshot
    <3>2. CASE accepted' # accepted
      <4>1. /\ high[rmap] = sequence_before
            /\ accepted' = [pair |-> [sequence |-> sequence_before, stamp |-> value],
                            was |-> snapshot, undisturbed |-> undisturbed]
        BY <1>6, <3>2 DEF ReadAfter, ReadOk
      <4>2. undisturbed => value = snapshot.stamp /\ snapshot.sequence = sequence_before
        BY <2>1, <4>1 DEF SnapshotInv, VersionHeld, StampHeld, Reading
      <4>3. snapshot = [sequence |-> snapshot.sequence, stamp |-> snapshot.stamp]
        BY DEF TypeOK
      <4> QED BY <4>1, <4>2, <4>3 DEF ReadIsSnapshot
    <3> QED BY <3>1, <3>2
  <2> QED BY <2>1, <2>2, <1>2 DEF SnapshotInv, VersionHeld, StampHeld, Reading
<1> QED BY <1>3, <1>4, <1>5, <1>6 DEF Camera

LEMMA SnapshotStep == TypeOK /\ SnapshotInv /\ [Next]_vars => SnapshotInv'
<1> SUFFICES ASSUME TypeOK, SnapshotInv, [Next]_vars PROVE SnapshotInv'
  OBVIOUS
<1>1. CASE DeleteFile
  BY <1>1 DEF DeleteFile, SnapshotInv, Writing, VersionHeld, StampHeld, Reading, ReadIsSnapshot,
              driverVars, readVars, cameraVars
<1>2. CASE UNCHANGED vars
  BY <1>2 DEF vars, SnapshotInv, Writing, VersionHeld, StampHeld, Reading, ReadIsSnapshot,
              fileVars, driverVars, readVars, cameraVars
<1> QED BY <1>1, <1>2, SnapshotDriver, SnapshotCamera DEF Next

(* The stamp the camera accepts stood in the file together with its        *)
(* version at one moment, unless a driver start cleared the file meanwhile.*)
THEOREM ReadsAreSnapshots == Spec => []ReadIsSnapshot
<1>1. Spec => [](TypeOK /\ SnapshotInv)
  BY TypeInit, TypeStep, SnapshotInit, SnapshotStep, PTL DEF Spec
<1> QED BY <1>1, PTL DEF SnapshotInv

-------------------------------------------------------------------------------
(***************************************************************************)
(* The camera driver                                                       *)
(***************************************************************************)
(* The numbers of the camera's frames: the one after n when g were lost.   *)
After(n, g) == IF n + g + 1 > FrameMax THEN n + g + 1 - FrameMax ELSE n + g + 1

LEMMA CameraConstants ==
  /\ FrameMax \in Nat \ {0, 1} /\ MaxFrames \in Nat /\ SdkBuffer \in Nat \ {0}
  /\ \A c \in Configs :
       /\ c.width \in Int /\ c.height \in Int /\ c.scale \in Int
       /\ c.sensor[1] \in Int /\ c.sensor[2] \in Int /\ c.k \in Seq(Int) /\ c.p \in Seq(Int)
BY ProgressAssumption DEF Cam!CameraAssumption

(* MissedFrames finds the number lost, over the turn of the counter.       *)
LEMMA MissedAreLost ==
  ASSUME NEW n \in 1 .. FrameMax, NEW g \in 0 .. FrameMax - 1
  PROVE  Cam!MissedFrames(n, After(n, g)) = g /\ After(n, g) \in 1 .. FrameMax
BY CameraConstants DEF Cam!MissedFrames, After

LEMMA DivisionOf ==
  ASSUME NEW n \in Int, NEW d \in Nat \ {0}
  PROVE  n = (d * (n \div d)) + (n % d) /\ n % d \in 0..(d - 1) /\ n \div d \in Int
OBVIOUS

LEMMA NoWholeTurn ==
  ASSUME NEW d \in Nat \ {0}, NEW k \in Int, d * k < d, -d < d * k
  PROVE  k = 0
<1>1. CASE k >= 1
  <2>1. d * k >= d
    BY <1>1
  <2> QED
    BY <2>1
<1>2. CASE k <= -1
  <2>1. d * (-k) >= d
    BY <1>2
  <2>2. d * (-k) = -(d * k)
    OBVIOUS
  <2> QED
    BY <2>1, <2>2
<1> QED
  BY <1>1, <1>2

LEMMA RemainderOf ==
  ASSUME NEW d \in Nat \ {0}, NEW q \in Int, NEW r \in 0..(d - 1)
  PROVE  ((d * q) + r) % d = r
<1> DEFINE n == (d * q) + r
<1>1. n \in Int /\ n = (d * (n \div d)) + (n % d) /\ n % d \in 0..(d - 1) /\ n \div d \in Int
  <2>1. n \in Int
    OBVIOUS
  <2> QED
    BY <2>1, DivisionOf
<1> DEFINE e == q - (n \div d)
<1>2. d * e = (d * q) - (d * (n \div d))
  BY <1>1
<1>3. d * e = (n % d) - r
  <2>1. d * q \in Int /\ d * (n \div d) \in Int /\ n = (d * q) + r
    BY <1>1
  <2> HIDE DEF n
  <2> QED
    BY <1>1, <1>2, <2>1
<1>4. e = 0
  <2>1. e \in Int /\ d * e < d /\ -d < d * e
    BY <1>1, <1>3
  <2> HIDE DEF e, n
  <2> QED
    BY <2>1, NoWholeTurn
<1> QED
  BY <1>1, <1>3, <1>4

LEMMA NumberAfter ==
  ASSUME NEW e \in Nat, NEW g \in 0 .. FrameMax - 1, g < e
  PROVE  /\ Cam!NumberOf(e + 1) = After(Cam!NumberOf(e - g), g)
         /\ Cam!NumberOf(e - g) \in 1 .. FrameMax
<1> DEFINE n == e - g - 1
           q == n \div FrameMax
           r == n % FrameMax
<1>1. n \in Int /\ FrameMax \in Nat \ {0}
  BY CameraConstants
<1>2. n = (FrameMax * q) + r /\ r \in 0 .. FrameMax - 1 /\ q \in Int
  BY <1>1, DivisionOf
<1>3. Cam!NumberOf(e - g) = 1 + r
  BY DEF Cam!NumberOf
<1>4. Cam!NumberOf(e + 1) = 1 + (e % FrameMax)
  BY DEF Cam!NumberOf
<1>5. e = (FrameMax * q) + (r + g + 1)
  BY <1>1, <1>2
<1> HIDE DEF n, q, r
<1>6. CASE r + g + 1 < FrameMax
  <2>1. e % FrameMax = r + g + 1
    <3>1. r + g + 1 \in 0 .. FrameMax - 1
      BY <1>1, <1>2, <1>6
    <3> QED
      BY <1>1, <1>2, <1>5, <3>1, RemainderOf
  <2> QED
    BY <1>1, <1>2, <1>3, <1>4, <1>6, <2>1 DEF After
<1>7. CASE r + g + 1 >= FrameMax
  <2>1. e % FrameMax = r + g + 1 - FrameMax
    <3>1. r + g + 1 - FrameMax \in 0 .. FrameMax - 1
      BY <1>1, <1>2, <1>7
    <3>2. FrameMax * (q + 1) = (FrameMax * q) + FrameMax /\ q + 1 \in Int
      BY <1>1, <1>2
    <3>3. FrameMax * q \in Int
      BY <1>1, <1>2
    <3>4. e = (FrameMax * (q + 1)) + (r + g + 1 - FrameMax)
      BY <1>1, <1>2, <1>5, <3>2, <3>3
    <3>5. ((FrameMax * (q + 1)) + (r + g + 1 - FrameMax)) % FrameMax = r + g + 1 - FrameMax
      BY <1>1, <3>1, <3>2, RemainderOf
    <3> QED
      BY <3>4, <3>5
  <2> QED
    BY <1>1, <1>2, <1>3, <1>4, <1>7, <2>1 DEF After
<1> QED
  BY <1>1, <1>2, <1>3, <1>6, <1>7

(* The order of main's steps.                                              *)
LEMMA NextStep ==
  ASSUME NEW s, NEW i \in 1 .. Len(s), \A j \in 1 .. Len(s) : s[j] = s[i] => j = i
  PROVE  Cam!Following(s, s[i]) = s[i + 1]
<1> DEFINE c == CHOOSE j \in 1 .. Len(s) : s[j] = s[i]
<1>1. c \in 1 .. Len(s) /\ s[c] = s[i]
  OBVIOUS
<1>2. c = i
  BY <1>1
<1> QED
  BY <1>2 DEF Cam!Following

LEMMA SetUpOrder ==
  /\ {Cam!SetUp[i] : i \in 1 .. Len(Cam!SetUp)} =
       {"load_info", "find_camera", "create", "open", "frame_rate", "pixel_format", "params",
        "trigger_mode", "trigger_source", "grab", "thread"}
  /\ Cam!Following(Cam!SetUp, "load_info") = "find_camera"
  /\ Cam!Following(Cam!SetUp, "find_camera") = "create"
  /\ Cam!Following(Cam!SetUp, "create") = "open"
  /\ Cam!Following(Cam!SetUp, "open") = "frame_rate"
  /\ Cam!Following(Cam!SetUp, "frame_rate") = "pixel_format"
  /\ Cam!Following(Cam!SetUp, "pixel_format") = "params"
  /\ Cam!Following(Cam!SetUp, "params") = "trigger_mode"
  /\ Cam!Following(Cam!SetUp, "trigger_mode") = "trigger_source"
  /\ Cam!Following(Cam!SetUp, "trigger_source") = "grab"
  /\ Cam!Following(Cam!SetUp, "grab") = "thread"
<1> DEFINE s == Cam!SetUp
<1>1. /\ Len(s) = 11 /\ s[1] = "load_info" /\ s[2] = "find_camera" /\ s[3] = "create"
      /\ s[4] = "open" /\ s[5] = "frame_rate" /\ s[6] = "pixel_format" /\ s[7] = "params"
      /\ s[8] = "trigger_mode" /\ s[9] = "trigger_source" /\ s[10] = "grab"
      /\ s[11] = "thread"
  BY DEF Cam!SetUp
<1> HIDE DEF s
<1>2. \A i \in 1 .. 11 : i \in {1, 2, 3, 4, 5, 6, 7, 8, 9, 10, 11}
  OBVIOUS
<1>3. \A i \in 1 .. 11, j \in 1 .. 11 : s[j] = s[i] => j = i
  BY <1>1, <1>2
<1>4. ASSUME NEW i \in 1 .. 11 PROVE Cam!Following(s, s[i]) = s[i + 1]
  <2>1. i \in 1 .. Len(s) /\ \A j \in 1 .. Len(s) : s[j] = s[i] => j = i
    BY <1>1, <1>3
  <2> QED
    BY <2>1, NextStep
<1>5. /\ Cam!Following(s, s[1]) = s[2] /\ Cam!Following(s, s[2]) = s[3]
      /\ Cam!Following(s, s[3]) = s[4] /\ Cam!Following(s, s[4]) = s[5]
      /\ Cam!Following(s, s[5]) = s[6] /\ Cam!Following(s, s[6]) = s[7]
      /\ Cam!Following(s, s[7]) = s[8] /\ Cam!Following(s, s[8]) = s[9]
      /\ Cam!Following(s, s[9]) = s[10] /\ Cam!Following(s, s[10]) = s[11]
  BY <1>4
<1>6. {s[i] : i \in 1 .. 11} = {s[1], s[2], s[3], s[4], s[5], s[6], s[7], s[8], s[9], s[10],
                                s[11]}
  BY <1>2
<1> QED
  BY <1>1, <1>5, <1>6 DEF s

LEMMA TakeDownOrder ==
  /\ {Cam!TakeDown[i] : i \in 1 .. Len(Cam!TakeDown)} =
       {"spin", "stop_grab", "close", "destroy", "ended"}
  /\ Cam!Following(Cam!TakeDown, "stop_grab") = "close"
  /\ Cam!Following(Cam!TakeDown, "close") = "destroy"
  /\ Cam!Following(Cam!TakeDown, "destroy") = "ended"
<1> DEFINE s == Cam!TakeDown
<1>1. /\ Len(s) = 5 /\ s[1] = "spin" /\ s[2] = "stop_grab" /\ s[3] = "close"
      /\ s[4] = "destroy" /\ s[5] = "ended"
  BY DEF Cam!TakeDown
<1> HIDE DEF s
<1>2. \A i \in 1 .. 5 : i \in {1, 2, 3, 4, 5}
  OBVIOUS
<1>3. \A i \in 1 .. 5, j \in 1 .. 5 : s[j] = s[i] => j = i
  BY <1>1, <1>2
<1>4. ASSUME NEW i \in 1 .. 5 PROVE Cam!Following(s, s[i]) = s[i + 1]
  <2>1. i \in 1 .. Len(s) /\ \A j \in 1 .. Len(s) : s[j] = s[i] => j = i
    BY <1>1, <1>3
  <2> QED
    BY <2>1, NextStep
<1>5. /\ Cam!Following(s, s[2]) = s[3] /\ Cam!Following(s, s[3]) = s[4]
      /\ Cam!Following(s, s[4]) = s[5]
  BY <1>4
<1>6. {s[i] : i \in 1 .. 5} = {s[1], s[2], s[3], s[4], s[5]}
  BY <1>2
<1> QED
  BY <1>1, <1>5, <1>6 DEF s

-------------------------------------------------------------------------------
SettingUp ==
  {"load_info", "find_camera", "create", "open", "frame_rate", "pixel_format", "params",
   "trigger_mode", "trigger_source", "grab", "thread"}

CamTypeOK ==
  /\ config \in Configs
  /\ main \in SettingUp \union {"spin", "stop_grab", "close", "destroy", "ended"}
  /\ opened \in BOOLEAN /\ grabbing \in BOOLEAN /\ exit_flag \in BOOLEAN
  /\ exposed \in 0 .. MaxFrames /\ gap \in 0 .. FrameMax - 1
  /\ buffer \in Seq([number : 1 .. FrameMax, gap : 0 .. FrameMax - 1])
  /\ Len(buffer) <= SdkBuffer
  /\ worker \in {"none", "start", "loop", "stamp", "convert", "done"}
  /\ last_number \in 0 .. FrameMax
  /\ reported \in Nat /\ lost \in Nat

(* The thread runs while main waits, with the camera open and grabbing.    *)
DeviceKept ==
  /\ worker \notin {"none", "done"} => main = "spin"
  /\ main \in SettingUp => worker = "none"
  /\ main \in {"frame_rate", "pixel_format", "params", "trigger_mode", "trigger_source", "grab",
                "thread", "spin"} => opened
  /\ main \in {"thread", "spin"} => grabbing

(* Each frame of the buffer continues the numbers of the one before it,    *)
(* the oldest those of the frame received last, and the newest one is the  *)
(* last that was not lost.                                                 *)
Chained ==
  /\ \A i \in 2 .. Len(buffer) : buffer[i].number = After(buffer[i - 1].number, buffer[i].gap)
  /\ last_number # 0 /\ buffer # <<>> =>
       buffer[1].number = After(last_number, buffer[1].gap)
  /\ buffer # <<>> =>
       gap < exposed /\ buffer[Len(buffer)].number = Cam!NumberOf(exposed - gap)
  /\ buffer = <<>> /\ last_number # 0 =>
       gap < exposed /\ last_number = Cam!NumberOf(exposed - gap)
  /\ reported = lost

(* What the image and its calibration are made of.                         *)
InfoLoaded ==
  main \notin {"load_info", "ended"} \/ worker # "none" =>
    info_template = Cam!LoadCameraInfo(config) /\ Cam!LoadsCameraInfo(config)
InfoBuilt ==
  \/ published.info = Cam!NoInfo
  \/ /\ Cam!LoadsCameraInfo(config)
     /\ \E w, h \in Int :
          published = [image |-> <<w, h>>,
                       info |-> Cam!BuildCameraInfo(Cam!LoadCameraInfo(config), w, h)]

CamInv == CamTypeOK /\ DeviceKept /\ Chained /\ InfoLoaded /\ InfoBuilt

LEMMA CameraStarts == Cam!Init => CamInv
<1> SUFFICES ASSUME Cam!Init
             PROVE  CamInv
  OBVIOUS
<1>1. CamTypeOK
  <2>1. /\ config \in Configs /\ main = "load_info" /\ opened = FALSE /\ grabbing = FALSE
        /\ exit_flag = FALSE /\ exposed = 0 /\ buffer = <<>> /\ gap = 0
        /\ worker = "none" /\ last_number = 0 /\ reported = 0 /\ lost = 0
    BY DEF Cam!Init
  <2>2. Len(buffer) = 0 /\ buffer \in Seq([number : 1 .. FrameMax, gap : 0 .. FrameMax - 1])
    BY <2>1
  <2>3. /\ 0 \in 0 .. MaxFrames /\ 0 \in 0 .. FrameMax - 1 /\ 0 <= SdkBuffer
        /\ 0 \in 0 .. FrameMax
    BY CameraConstants
  <2> QED
    BY <2>1, <2>2, <2>3 DEF CamTypeOK, SettingUp
<1>2. DeviceKept
  BY DEF Cam!Init, DeviceKept
<1>3. Chained
  BY DEF Cam!Init, Chained
<1>4. InfoLoaded /\ InfoBuilt
  BY DEF Cam!Init, InfoLoaded, InfoBuilt
<1> QED
  BY <1>1, <1>2, <1>3, <1>4 DEF CamInv

(* main's set-up, its way down, and SIGINT.                                *)
LEMMA MainKeeps ==
  ASSUME CamInv, Cam!Main \/ Cam!Interrupt
  PROVE  CamInv'
<1>1. CamTypeOK /\ DeviceKept /\ Chained /\ InfoLoaded /\ InfoBuilt
  BY DEF CamInv
<1>2. /\ UNCHANGED <<config, exposed, buffer, gap, last_number, reported, lost, published>>
      /\ exit_flag' \in BOOLEAN
  BY <1>1
  DEF Cam!Main, Cam!SetUpStep, Cam!SetUpFails, Cam!JoinWorker, Cam!TakeDownStep, Cam!Interrupt,
      Cam!mainVars, Cam!cameraVars, Cam!workVars, CamTypeOK
<1>3. Chained' /\ InfoBuilt'
  BY <1>1, <1>2 DEF Chained, InfoBuilt, Cam!NumberOf
<1>4. ASSUME main' \in SettingUp \union {"spin", "stop_grab", "close", "destroy", "ended"},
             opened' \in BOOLEAN, grabbing' \in BOOLEAN,
             worker' \in {"none", "start", "loop", "stamp", "convert", "done"},
             DeviceKept', InfoLoaded'
      PROVE  CamInv'
  BY <1>1, <1>2, <1>3, <1>4 DEF CamInv, CamTypeOK
<1>5. CASE Cam!SetUpStep
  <2>1. /\ main \in SettingUp /\ Cam!Succeeds(main)
        /\ main' = IF main = "thread" THEN "spin" ELSE Cam!Following(Cam!SetUp, main)
        /\ info_template' = IF main = "load_info" THEN Cam!LoadCameraInfo(config)
                            ELSE info_template
        /\ opened' = (opened \/ main = "open") /\ grabbing' = (grabbing \/ main = "grab")
        /\ worker' = IF main = "thread" THEN "start" ELSE worker
    BY <1>5, SetUpOrder DEF Cam!SetUpStep, SettingUp
  <2>2. worker = "none"
    BY <1>1, <2>1 DEF DeviceKept
  <2>3. \/ main = "load_info" /\ main' = "find_camera"
        \/ main = "find_camera" /\ main' = "create"
        \/ main = "create" /\ main' = "open"
        \/ main = "open" /\ main' = "frame_rate"
        \/ main = "frame_rate" /\ main' = "pixel_format"
        \/ main = "pixel_format" /\ main' = "params"
        \/ main = "params" /\ main' = "trigger_mode"
        \/ main = "trigger_mode" /\ main' = "trigger_source"
        \/ main = "trigger_source" /\ main' = "grab"
        \/ main = "grab" /\ main' = "thread"
        \/ main = "thread" /\ main' = "spin"
    BY <2>1, SetUpOrder DEF SettingUp
  <2>4. DeviceKept'
    BY <1>1, <2>1, <2>2, <2>3 DEF DeviceKept, SettingUp
  <2>5. InfoLoaded'
    <3>1. CASE main = "load_info"
      BY <1>2, <2>1, <3>1 DEF InfoLoaded, Cam!Succeeds
    <3>2. CASE main # "load_info"
      BY <1>1, <1>2, <2>1, <2>3, <3>2 DEF InfoLoaded, SettingUp
    <3> QED
      BY <3>1, <3>2
  <2>6. /\ opened' \in BOOLEAN /\ grabbing' \in BOOLEAN
        /\ worker' \in {"none", "start"}
        /\ main' \in SettingUp \union {"spin"}
    BY <2>1, <2>2, <2>3 DEF SettingUp
  <2> QED
    BY <1>4, <2>4, <2>5, <2>6
<1>6. CASE Cam!SetUpFails
  <2>1. /\ main \in SettingUp /\ main' = "ended"
        /\ UNCHANGED <<info_template, opened, grabbing, worker>>
    BY <1>6, SetUpOrder DEF Cam!SetUpFails, Cam!workVars, SettingUp
  <2>2. worker = "none"
    BY <1>1, <2>1 DEF DeviceKept
  <2> QED
    BY <1>1, <1>2, <1>4, <2>1, <2>2 DEF DeviceKept, InfoLoaded, CamTypeOK, SettingUp
<1>7. CASE Cam!JoinWorker
  <2>1. /\ main = "spin" /\ worker = "done" /\ main' = "stop_grab"
        /\ UNCHANGED <<info_template, opened, grabbing, worker>>
    BY <1>7 DEF Cam!JoinWorker, Cam!workVars
  <2> QED
    BY <1>1, <1>2, <1>4, <2>1 DEF DeviceKept, InfoLoaded, CamTypeOK, SettingUp
<1>8. CASE Cam!TakeDownStep
  <2>1. /\ main \in {"stop_grab", "close", "destroy"}
        /\ main' \in {"close", "destroy", "ended"}
        /\ grabbing' \in BOOLEAN /\ opened' \in BOOLEAN
        /\ UNCHANGED <<info_template, worker>>
    BY <1>1, <1>8, TakeDownOrder DEF Cam!TakeDownStep, Cam!workVars, CamTypeOK
  <2> QED
    BY <1>1, <1>2, <1>4, <2>1 DEF DeviceKept, InfoLoaded, CamTypeOK, SettingUp
<1>9. CASE Cam!Interrupt
  <2>1. UNCHANGED <<main, info_template, opened, grabbing, worker>>
    BY <1>9 DEF Cam!Interrupt, Cam!mainVars, Cam!workVars
  <2> QED
    BY <1>1, <1>2, <1>4, <2>1 DEF DeviceKept, InfoLoaded, CamTypeOK, SettingUp
<1> QED
  BY <1>5, <1>6, <1>7, <1>8, <1>9 DEF Cam!Main

(* The camera exposes a frame that arrives, or is lost.                    *)
LEMMA ExposeKeeps ==
  ASSUME CamInv, Cam!Expose
  PROVE  CamInv'
<1> DEFINE Frame == [number : 1 .. FrameMax, gap : 0 .. FrameMax - 1]
           new == [number |-> Cam!NumberOf(exposed + 1), gap |-> gap]
<1>1. CamTypeOK /\ DeviceKept /\ Chained /\ InfoLoaded /\ InfoBuilt
  BY DEF CamInv
<1>2. /\ UNCHANGED <<config, main, info_template, opened, grabbing, exit_flag>>
      /\ UNCHANGED <<worker, last_number, reported, lost, published>>
      /\ exposed < MaxFrames /\ exposed' = exposed + 1
      /\ \/ Len(buffer) < SdkBuffer /\ buffer' = Append(buffer, new) /\ gap' = 0
         \/ gap < FrameMax - 1 /\ gap' = gap + 1 /\ buffer' = buffer
  BY DEF Cam!Expose, Cam!mainVars, Cam!workVars
<1>3. DeviceKept' /\ InfoLoaded' /\ InfoBuilt'
  BY <1>1, <1>2 DEF DeviceKept, InfoLoaded, InfoBuilt
<1>4. /\ exposed \in Nat /\ gap \in 0 .. FrameMax - 1 /\ buffer \in Seq(Frame)
      /\ Len(buffer) \in Nat /\ last_number \in 0 .. FrameMax
      /\ FrameMax \in Nat \ {0, 1} /\ MaxFrames \in Nat /\ SdkBuffer \in Nat
  BY <1>1, CameraConstants DEF CamTypeOK
<1>5. new \in Frame
  <2>1. Cam!NumberOf(exposed + 1) \in 1 .. FrameMax
    <3>1. 0 \in 0 .. FrameMax - 1 /\ exposed + 1 \in Nat /\ 0 < exposed + 1
      BY <1>4
    <3>2. Cam!NumberOf(exposed + 1 - 0) \in 1 .. FrameMax
      BY <3>1, NumberAfter
    <3>3. exposed + 1 - 0 = exposed + 1
      BY <1>4
    <3> QED
      BY <3>2, <3>3
  <2> QED
    BY <1>4, <2>1
<1> HIDE DEF Frame, new
<1>6. CamTypeOK'
  <2>1. CASE Len(buffer) < SdkBuffer /\ buffer' = Append(buffer, new) /\ gap' = 0
    <3>1. buffer' \in Seq(Frame) /\ Len(buffer') = Len(buffer) + 1
      BY <1>4, <1>5, <2>1
    <3> QED
      BY <1>1, <1>2, <1>4, <2>1, <3>1 DEF CamTypeOK, Frame
  <2>2. CASE gap < FrameMax - 1 /\ gap' = gap + 1 /\ buffer' = buffer
    BY <1>1, <1>2, <1>4, <2>2 DEF CamTypeOK
  <2> QED
    BY <1>2, <2>1, <2>2
<1>7. Chained'
  <2>1. CASE gap < FrameMax - 1 /\ gap' = gap + 1 /\ buffer' = buffer
    <3>1. exposed' - gap' = exposed - gap /\ (gap < exposed => gap' < exposed')
      BY <1>2, <1>4, <2>1
    <3> QED
      BY <1>1, <1>2, <2>1, <3>1 DEF Chained, Cam!NumberOf
  <2>2. CASE buffer' = Append(buffer, new) /\ gap' = 0
    <3>1. /\ new.number = Cam!NumberOf(exposed + 1) /\ new.gap = gap
      BY DEF new
    <3>2. /\ Len(buffer') = Len(buffer) + 1 /\ buffer' # <<>>
          /\ \A i \in 1 .. Len(buffer) : buffer'[i] = buffer[i]
          /\ buffer'[Len(buffer) + 1] = new
      BY <1>4, <1>5, <2>2
    <3>3. gap < exposed => new.number = After(Cam!NumberOf(exposed - gap), gap)
      BY <1>4, <3>1, NumberAfter
    <3>4. buffer'[Len(buffer')].number = Cam!NumberOf(exposed' - gap') /\ gap' < exposed'
      <4>1. exposed' - gap' = exposed + 1
        BY <1>2, <1>4, <2>2
      <4> QED
        BY <1>2, <1>4, <2>2, <3>1, <3>2, <4>1 DEF Cam!NumberOf
    <3>5. CASE buffer = <<>>
      <4>1. Len(buffer) = 0
        BY <3>5
      <4>2. last_number # 0 => buffer'[1].number = After(last_number, buffer'[1].gap)
        BY <1>1, <3>1, <3>2, <3>3, <3>5, <4>1 DEF Chained
      <4>3. 2 .. Len(buffer') = {}
        BY <3>2, <4>1
      <4> QED
        BY <1>1, <1>2, <3>2, <3>4, <4>2, <4>3 DEF Chained, After, Cam!NumberOf
    <3>6. CASE buffer # <<>>
      <4>1. Len(buffer) >= 1
        BY <1>4, <3>6
      <4>2. buffer'[1] = buffer[1]
        BY <1>4, <3>2, <4>1
      <4>3. \A i \in 2 .. Len(buffer) + 1 :
              buffer'[i].number = After(buffer'[i - 1].number, buffer'[i].gap)
        <5> SUFFICES ASSUME NEW i \in 2 .. Len(buffer) + 1
                     PROVE  buffer'[i].number = After(buffer'[i - 1].number, buffer'[i].gap)
          OBVIOUS
        <5>1. i - 1 \in 1 .. Len(buffer) /\ buffer'[i - 1] = buffer[i - 1]
          BY <1>4, <3>2
        <5>2. CASE i = Len(buffer) + 1
          <6>1. buffer'[i] = new /\ buffer[i - 1].number = Cam!NumberOf(exposed - gap)
                /\ gap < exposed
            BY <1>1, <1>4, <3>2, <3>6, <5>2 DEF Chained
          <6> QED
            BY <3>1, <3>3, <5>1, <6>1
        <5>3. CASE i # Len(buffer) + 1
          <6>1. i \in 2 .. Len(buffer) /\ i \in 1 .. Len(buffer)
            BY <1>4, <5>3
          <6> QED
            BY <1>1, <3>2, <5>1, <6>1 DEF Chained
        <5> QED
          BY <5>2, <5>3
      <4>4. last_number # 0 => buffer'[1].number = After(last_number, buffer'[1].gap)
        BY <1>1, <3>6, <4>2 DEF Chained
      <4> QED
        BY <1>1, <1>2, <3>2, <3>4, <4>3, <4>4 DEF Chained, After, Cam!NumberOf
    <3> QED
      BY <3>5, <3>6
  <2> QED
    BY <1>2, <2>1, <2>2
<1> QED
  BY <1>3, <1>6, <1>7 DEF CamInv


(* The thread receives a frame and books its number.                       *)
LEMMA GetFrameKeeps ==
  ASSUME CamInv, Cam!GetFrame
  PROVE  CamInv'
<1> DEFINE Frame == [number : 1 .. FrameMax, gap : 0 .. FrameMax - 1]
           head == buffer[1]
<1>1. CamTypeOK /\ DeviceKept /\ Chained /\ InfoLoaded /\ InfoBuilt
  BY DEF CamInv
<1>2. /\ UNCHANGED <<config, main, info_template, opened, grabbing, exit_flag>>
      /\ UNCHANGED <<exposed, gap, published>>
      /\ worker = "loop" /\ worker' \in {"stamp", "convert"} /\ buffer # <<>>
      /\ buffer' = Tail(buffer) /\ last_number' = head.number
      /\ IF last_number = 0 THEN UNCHANGED <<reported, lost>>
         ELSE /\ reported' = reported + Cam!MissedFrames(last_number, head.number)
              /\ lost' = lost + head.gap
  <2>1. Head(buffer) = head
    OBVIOUS
  <2> QED
    BY <2>1 DEF Cam!GetFrame, Cam!mainVars
<1>3. /\ exposed \in Nat /\ gap \in 0 .. FrameMax - 1 /\ buffer \in Seq(Frame)
      /\ Len(buffer) \in Nat /\ last_number \in 0 .. FrameMax /\ reported \in Nat
      /\ lost \in Nat
      /\ FrameMax \in Nat \ {0, 1} /\ MaxFrames \in Nat /\ SdkBuffer \in Nat
  BY <1>1, CameraConstants DEF CamTypeOK
<1>4. Len(buffer) >= 1 /\ head \in Frame
  <2> HIDE DEF Frame
  <2>1. Len(buffer) # 0
    BY <1>2, <1>3
  <2>2. 1 \in 1 .. Len(buffer)
    BY <1>3, <2>1
  <2> QED
    BY <1>3, <2>2
<1>5. /\ buffer' \in Seq(Frame) /\ Len(buffer') = Len(buffer) - 1
      /\ \A i \in 1 .. Len(buffer) - 1 : buffer'[i] = buffer[i + 1]
  BY <1>2, <1>3
<1>6. head.number \in 1 .. FrameMax /\ head.gap \in 0 .. FrameMax - 1
  BY <1>4
<1>7. reported' = lost' /\ lost' \in Nat
  <2>1. CASE last_number = 0
    BY <1>1, <1>2, <1>3, <2>1 DEF Chained
  <2>2. CASE last_number # 0
    <3>1. head.number = After(last_number, head.gap) /\ last_number \in 1 .. FrameMax
      BY <1>1, <1>2, <1>3, <2>2 DEF Chained
    <3>2. Cam!MissedFrames(last_number, head.number) = head.gap
      BY <1>6, <3>1, MissedAreLost
    <3> QED
      BY <1>1, <1>2, <1>3, <1>6, <2>2, <3>2 DEF Chained
  <2> QED
    BY <2>1, <2>2
<1>8. DeviceKept' /\ InfoLoaded' /\ InfoBuilt'
  BY <1>1, <1>2 DEF DeviceKept, InfoLoaded, InfoBuilt, SettingUp
<1>9. CamTypeOK'
  BY <1>1, <1>2, <1>3, <1>5, <1>6, <1>7 DEF CamTypeOK
<1>10. Chained'
  <2>1. \A i \in 2 .. Len(buffer') :
          buffer'[i].number = After(buffer'[i - 1].number, buffer'[i].gap)
    <3> SUFFICES ASSUME NEW i \in 2 .. Len(buffer) - 1
                 PROVE  buffer'[i].number = After(buffer'[i - 1].number, buffer'[i].gap)
      BY <1>5
    <3>1. buffer'[i] = buffer[i + 1]
      BY <1>3, <1>5
    <3>2. buffer'[i - 1] = buffer[i]
      <4>1. i - 1 \in 1 .. Len(buffer) - 1 /\ i - 1 + 1 = i
        BY <1>3
      <4> QED
        BY <1>5, <4>1
    <3>3. i + 1 \in 2 .. Len(buffer) /\ i + 1 - 1 = i
      BY <1>3
    <3>4. buffer[i + 1].number = After(buffer[i + 1 - 1].number, buffer[i + 1].gap)
      BY <1>1, <3>3 DEF Chained
    <3> QED
      BY <3>1, <3>2, <3>3, <3>4
  <2>2. CASE Len(buffer) = 1
    <3>1. buffer' = <<>> /\ gap < exposed /\ head.number = Cam!NumberOf(exposed - gap)
      BY <1>1, <1>2, <1>5, <2>2 DEF Chained
    <3> QED
      BY <1>2, <1>7, <2>1, <3>1 DEF Chained, After, Cam!NumberOf
  <2>3. CASE Len(buffer) # 1
    <3>1. /\ 2 \in 2 .. Len(buffer) /\ 1 \in 1 .. Len(buffer) - 1
          /\ Len(buffer) - 1 \in 1 .. Len(buffer) - 1 /\ Len(buffer) - 1 + 1 = Len(buffer)
          /\ buffer' # <<>>
      BY <1>3, <1>4, <1>5, <2>3
    <3>2. buffer'[1] = buffer[2] /\ buffer'[Len(buffer')] = buffer[Len(buffer)]
      BY <1>5, <3>1
    <3>3. buffer[2].number = After(buffer[1].number, buffer[2].gap)
      <4>1. buffer[2].number = After(buffer[2 - 1].number, buffer[2].gap)
        BY <1>1, <3>1 DEF Chained
      <4> QED
        BY <4>1
    <3>4. buffer'[1].number = After(last_number', buffer'[1].gap)
      BY <1>2, <3>2, <3>3
    <3>5. gap < exposed /\ buffer'[Len(buffer')].number = Cam!NumberOf(exposed - gap)
      BY <1>1, <1>2, <3>2 DEF Chained
    <3> QED
      BY <1>2, <1>7, <2>1, <3>1, <3>4, <3>5 DEF Chained, After, Cam!NumberOf
  <2> QED
    BY <2>2, <2>3
<1> QED
  BY <1>8, <1>9, <1>10 DEF CamInv

(* Its other steps.                                                        *)
LEMMA WorkerKeeps ==
  ASSUME CamInv, Cam!Worker
  PROVE  CamInv'
<1>1. CamTypeOK /\ DeviceKept /\ Chained /\ InfoLoaded /\ InfoBuilt
  BY DEF CamInv
<1>2. CASE Cam!GetFrame
  BY <1>2, GetFrameKeeps
<1>3. CASE Cam!WorkerStarts \/ Cam!StampFrame \/ Cam!WorkerEnds \/ Cam!PublishFrame
  <2>1. /\ UNCHANGED <<config, main, info_template, opened, grabbing, exit_flag>>
        /\ UNCHANGED <<exposed, buffer, gap, last_number, reported, lost>>
        /\ worker \in {"start", "loop", "stamp", "convert"}
        /\ worker' \in {"loop", "convert", "done"}
    BY <1>3
    DEF Cam!WorkerStarts, Cam!StampFrame, Cam!WorkerEnds, Cam!PublishFrame, Cam!mainVars,
        Cam!cameraVars
  <2>2. CamTypeOK' /\ DeviceKept' /\ Chained' /\ InfoLoaded'
    BY <1>1, <2>1 DEF CamTypeOK, DeviceKept, Chained, InfoLoaded, Cam!NumberOf, SettingUp
  <2>3. InfoBuilt'
    <3>1. CASE published' = published
      BY <1>1, <2>1, <3>1 DEF InfoBuilt
    <3>2. CASE published' # published
      <4> DEFINE w == Cam!Resized(config.sensor[1])
                 h == Cam!Resized(config.sensor[2])
      <4>1. published' = [image |-> <<w, h>>,
                          info |-> Cam!BuildCameraInfo(info_template, w, h)]
        BY <1>3, <3>2
        DEF Cam!WorkerStarts, Cam!StampFrame, Cam!WorkerEnds, Cam!PublishFrame
      <4>2. w \in Int /\ h \in Int
        BY <1>1, CameraConstants DEF CamTypeOK, Cam!Resized, Cam!ImageScale
      <4>3. info_template = Cam!LoadCameraInfo(config) /\ Cam!LoadsCameraInfo(config)
        BY <1>1, <2>1 DEF InfoLoaded
      <4> HIDE DEF w, h
      <4>4. /\ Cam!LoadsCameraInfo(config)'
            /\ Cam!LoadCameraInfo(config)' = Cam!LoadCameraInfo(config)
        BY <2>1, <4>3 DEF Cam!LoadsCameraInfo, Cam!LoadCameraInfo, Cam!ReadsSequence
      <4> QED
        BY <4>1, <4>2, <4>3, <4>4 DEF InfoBuilt
    <3> QED
      BY <3>1, <3>2
  <2> QED
    BY <2>2, <2>3 DEF CamInv
<1> QED
  BY <1>2, <1>3 DEF Cam!Worker

LEMMA CameraKeeps ==
  CamInv /\ Cam!Next => CamInv'
BY MainKeeps, ExposeKeeps, WorkerKeeps DEF Cam!Next

LEMMA CameraStutters ==
  CamInv /\ UNCHANGED cameraDriver => CamInv'
<1> SUFFICES ASSUME CamInv, UNCHANGED cameraDriver
             PROVE  CamInv'
  OBVIOUS
<1>1. /\ UNCHANGED <<config, main, info_template, opened, grabbing, exit_flag, worker>>
      /\ UNCHANGED <<exposed, buffer, gap, last_number, reported, lost, published>>
  BY DEF cameraDriver
<1>2. CamTypeOK' /\ DeviceKept'
  BY <1>1 DEF CamInv, CamTypeOK, DeviceKept
<1>3. Chained'
  BY <1>1 DEF CamInv, Chained, Cam!NumberOf
<1>4. InfoLoaded' /\ InfoBuilt'
  BY <1>1 DEF CamInv, InfoLoaded, InfoBuilt
<1> QED
  BY <1>2, <1>3, <1>4 DEF CamInv

(* The published calibration has the size of its image, and without a      *)
(* matrix P in the settings it projects with [K | 0].                      *)
LEMMA InfoFits ==
  ASSUME CamInv
  PROVE  Cam!InfoFitsImage
<1> SUFFICES ASSUME published.info # Cam!NoInfo
             PROVE  Cam!InfoFitsImage
  BY DEF Cam!InfoFitsImage
<1>1. Cam!LoadsCameraInfo(config) /\ config \in Configs
  BY DEF CamInv, CamTypeOK, InfoBuilt
<1>2. PICK w, h \in Int :
        published = [image |-> <<w, h>>,
                     info |-> Cam!BuildCameraInfo(Cam!LoadCameraInfo(config), w, h)]
  BY DEF CamInv, InfoBuilt
<1> DEFINE W == config.width
           H == config.height
           K == config.k
           P == IF config.p = Cam!Absent THEN Cam!ProjectionOf(K, 0) ELSE config.p
           info == published.info
<1>3. /\ W \in Int /\ H \in Int
      /\ \A i \in 1 .. 9 : K[i] \in Int
      /\ config.p # Cam!Absent => \A i \in 1 .. 12 : config.p[i] \in Int
  <2>1. /\ Len(K) = 9
        /\ config.p # Cam!Absent => Len(config.p) = 12
    BY <1>1 DEF Cam!LoadsCameraInfo, Cam!ReadsSequence
  <2>2. W \in Int /\ H \in Int /\ K \in Seq(Int) /\ config.p \in Seq(Int)
    BY <1>1, CameraConstants
  <2>3. \A i \in 1 .. 9 : K[i] \in Int
    BY <2>1, <2>2
  <2>4. config.p # Cam!Absent => \A i \in 1 .. 12 : config.p[i] \in Int
    BY <2>1, <2>2
  <2> QED
    BY <2>2, <2>3, <2>4
<1>4. published.image[1] = w /\ published.image[2] = h /\ info.width = w /\ info.height = h
  BY <1>2 DEF Cam!BuildCameraInfo
<1>5. /\ \A i \in 1 .. 9 :
           info.k[i] = IF i <= 3 THEN <<K[i] * w, W>> ELSE IF i <= 6 THEN <<K[i] * h, H>>
                       ELSE <<K[i] * 1, 1>>
      /\ \A i \in 1 .. 12 :
           info.p[i] = IF i <= 4 THEN <<P[i] * w, W>> ELSE IF i <= 8 THEN <<P[i] * h, H>>
                       ELSE <<P[i] * 1, 1>>
  <2> DEFINE loaded == Cam!LoadCameraInfo(config)
             Scale(r) == Cam!RowScale(loaded, w, h, r)
  <2>1. loaded.width = W /\ loaded.height = H /\ loaded.k = K /\ loaded.p = P
    BY DEF Cam!LoadCameraInfo
  <2>2. Scale(1) = <<w, W>> /\ Scale(2) = <<h, H>> /\ Scale(3) = <<1, 1>>
    BY <2>1 DEF Cam!RowScale
  <2> HIDE DEF Scale
  <2>3. /\ info.k = [i \in 1 .. 9 |-> Cam!Scaled(K[i], Scale(Cam!RowOf(i, 3)))]
        /\ info.p = [i \in 1 .. 12 |-> Cam!Scaled(P[i], Scale(Cam!RowOf(i, 4)))]
    BY <1>2, <2>1 DEF Cam!BuildCameraInfo, Scale
  <2> HIDE DEF info, P, loaded
  <2>4. ASSUME NEW i \in 1 .. 9
        PROVE  info.k[i] = IF i <= 3 THEN <<K[i] * w, W>> ELSE IF i <= 6 THEN <<K[i] * h, H>>
                           ELSE <<K[i] * 1, 1>>
    <3>1. info.k[i] = Cam!Scaled(K[i], Scale(Cam!RowOf(i, 3)))
      BY <2>3
    <3>2. Cam!RowOf(i, 3) = IF i <= 3 THEN 1 ELSE IF i <= 6 THEN 2 ELSE 3
      BY DEF Cam!RowOf
    <3> QED
      BY <2>2, <3>1, <3>2 DEF Cam!Scaled
  <2>5. ASSUME NEW i \in 1 .. 12
        PROVE  info.p[i] = IF i <= 4 THEN <<P[i] * w, W>> ELSE IF i <= 8 THEN <<P[i] * h, H>>
                           ELSE <<P[i] * 1, 1>>
    <3>1. info.p[i] = Cam!Scaled(P[i], Scale(Cam!RowOf(i, 4)))
      BY <2>3
    <3>2. Cam!RowOf(i, 4) = IF i <= 4 THEN 1 ELSE IF i <= 8 THEN 2 ELSE 3
      BY DEF Cam!RowOf
    <3> QED
      BY <2>2, <3>1, <3>2 DEF Cam!Scaled
  <2> QED
    BY <2>4, <2>5
<1>8. /\ \A i \in 1 .. 3 : Cam!Equal(info.k[i], <<K[i] * w, W>>)
      /\ \A i \in 4 .. 6 : Cam!Equal(info.k[i], <<K[i] * h, H>>)
  <2>1. \A i \in 1 .. 3 : info.k[i] = <<K[i] * w, W>>
    BY <1>5
  <2>2. \A i \in 4 .. 6 : info.k[i] = <<K[i] * h, H>>
    BY <1>5
  <2> QED
    BY <2>1, <2>2 DEF Cam!Equal
<1>9. ASSUME config.p = Cam!Absent, NEW i \in 1 .. 12
      PROVE  Cam!Equal(info.p[i], Cam!ProjectionOf(info.k, <<0, 1>>)[i])
  <2>1. /\ P[1] = K[1] /\ P[2] = K[2] /\ P[3] = K[3] /\ P[4] = 0
        /\ P[5] = K[4] /\ P[6] = K[5] /\ P[7] = K[6] /\ P[8] = 0
        /\ P[9] = K[7] /\ P[10] = K[8] /\ P[11] = K[9] /\ P[12] = 0
    BY <1>9 DEF Cam!ProjectionOf
  <2> DEFINE Q == Cam!ProjectionOf(info.k, <<0, 1>>)
  <2>2. /\ Q[1] = info.k[1] /\ Q[2] = info.k[2] /\ Q[3] = info.k[3] /\ Q[4] = <<0, 1>>
        /\ Q[5] = info.k[4] /\ Q[6] = info.k[5] /\ Q[7] = info.k[6] /\ Q[8] = <<0, 1>>
        /\ Q[9] = info.k[7] /\ Q[10] = info.k[8] /\ Q[11] = info.k[9] /\ Q[12] = <<0, 1>>
    BY DEF Cam!ProjectionOf
  <2>3. /\ info.k[1] = <<K[1] * w, W>> /\ info.k[2] = <<K[2] * w, W>>
        /\ info.k[3] = <<K[3] * w, W>> /\ info.k[4] = <<K[4] * h, H>>
        /\ info.k[5] = <<K[5] * h, H>> /\ info.k[6] = <<K[6] * h, H>>
        /\ info.k[7] = <<K[7] * 1, 1>> /\ info.k[8] = <<K[8] * 1, 1>>
        /\ info.k[9] = <<K[9] * 1, 1>>
    BY <1>5
  <2>4. /\ info.p[1] = <<P[1] * w, W>> /\ info.p[2] = <<P[2] * w, W>>
        /\ info.p[3] = <<P[3] * w, W>> /\ info.p[4] = <<P[4] * w, W>>
        /\ info.p[5] = <<P[5] * h, H>> /\ info.p[6] = <<P[6] * h, H>>
        /\ info.p[7] = <<P[7] * h, H>> /\ info.p[8] = <<P[8] * h, H>>
        /\ info.p[9] = <<P[9] * 1, 1>> /\ info.p[10] = <<P[10] * 1, 1>>
        /\ info.p[11] = <<P[11] * 1, 1>> /\ info.p[12] = <<P[12] * 1, 1>>
    BY <1>5
  <2> HIDE DEF P, Q, info
  <2>5. /\ Cam!Equal(info.p[4], Q[4]) /\ Cam!Equal(info.p[8], Q[8])
        /\ Cam!Equal(info.p[12], Q[12])
    BY <1>2, <1>3, <2>1, <2>2, <2>4 DEF Cam!Equal
  <2>6. /\ info.p[1] = Q[1] /\ info.p[2] = Q[2] /\ info.p[3] = Q[3]
        /\ info.p[5] = Q[5] /\ info.p[6] = Q[6] /\ info.p[7] = Q[7]
        /\ info.p[9] = Q[9] /\ info.p[10] = Q[10] /\ info.p[11] = Q[11]
    BY <2>1, <2>2, <2>3, <2>4
  <2>7. \A j \in {1, 2, 3, 5, 6, 7, 9, 10, 11} : Cam!Equal(info.p[j], info.p[j])
    BY DEF Cam!Equal
  <2>8. i \in {1, 2, 3, 4, 5, 6, 7, 8, 9, 10, 11, 12}
    OBVIOUS
  <2>9. Cam!Equal(info.p[i], Q[i])
    BY <2>5, <2>6, <2>7, <2>8
  <2> QED
    BY <2>9 DEF Q
<1>10. config.p # Cam!Absent =>
         /\ Cam!Equal(info.p[4], <<config.p[4] * w, W>>)
         /\ Cam!Equal(info.p[8], <<config.p[8] * h, H>>)
  <2> SUFFICES ASSUME config.p # Cam!Absent
               PROVE  /\ Cam!Equal(info.p[4], <<config.p[4] * w, W>>)
                      /\ Cam!Equal(info.p[8], <<config.p[8] * h, H>>)
    OBVIOUS
  <2>1. info.p[4] = <<config.p[4] * w, W>> /\ info.p[8] = <<config.p[8] * h, H>>
    BY <1>5
  <2> QED
    BY <2>1 DEF Cam!Equal
<1> QED
  BY <1>4, <1>8, <1>9, <1>10 DEF Cam!InfoFitsImage

LEMMA CameraSound ==
  CamInv => Cam!TypeOK /\ Cam!FrameAccounting /\ Cam!WorkerHasDevice /\ Cam!InfoFitsImage
<1> SUFFICES ASSUME CamInv
             PROVE  /\ Cam!TypeOK /\ Cam!FrameAccounting /\ Cam!WorkerHasDevice
                    /\ Cam!InfoFitsImage
  OBVIOUS
<1>1. Cam!TypeOK
  BY SetUpOrder, TakeDownOrder DEF CamInv, CamTypeOK, SettingUp, Cam!TypeOK
<1>2. Cam!FrameAccounting
  BY DEF CamInv, Chained, Cam!FrameAccounting
<1>3. Cam!WorkerHasDevice
  BY DEF CamInv, DeviceKept, Cam!WorkerHasDevice
<1> QED
  BY <1>1, <1>2, <1>3, InfoFits

-------------------------------------------------------------------------------
(***************************************************************************)
(* The receiver's nodes: the NTRIP client                                  *)
(***************************************************************************)
(* NTRIP: the flag of a login belongs to the session it was started for.   *)
NtripInv ==
  /\ {swas_status, auth_flag, calib_flag, socket_flag} \subseteq BOOLEAN
  /\ session \in Nat /\ authOf \in {0, session} /\ data \in Nat
  /\ write \in Seq(Nat) /\ Len(write) <= NtripDepth
  /\ pc \in {"main", "exited", "connect", "waitSocket", "calib", "waitCalib", "auth",
             "waitAuth", "success", "spin", "cleanup", "upload"}

LEMMA NtripStarts == Ntrip!Init => NtripInv
<1> SUFFICES ASSUME Ntrip!Init
             PROVE  NtripInv
  OBVIOUS
<1>1. NtripDepth \in Nat
  BY ProgressAssumption DEF Ntrip!NtripAssumption
<1>2. write \in Seq(Nat) /\ Len(write) <= NtripDepth
  <2>1. write = <<>>
    BY DEF Ntrip!Init
  <2>2. <<>> \in Seq(Nat) /\ Len(<<>>) = 0
    OBVIOUS
  <2> QED
    BY <1>1, <2>1, <2>2
<1>3. /\ swas_status = FALSE /\ auth_flag = FALSE /\ calib_flag = FALSE
      /\ socket_flag = FALSE /\ authOf = 0 /\ pc = "main" /\ session = 0 /\ data = 0
  BY DEF Ntrip!Init
<1> QED
  BY <1>2, <1>3 DEF NtripInv

LEMMA NtripKeeps == NtripInv /\ (Ntrip!Next \/ UNCHANGED ntripVars) => NtripInv'
<1> SUFFICES ASSUME NtripInv, Ntrip!Next \/ UNCHANGED ntripVars
             PROVE  NtripInv'
  OBVIOUS
<1> USE DEF NtripInv, Ntrip!flags, Ntrip!config, Ntrip!counts, Ntrip!traffic
<1>1. CASE Ntrip!Main
  <2>1. /\ UNCHANGED <<swas_status, auth_flag, calib_flag, socket_flag, authOf, session,
                      write, data>>
        /\ pc' = "connect" \/ pc' = "exited"
    BY <1>1 DEF Ntrip!Main
  <2> QED
    BY <2>1
<1>2. CASE Ntrip!ConnectStart
  <2>1. /\ auth_flag' = FALSE /\ calib_flag' = FALSE /\ socket_flag' = FALSE
        /\ authOf' = 0 /\ session' = session + 1 /\ pc' = "waitSocket"
        /\ UNCHANGED <<swas_status, write, data>>
    BY <1>2 DEF Ntrip!ConnectStart
  <2>2. session' \in Nat /\ authOf' \in {0, session'}
    BY <2>1
  <2>3. /\ {swas_status', auth_flag', calib_flag', socket_flag'} \subseteq BOOLEAN
        /\ data' \in Nat /\ write' \in Seq(Nat) /\ Len(write') <= NtripDepth
    BY <2>1
  <2> QED
    BY <2>1, <2>2, <2>3
<1>3. CASE Ntrip!StartFails \/ Ntrip!AuthCallFails \/ Ntrip!WaitRunsOut
  BY <1>3 DEF Ntrip!StartFails, Ntrip!AuthCallFails, Ntrip!WaitRunsOut, Ntrip!GiveUp
<1>4. CASE Ntrip!WaitSocket
  BY <1>4 DEF Ntrip!WaitSocket
<1>5. CASE Ntrip!Calib
  BY <1>5 DEF Ntrip!Calib
<1>6. CASE Ntrip!WaitCalib
  BY <1>6 DEF Ntrip!WaitCalib
<1>7. CASE Ntrip!Auth
  BY <1>7 DEF Ntrip!Auth
<1>8. CASE Ntrip!WaitAuth
  BY <1>8 DEF Ntrip!WaitAuth
<1>9. CASE Ntrip!ConnectSuccess
  BY <1>9 DEF Ntrip!ConnectSuccess
<1>10. CASE Ntrip!Gga
  BY <1>10 DEF Ntrip!Gga
<1>11. CASE Ntrip!Cleanup \/ Ntrip!Upload
  BY <1>11 DEF Ntrip!Cleanup, Ntrip!Upload
<1>12. CASE Ntrip!status_callback
  BY <1>12 DEF Ntrip!status_callback
<1>13. CASE Ntrip!calib_callback
  BY <1>13 DEF Ntrip!calib_callback
<1>14. CASE Ntrip!AuthSucceeds
  BY <1>14 DEF Ntrip!AuthSucceeds
<1>15. CASE Ntrip!AuthFails
  BY <1>15 DEF Ntrip!AuthFails
<1>16. CASE Ntrip!data_callback
  <2>1. NtripDepth \in Nat \ {0} /\ Len(write) \in Nat
    BY ProgressAssumption DEF Ntrip!NtripAssumption
  <2>2. /\ UNCHANGED <<swas_status, auth_flag, calib_flag, socket_flag, session, authOf, pc>>
        /\ data' = data + 1
        /\ write' = IF Len(write) < NtripDepth THEN Append(write, data + 1)
                    ELSE Append(Tail(write), data + 1)
    BY <1>16 DEF Ntrip!data_callback
  <2>3. write' \in Seq(Nat) /\ Len(write') <= NtripDepth
    <3>1. CASE Len(write) < NtripDepth
      BY <2>1, <2>2, <3>1
    <3>2. CASE Len(write) >= NtripDepth
      <4>1. write # <<>> /\ Len(write) = NtripDepth
        BY <2>1, <3>2
      <4>2. Tail(write) \in Seq(Nat) /\ Len(Tail(write)) = NtripDepth - 1
        BY <2>1, <4>1
      <4>3. write' = Append(Tail(write), data + 1) /\ data + 1 \in Nat
        BY <2>1, <2>2, <3>2
      <4> QED
        BY <2>1, <4>2, <4>3
    <3> QED
      BY <2>1, <3>1, <3>2
  <2> QED
    BY <2>2, <2>3
<1>17. CASE Ntrip!Exited \/ UNCHANGED ntripVars
  BY <1>17 DEF Ntrip!Exited, Ntrip!vars, ntripVars
<1> QED
  BY <1>1, <1>2, <1>3, <1>4, <1>5, <1>6, <1>7, <1>8, <1>9, <1>10, <1>11, <1>12, <1>13, <1>14,
     <1>15, <1>16, <1>17
  DEF Ntrip!Next, Ntrip!Executor, Ntrip!Callbacks

LEMMA NtripSound == NtripInv => Ntrip!TypeOK /\ Ntrip!SuccessIsCurrent
BY DEF NtripInv, Ntrip!TypeOK, Ntrip!SuccessIsCurrent

-------------------------------------------------------------------------------
(* Connectors: what is open is the connection and what was left behind.    *)
Descriptors ==
  /\ status \in {-1, 1} /\ fds \in 0 .. MaxFds /\ leaks \in 0 .. MaxFds
  /\ fds = leaks + (IF status = 1 THEN 1 ELSE 0)
SocketsKept ==
  /\ run \in {"launch", "running", "exited", "terminated", "undefined"}
  /\ parity \in {"none", "odd", "even"}
  /\ address \in {"any", "peer"}
  /\ socketfd \in BOOLEAN /\ (status = 1 => socketfd)
  /\ Descriptors
DeviceTyped ==
  up \in BOOLEAN /\ downs \in 0 .. MaxDowns
InboxKept ==
  /\ sent \in 0 .. MaxSent /\ received \in Nat
  /\ inbox \in Seq({"data", "empty"}) /\ received + Len(inbox) <= sent
ConnInv == SocketsKept /\ DeviceTyped /\ InboxKept

Opens == fds' = fds + 1 /\ socketfd' = TRUE /\ status' = 1

sockets == <<run, parity, status, socketfd, address, fds, leaks>>

LEMMA ConnConstants == MaxFds \in Nat \ {0} /\ MaxSent \in Nat /\ MaxDowns \in Nat
BY ProgressAssumption DEF Conn!ConnectorAssumption

LEMMA SocketsStay == SocketsKept /\ UNCHANGED sockets => SocketsKept'
BY DEF SocketsKept, Descriptors, sockets

LEMMA DeviceStays == DeviceTyped /\ UNCHANGED <<up, downs>> => DeviceTyped'
BY DEF DeviceTyped

LEMMA InboxStays == InboxKept /\ UNCHANGED <<sent, received, inbox>> => InboxKept'
BY DEF InboxKept

LEMMA ConnStarts == Conn!Init => ConnInv
<1> SUFFICES ASSUME Conn!Init
             PROVE  ConnInv
  OBVIOUS
<1>1. /\ run = "launch" /\ parity = "none" /\ status = -1 /\ fds = 0 /\ socketfd = FALSE
      /\ leaks = 0 /\ address = "any" /\ up \in BOOLEAN /\ downs = 0
      /\ inbox = <<>> /\ sent = 0 /\ received = 0
  BY DEF Conn!Init
<1>2. SocketsKept
  <2>1. Descriptors /\ status # 1
    BY <1>1, ConnConstants DEF Descriptors
  <2> QED
    BY <1>1, <2>1 DEF SocketsKept
<1>3. DeviceTyped
  <2>1. downs \in 0 .. MaxDowns
    BY <1>1, ConnConstants
  <2> QED
    BY <1>1, <2>1 DEF DeviceTyped
<1>4. InboxKept
  <2>1. <<>> \in Seq({"data", "empty"}) /\ Len(<<>>) = 0
    OBVIOUS
  <2> QED
    BY <1>1, <2>1, ConnConstants DEF InboxKept
<1> QED
  BY <1>2, <1>3, <1>4 DEF ConnInv

(* A message read is one fewer in the inbox.                               *)
LEMMA InboxShrinks ==
  ASSUME InboxKept, inbox # <<>>, inbox' = Tail(inbox), UNCHANGED sent,
         received' = received + 1 \/ received' = received
  PROVE  InboxKept'
<1>1. Len(inbox) \in Nat /\ inbox' \in Seq({"data", "empty"}) /\ Len(inbox') = Len(inbox) - 1
  BY DEF InboxKept
<1> QED
  BY <1>1 DEF InboxKept

LEMMA ConnectionOpens ==
  ASSUME SocketsKept, status # 1, fds < MaxFds, Opens, UNCHANGED <<run, parity, leaks, address>>
  PROVE  SocketsKept'
<1>1. Descriptors'
  BY ConnConstants DEF SocketsKept, Descriptors, Opens
<1> QED
  BY <1>1 DEF SocketsKept, Opens

LEMMA Disconnects ==
  ASSUME SocketsKept, status = 1, fds' = fds - 1, socketfd' = FALSE, status' = -1,
         address' \in {"any", "peer"}, UNCHANGED <<run, parity, leaks>>
  PROVE  SocketsKept'
<1>1. Descriptors' /\ status' # 1
  BY ConnConstants DEF SocketsKept, Descriptors
<1> QED
  BY <1>1 DEF SocketsKept

LEMMA ConnKeeps == ConnInv /\ (Conn!Next \/ UNCHANGED connectorVars) => ConnInv'
<1> SUFFICES ASSUME SocketsKept, DeviceTyped, InboxKept, Conn!Next \/ UNCHANGED connectorVars
             PROVE  SocketsKept' /\ DeviceTyped' /\ InboxKept'
  BY DEF ConnInv
<1>1. CASE Conn!Launch
  <2>1. UNCHANGED <<status, fds, socketfd, leaks, address, up, downs, inbox, sent, received>>
    BY <1>1 DEF Conn!Launch, Conn!conn, Conn!env
  <2>2. run' \in {"undefined", "exited", "running"}
    BY <1>1 DEF Conn!Launch
  <2>3. parity' = parity \/ parity' \in {"none", "odd", "even"}
    BY <1>1 DEF Conn!Launch, Conn!Parity
  <2>4. SocketsKept'
    BY <2>1, <2>2, <2>3 DEF SocketsKept, Descriptors
  <2> QED
    BY <2>1, <2>4, DeviceStays, InboxStays
<1>2. CASE Conn!Connect
  <2>1. run = "running" /\ status # 1 /\ UNCHANGED <<parity, up, downs, inbox, sent, received>>
    BY <1>2 DEF Conn!Connect, Conn!env
  <2>2. CASE Conn!ConnectSocket
    <3>1. /\ fds' = IF fds < MaxFds THEN fds + 1 ELSE fds
          /\ socketfd' = (fds < MaxFds) /\ (fds < MaxFds) \in BOOLEAN
          /\ address' = address \/ address' = "peer"
          /\ UNCHANGED run
          /\ \/ status' = 1 /\ fds < MaxFds /\ leaks' = leaks
             \/ status' = -1 /\ leaks' = IF fds < MaxFds THEN leaks + 1 ELSE leaks
             \/ status' = -1 /\ ~ (fds < MaxFds) /\ leaks' = leaks
      BY <2>2 DEF Conn!ConnectSocket, Conn!CanOpen
    <3>2. Descriptors'
      BY <2>1, <3>1, ConnConstants DEF SocketsKept, Descriptors
    <3>3. socketfd' \in BOOLEAN /\ (status' = 1 => socketfd')
      <4>1. status' = 1 => fds < MaxFds
        BY <3>1
      <4> QED
        BY <3>1, <4>1, Zenon
    <3>4. SocketsKept'
      BY <2>1, <3>1, <3>2, <3>3 DEF SocketsKept
    <3> QED
      BY <2>1, <3>4, DeviceStays, InboxStays
  <2>3. CASE Conn!ConnectFile
    <3>1. /\ UNCHANGED <<run, leaks, address>>
          /\ \/ fds < MaxFds /\ Opens
             \/ UNCHANGED <<fds, socketfd, status>>
      BY <2>3 DEF Conn!ConnectFile, Conn!CanOpen, Opens
    <3> QED
      BY <2>1, <3>1, ConnectionOpens, SocketsStay, DeviceStays, InboxStays DEF sockets
  <2>4. CASE Conn!ConnectSerial
    <3>1. /\ UNCHANGED <<leaks, address>>
          /\ \/ fds < MaxFds /\ Opens /\ run' = run
             \/ run' = "terminated" /\ UNCHANGED <<fds, socketfd, status>>
      BY <2>4 DEF Conn!ConnectSerial, Conn!CanOpen, Opens
    <3>2. CASE run' = "terminated" /\ UNCHANGED <<fds, socketfd, status>>
      <4>1. SocketsKept'
        BY <2>1, <3>1, <3>2 DEF SocketsKept, Descriptors
      <4> QED
        BY <2>1, <4>1, DeviceStays, InboxStays
    <3> QED
      BY <2>1, <3>1, <3>2, ConnectionOpens, DeviceStays, InboxStays
  <2> QED
    BY <1>2, <2>2, <2>3, <2>4 DEF Conn!Connect
<1>3. CASE Conn!ReadData
  <2>1. /\ status = 1 /\ inbox # <<>> /\ inbox' = Tail(inbox) /\ received' = received + 1
        /\ address' = address \/ address' = "peer"
        /\ UNCHANGED <<run, parity, status, fds, socketfd, leaks, up, downs, sent>>
    BY <1>3 DEF Conn!ReadData, Conn!Sender
  <2>2. InboxKept'
    BY <2>1, InboxShrinks
  <2>3. SocketsKept'
    BY <2>1 DEF SocketsKept, Descriptors
  <2> QED
    BY <2>1, <2>2, <2>3, DeviceStays
<1>4. CASE Conn!ReadEmpty
  <2>1. /\ status = 1 /\ inbox # <<>> /\ inbox' = Tail(inbox) /\ received' = received
        /\ address' = address \/ address' = "peer"
        /\ fds' = fds - 1 /\ socketfd' = FALSE /\ status' = -1
        /\ UNCHANGED <<run, parity, leaks, up, downs, sent>>
    BY <1>4 DEF Conn!ReadEmpty, Conn!Sender, Conn!Disconnect
  <2>2. InboxKept'
    BY <2>1, InboxShrinks
  <2>3. address' \in {"any", "peer"}
    BY <2>1 DEF SocketsKept
  <2>4. SocketsKept'
    BY <2>1, <2>3, Disconnects
  <2> QED
    BY <2>1, <2>2, <2>4, DeviceStays
<1>5. CASE Conn!ReadGone
  <2>1. /\ status = 1 /\ UNCHANGED <<parity, leaks, address, up, downs, inbox, sent, received>>
    BY <1>5 DEF Conn!ReadGone, Conn!env
  <2>2. \/ fds' = fds - 1 /\ socketfd' = FALSE /\ status' = -1 /\ run' = run
        \/ run' = "terminated" /\ UNCHANGED <<status, fds, socketfd>>
    BY <1>5 DEF Conn!ReadGone, Conn!Disconnect
  <2>3. address' \in {"any", "peer"}
    BY <2>1 DEF SocketsKept
  <2>4. SocketsKept'
    <3>1. CASE fds' = fds - 1 /\ socketfd' = FALSE /\ status' = -1 /\ run' = run
      BY <2>1, <2>3, <3>1, Disconnects
    <3>2. CASE run' = "terminated" /\ UNCHANGED <<status, fds, socketfd>>
      BY <2>1, <3>2 DEF SocketsKept, Descriptors
    <3> QED
      BY <2>2, <3>1, <3>2
  <2> QED
    BY <2>1, <2>4, DeviceStays, InboxStays
<1>6. CASE Conn!DeviceGoes
  <2>1. /\ downs < MaxDowns /\ up' = FALSE /\ downs' = downs + 1
        /\ inbox' = <<>> \/ inbox' = inbox
        /\ UNCHANGED <<run, parity, status, fds, socketfd, leaks, address, sent, received>>
    BY <1>6 DEF Conn!DeviceGoes, Conn!conn
  <2>2. DeviceTyped'
    <3>1. downs' \in 0 .. MaxDowns
      BY <2>1, ConnConstants DEF DeviceTyped
    <3> QED
      BY <2>1, <3>1 DEF DeviceTyped
  <2>3. Len(inbox) \in Nat /\ Len(<<>>) = 0 /\ <<>> \in Seq({"data", "empty"})
    BY DEF InboxKept
  <2>4. InboxKept'
    <3>1. CASE inbox' = inbox
      BY <2>1, <3>1, InboxStays
    <3>2. CASE inbox' = <<>>
      <4>1. inbox' \in Seq({"data", "empty"}) /\ Len(inbox') = 0
        BY <2>3, <3>2
      <4> QED
        BY <2>1, <2>3, <4>1 DEF InboxKept
    <3> QED
      BY <2>1, <3>1, <3>2
  <2>5. SocketsKept'
    BY <2>1, SocketsStay DEF sockets
  <2> QED
    BY <2>2, <2>4, <2>5
<1>7. CASE Conn!DeviceComes
  <2>1. /\ up' = TRUE
        /\ UNCHANGED <<run, parity, status, fds, socketfd, leaks, address, downs, inbox, sent,
                      received>>
    BY <1>7 DEF Conn!DeviceComes, Conn!conn
  <2>2. SocketsKept' /\ InboxKept'
    BY <2>1, SocketsStay, InboxStays DEF sockets
  <2> QED
    BY <2>1, <2>2 DEF DeviceTyped
<1>8. CASE Conn!DeviceSends
  <2>1. /\ sent < MaxSent /\ sent' = sent + 1
        /\ UNCHANGED <<run, parity, status, fds, socketfd, leaks, address, up, downs, received>>
    BY <1>8 DEF Conn!DeviceSends, Conn!conn
  <2>2. PICK m \in {"data", "empty"} : inbox' = IF status = 1 THEN Append(inbox, m) ELSE inbox
    BY <1>8 DEF Conn!DeviceSends
  <2>3. /\ Len(inbox) \in Nat /\ Append(inbox, m) \in Seq({"data", "empty"})
        /\ Len(Append(inbox, m)) = Len(inbox) + 1
    BY DEF InboxKept
  <2>4. /\ inbox' \in Seq({"data", "empty"}) /\ Len(inbox') <= Len(inbox) + 1
        /\ Len(inbox') \in Nat
    <3>1. CASE status = 1
      BY <2>2, <2>3, <3>1
    <3>2. CASE status # 1
      BY <2>2, <2>3, <3>2 DEF InboxKept
    <3> QED
      BY <3>1, <3>2
  <2>5. InboxKept'
    BY <2>1, <2>3, <2>4, ConnConstants DEF InboxKept
  <2>6. SocketsKept' /\ DeviceTyped'
    BY <2>1, SocketsStay, DeviceStays DEF sockets
  <2> QED
    BY <2>5, <2>6
<1>9. CASE Conn!Stopped \/ Conn!ReadNothing \/ UNCHANGED connectorVars
  <2>1. UNCHANGED sockets /\ UNCHANGED <<up, downs>> /\ UNCHANGED <<sent, received, inbox>>
    BY <1>9
    DEF Conn!Stopped, Conn!ReadNothing, Conn!vars, Conn!conn, Conn!env, connectorVars, sockets
  <2> QED
    BY <2>1, SocketsStay, DeviceStays, InboxStays
<1> QED
  BY <1>1, <1>2, <1>3, <1>4, <1>5, <1>6, <1>7, <1>8, <1>9 DEF Conn!Next

LEMMA ConnSound == ConnInv => Conn!TypeOK /\ Conn!DescriptorsAccounted
<1> SUFFICES ASSUME ConnInv
             PROVE  Conn!TypeOK /\ Conn!DescriptorsAccounted
  OBVIOUS
<1>1. received \in 0 .. MaxSent
  <2>1. Len(inbox) \in Nat
    BY DEF ConnInv, InboxKept
  <2> QED
    BY <2>1, ConnConstants DEF ConnInv, InboxKept
<1> QED
  BY <1>1
  DEF ConnInv, SocketsKept, Descriptors, DeviceTyped, InboxKept, Conn!TypeOK,
      Conn!DescriptorsAccounted

-------------------------------------------------------------------------------
(***************************************************************************)
(* The protocol node and the adapter                                       *)
(***************************************************************************)
(* Protocol node and adapter.  What waits is in order and later than what  *)
(* was published; both stamps are the GPS time less the leap seconds of    *)
(* the last solution; every fix and every solution is a verdict on a       *)
(* devpvt, and no two of those are of one second.                          *)
Messages == UNION {Gnss!Frames(t) : t \in Nat}
Pvts == [second : Nat, stamp : Int, stat : Nat]
Stamps == [second : Int, stamp : Int]

Ascending(q) == \A i, j \in DOMAIN q : i < j => q[i].second < q[j].second
Between(q, first, latest) ==
  \A i \in DOMAIN q : first < q[i].second /\ q[i].second <= latest
Among(q, all) == \A i \in DOMAIN q : \E k \in DOMAIN all : q[i] = all[k]
OnePerSecond(all) ==
  \A k, l \in DOMAIN all : all[k].second = all[l].second => all[k] = all[l]
UpTo(all, last) == \A k \in DOMAIN all : all[k].second <= last

QueuesTyped ==
  /\ now \in Nat /\ g_leaps \in Nat
  /\ sentences \in Seq(Messages) /\ own \in Seq(Pvts) /\ adapter \in Seq(Pvts)
  /\ pvts \in Seq(Pvts) /\ lastPvt \in Stamps /\ lastImu \in Stamps
  /\ fixes \in Seq([second : Nat, stamp : Int, status : {"FIX", "NO_FIX"}])
  /\ solutions \in Seq([second : Nat, carr_soln : {1, 2}, heading_valid : BOOLEAN])
Served ==
  /\ ready \subseteq {"own", "sentences"} /\ Len(own) <= 1
  /\ "own" \in ready => own # <<>>
  /\ "sentences" \in ready => sentences # <<>>
  /\ "sentences" \in ready /\ "own" \notin ready => own = <<>>
SentencesAhead ==
  /\ Ascending(sentences)
  /\ Between(sentences, lastPvt.second, now) /\ Between(sentences, lastImu.second, now)
OneClock ==
  /\ lastPvt.second <= now /\ lastImu.second <= now
  /\ lastPvt = Gnss!None \/ lastPvt.stamp = lastPvt.second - g_leaps
  /\ lastPvt # Gnss!None /\ lastImu.second > lastPvt.second =>
       lastImu.stamp = lastImu.second - g_leaps
PvtsDistinct == OnePerSecond(pvts) /\ UpTo(pvts, lastPvt.second)
PvtsQueued == Among(own, pvts) /\ Among(adapter, pvts)
FixOf(fix, pvt) ==
  fix.second = pvt.second
    /\ fix.status = IF Gnss!Fixed(pvt.stat) THEN "FIX" ELSE "NO_FIX"
SolutionOf(solution, pvt) ==
  /\ solution.second = pvt.second /\ Gnss!Accepts(pvt.stat)
  /\ solution.carr_soln = Gnss!CarrierSolution(pvt.stat)
FixesStem == \A i \in DOMAIN fixes : \E k \in DOMAIN pvts : FixOf(fixes[i], pvts[k])
SolutionsStem ==
  \A i \in DOMAIN solutions : \E k \in DOMAIN pvts : SolutionOf(solutions[i], pvts[k])
GnssInv ==
  QueuesTyped /\ Served /\ SentencesAhead /\ OneClock /\ PvtsDistinct /\ PvtsQueued
    /\ FixesStem /\ SolutionsStem

LEMMA GnssConstants ==
  GnssDepth \in Nat \ {0} /\ Leaps \subseteq Nat /\ Stats \subseteq Nat /\ AcceptFloat \in BOOLEAN
BY ProgressAssumption DEF Gnss!GnssAssumption

LEMMA FramesAre ==
  ASSUME NEW t \in Nat, NEW msg \in Gnss!Frames(t)
  PROVE  msg.second = t /\ msg.leaps \in Nat /\ msg.stat \in Nat
<1> DEFINE Pvt == [second : {t}, id : {"INSPVATZCB"}, size : {296}, damaged : {FALSE},
                   leaps : Leaps, stat : Stats]
           Odd == [second : {t}, id : {"INSPVATZCB"}, size : {296, 68}, damaged : BOOLEAN,
                   leaps : {18}, stat : {4}]
           Imu == [second : {t}, id : {"RAWIMUIB"}, size : {296, 68, 34}, damaged : {FALSE},
                   leaps : {18}, stat : {4}]
           Other == [second : {t}, id : {"other"}, size : {296}, damaged : {FALSE},
                     leaps : {18}, stat : {4}]
<1>1. Gnss!Frames(t) = Pvt \cup Odd \cup Imu \cup Other
  BY DEF Gnss!Frames
<1>2. CASE msg \in Pvt
  <2>1. msg.second = t /\ msg.leaps \in Leaps /\ msg.stat \in Stats
    BY <1>2
  <2> QED
    BY <2>1, GnssConstants
<1>3. CASE msg \in Odd
  BY <1>3
<1>4. CASE msg \in Imu
  BY <1>4
<1>5. CASE msg \in Other
  BY <1>5
<1> HIDE DEF Pvt, Odd, Imu, Other
<1> QED
  BY <1>1, <1>2, <1>3, <1>4, <1>5

LEMMA MessagesAre ==
  ASSUME NEW msg \in Messages
  PROVE  msg.second \in Nat /\ msg.leaps \in Nat /\ msg.stat \in Nat
BY FramesAre DEF Messages

(* The rest of a queue, and what appending does to one.                    *)
LEMMA Rest ==
  ASSUME NEW S, NEW q \in Seq(S), q # <<>>
  PROVE  /\ Tail(q) \in Seq(S) /\ Len(Tail(q)) = Len(q) - 1 /\ Len(q) \in Nat \ {0}
         /\ 1 \in DOMAIN q /\ Head(q) = q[1] /\ q[1] \in S
         /\ \A i \in DOMAIN Tail(q) :
              i \in Nat \ {0} /\ i + 1 \in DOMAIN q /\ Tail(q)[i] = q[i + 1]
OBVIOUS

LEMMA Longer ==
  ASSUME NEW S, NEW q \in Seq(S), NEW x \in S
  PROVE  /\ Append(q, x) \in Seq(S) /\ Append(q, x) # <<>> /\ Len(Append(q, x)) = Len(q) + 1
         /\ \A i \in DOMAIN Append(q, x) :
              \/ i \in DOMAIN q /\ Append(q, x)[i] = q[i]
              \/ i = Len(q) + 1 /\ Append(q, x)[i] = x
         /\ \A i \in DOMAIN q : i \in DOMAIN Append(q, x) /\ Append(q, x)[i] = q[i]
         /\ Len(q) + 1 \in DOMAIN Append(q, x) /\ Append(q, x)[Len(q) + 1] = x
         /\ \A i \in DOMAIN q : i \in Nat /\ i <= Len(q)
OBVIOUS

LEMMA PutIs ==
  ASSUME NEW S, NEW q \in Seq(S), NEW x \in S
  PROVE  \E rest \in Seq(S) : /\ rest = q \/ (q # <<>> /\ rest = Tail(q))
                              /\ Gnss!Put(q, x) = Append(rest, x)
<1>1. CASE Len(q) < GnssDepth
  BY <1>1 DEF Gnss!Put
<1>2. CASE ~ (Len(q) < GnssDepth)
  <2>1. q # <<>>
    BY <1>2, GnssConstants
  <2>2. Tail(q) \in Seq(S)
    BY <2>1
  <2> QED
    BY <1>2, <2>1, <2>2 DEF Gnss!Put
<1> QED
  BY <1>1, <1>2

LEMMA RestOrdered ==
  ASSUME NEW q \in Seq(Messages), q # <<>>, Ascending(q), NEW first, NEW latest, Between(q, first, latest)
  PROVE  /\ Ascending(Tail(q)) /\ Between(Tail(q), first, latest)
         /\ Between(Tail(q), q[1].second, latest)
<1>1. \A i \in DOMAIN Tail(q) :
        i \in Nat \ {0} /\ i + 1 \in DOMAIN q /\ Tail(q)[i] = q[i + 1]
  BY Rest
<1>2. 1 \in DOMAIN q
  BY Rest
<1>3. Ascending(Tail(q))
  <2> SUFFICES ASSUME NEW i \in DOMAIN Tail(q), NEW j \in DOMAIN Tail(q), i < j
               PROVE  Tail(q)[i].second < Tail(q)[j].second
    BY DEF Ascending
  <2>1. i + 1 < j + 1
    BY <1>1
  <2> QED
    BY <1>1, <2>1 DEF Ascending
<1>4. Between(Tail(q), first, latest)
  BY <1>1 DEF Between
<1>5. Between(Tail(q), q[1].second, latest)
  <2> SUFFICES ASSUME NEW i \in DOMAIN Tail(q)
               PROVE  q[1].second < Tail(q)[i].second /\ Tail(q)[i].second <= latest
    BY DEF Between
  <2>1. 1 < i + 1
    BY <1>1
  <2> QED
    BY <1>1, <1>2, <1>4, <2>1 DEF Ascending, Between
<1> QED
  BY <1>3, <1>4, <1>5

LEMMA LaterJoins ==
  ASSUME NEW q \in Seq(Messages), Ascending(q), NEW first \in Int, NEW latest \in Int, Between(q, first, latest),
         NEW x \in Messages, latest < x.second, first <= latest
  PROVE  Ascending(Append(q, x)) /\ Between(Append(q, x), first, x.second)
<1>1. \A i \in DOMAIN Append(q, x) :
        \/ i \in DOMAIN q /\ Append(q, x)[i] = q[i]
        \/ i = Len(q) + 1 /\ Append(q, x)[i] = x
  BY Longer
<1>2. \A i \in DOMAIN q : i \in Nat /\ i <= Len(q) /\ Len(q) \in Nat
  BY Longer
<1>3. \A i \in DOMAIN q : q[i].second \in Nat
  <2>1. \A i \in DOMAIN q : q[i] \in Messages
    OBVIOUS
  <2> QED
    BY <2>1, MessagesAre
<1>4. x.second \in Nat
  BY MessagesAre
<1>5. Between(Append(q, x), first, x.second)
  BY <1>1, <1>3, <1>4 DEF Between
<1>6. Ascending(Append(q, x))
  <2> SUFFICES ASSUME NEW i \in DOMAIN Append(q, x), NEW j \in DOMAIN Append(q, x), i < j
               PROVE  Append(q, x)[i].second < Append(q, x)[j].second
    BY DEF Ascending
  <2>1. CASE j \in DOMAIN q /\ Append(q, x)[j] = q[j]
    <3>1. i \in DOMAIN q /\ Append(q, x)[i] = q[i]
      BY <1>1, <1>2, <2>1
    <3> QED
      BY <2>1, <3>1 DEF Ascending
  <2>2. CASE j = Len(q) + 1 /\ Append(q, x)[j] = x
    <3>1. i \in DOMAIN q /\ Append(q, x)[i] = q[i]
      BY <1>1, <2>2
    <3> QED
      BY <2>2, <3>1, <1>3, <1>4 DEF Between
  <2> QED
    BY <1>1, <2>1, <2>2
<1> QED
  BY <1>5, <1>6

LEMMA PutOrdered ==
  ASSUME NEW q \in Seq(Messages), Ascending(q), NEW first \in Int, NEW latest \in Int, Between(q, first, latest),
         NEW x \in Messages, latest < x.second, first <= latest
  PROVE  /\ Gnss!Put(q, x) \in Seq(Messages) /\ Gnss!Put(q, x) # <<>>
         /\ Ascending(Gnss!Put(q, x)) /\ Between(Gnss!Put(q, x), first, x.second)
<1>1. PICK rest \in Seq(Messages) : /\ rest = q \/ (q # <<>> /\ rest = Tail(q))
                                    /\ Gnss!Put(q, x) = Append(rest, x)
  BY PutIs
<1>2. Ascending(rest) /\ Between(rest, first, latest)
  BY <1>1, RestOrdered
<1>3. Ascending(Append(rest, x)) /\ Between(Append(rest, x), first, x.second)
  BY <1>2, LaterJoins
<1>4. Append(rest, x) \in Seq(Messages) /\ Append(rest, x) # <<>>
  BY Longer
<1> QED
  BY <1>1, <1>3, <1>4

LEMMA AmongRest ==
  ASSUME NEW q \in Seq(Pvts), q # <<>>, NEW all, Among(q, all)
  PROVE  Among(Tail(q), all) /\ \E k \in DOMAIN all : q[1] = all[k]
BY Rest DEF Among

LEMMA AmongPut ==
  ASSUME NEW q \in Seq(Pvts), NEW all \in Seq(Pvts), Among(q, all), NEW x \in Pvts
  PROVE  /\ Gnss!Put(q, x) \in Seq(Pvts) /\ Among(Gnss!Put(q, x), Append(all, x))
         /\ Among(q, Append(all, x))
<1>1. PICK rest \in Seq(Pvts) : /\ rest = q \/ (q # <<>> /\ rest = Tail(q))
                                /\ Gnss!Put(q, x) = Append(rest, x)
  BY PutIs
<1>2. Among(rest, all)
  BY <1>1, AmongRest
<1>3. Append(rest, x) \in Seq(Pvts)
  BY Longer
<1>4. \A i \in DOMAIN all : i \in DOMAIN Append(all, x) /\ Append(all, x)[i] = all[i]
  BY Longer
<1>5. Len(all) + 1 \in DOMAIN Append(all, x) /\ Append(all, x)[Len(all) + 1] = x
  BY Longer
<1>6. \A i \in DOMAIN Append(rest, x) :
        (i \in DOMAIN rest /\ Append(rest, x)[i] = rest[i]) \/ Append(rest, x)[i] = x
  BY Longer
<1>7. Among(Append(rest, x), Append(all, x))
  BY <1>2, <1>4, <1>5, <1>6 DEF Among
<1>8. Among(q, Append(all, x))
  BY <1>4 DEF Among
<1> QED
  BY <1>1, <1>3, <1>7, <1>8

LEMMA PvtIsNew ==
  ASSUME NEW all \in Seq(Pvts), NEW last \in Int, OnePerSecond(all), UpTo(all, last),
         NEW x \in Pvts, last < x.second
  PROVE  OnePerSecond(Append(all, x)) /\ UpTo(Append(all, x), x.second)
<1>1. \A i \in DOMAIN Append(all, x) :
        (i \in DOMAIN all /\ Append(all, x)[i] = all[i]) \/ Append(all, x)[i] = x
  BY Longer
<1>2. \A i \in DOMAIN all : all[i].second \in Nat /\ all[i].second < x.second
  <2>1. \A i \in DOMAIN all : all[i] \in Pvts
    OBVIOUS
  <2> QED
    BY <2>1 DEF Pvts, UpTo
<1>3. x.second \in Nat
  BY DEF Pvts
<1>4. UpTo(Append(all, x), x.second)
  BY <1>1, <1>2, <1>3 DEF UpTo
<1>5. OnePerSecond(Append(all, x))
  <2> SUFFICES ASSUME NEW k \in DOMAIN Append(all, x), NEW l \in DOMAIN Append(all, x),
                      Append(all, x)[k].second = Append(all, x)[l].second
               PROVE  Append(all, x)[k] = Append(all, x)[l]
    BY DEF OnePerSecond
  <2>1. CASE Append(all, x)[k] = x /\ Append(all, x)[l] = x
    BY <2>1
  <2>2. CASE k \in DOMAIN all /\ Append(all, x)[k] = all[k] /\ Append(all, x)[l] = x
    BY <1>2, <1>3, <2>2
  <2>3. CASE l \in DOMAIN all /\ Append(all, x)[l] = all[l] /\ Append(all, x)[k] = x
    BY <1>2, <1>3, <2>3
  <2>4. CASE /\ k \in DOMAIN all /\ Append(all, x)[k] = all[k]
             /\ l \in DOMAIN all /\ Append(all, x)[l] = all[l]
    BY <2>4 DEF OnePerSecond
  <2> QED
    BY <1>1, <2>1, <2>2, <2>3, <2>4
<1> QED
  BY <1>4, <1>5

LEMMA VerdictsStay ==
  ASSUME NEW x \in Pvts, FixesStem, SolutionsStem, QueuesTyped,
         pvts' = Append(pvts, x), UNCHANGED <<fixes, solutions>>
  PROVE  FixesStem' /\ SolutionsStem'
<1>1. \A k \in DOMAIN pvts : k \in DOMAIN pvts' /\ pvts'[k] = pvts[k]
  BY Longer DEF QueuesTyped
<1> QED
  BY <1>1 DEF FixesStem, SolutionsStem

LEMMA GnssStarts == Gnss!Init => GnssInv
<1> SUFFICES ASSUME Gnss!Init
             PROVE  GnssInv
  OBVIOUS
<1>1. /\ now = 0 /\ sentences = <<>> /\ own = <<>> /\ ready = {} /\ g_leaps = 18
      /\ lastPvt = Gnss!None /\ lastImu = Gnss!None /\ pvts = <<>> /\ fixes = <<>>
      /\ adapter = <<>> /\ solutions = <<>>
  BY DEF Gnss!Init
<1>2. Gnss!None \in Stamps /\ Gnss!None.second = -1
  BY DEF Gnss!None, Stamps
<1>3. \A S : <<>> \in Seq(S)
  OBVIOUS
<1>4. DOMAIN <<>> = {} /\ Len(<<>>) = 0
  OBVIOUS
<1>5. QueuesTyped
  BY <1>1, <1>2, <1>3 DEF QueuesTyped
<1>6. Served
  BY <1>1, <1>4 DEF Served
<1>7. SentencesAhead
  BY <1>1, <1>4 DEF SentencesAhead, Ascending, Between
<1>8. OneClock
  BY <1>1, <1>2 DEF OneClock
<1>9. PvtsDistinct /\ PvtsQueued /\ FixesStem /\ SolutionsStem
  BY <1>1, <1>4
  DEF PvtsDistinct, PvtsQueued, FixesStem, SolutionsStem, OnePerSecond, UpTo, Among
<1> QED
  BY <1>5, <1>6, <1>7, <1>8, <1>9 DEF GnssInv

LEMMA ReceiverSendsKeeps == GnssInv /\ Gnss!ReceiverSends => GnssInv'
<1> SUFFICES ASSUME GnssInv, Gnss!ReceiverSends
             PROVE  GnssInv'
  OBVIOUS
<1>1. /\ now' = now + 1
      /\ UNCHANGED <<own, ready, g_leaps, lastPvt, lastImu, pvts, fixes, adapter, solutions>>
  BY DEF Gnss!ReceiverSends
<1>2. PICK msg \in Gnss!Frames(now + 1) : sentences' = Gnss!Put(sentences, msg)
  BY DEF Gnss!ReceiverSends
<1>3. QueuesTyped /\ SentencesAhead /\ OneClock /\ Served
  BY DEF GnssInv
<1>4. now \in Nat /\ lastPvt.second \in Int /\ lastImu.second \in Int /\ sentences \in Seq(Messages)
  BY <1>3 DEF QueuesTyped, Stamps
<1>5. msg \in Messages /\ msg.second = now + 1
  <2>1. now + 1 \in Nat
    BY <1>4
  <2> QED
    BY <2>1, FramesAre DEF Messages
<1>6. /\ Ascending(sentences) /\ Between(sentences, lastPvt.second, now)
      /\ Between(sentences, lastImu.second, now)
      /\ lastPvt.second <= now /\ lastImu.second <= now
  BY <1>3 DEF SentencesAhead, OneClock
<1>7. now \in Int /\ now < msg.second
  BY <1>4, <1>5
<1>8. /\ sentences' \in Seq(Messages) /\ sentences' # <<>> /\ Ascending(sentences')
      /\ Between(sentences', lastPvt.second, now + 1)
  BY <1>2, <1>4, <1>5, <1>6, <1>7, PutOrdered
<1>9. Between(sentences', lastImu.second, now + 1)
  BY <1>2, <1>4, <1>5, <1>6, <1>7, PutOrdered
<1>10. QueuesTyped'
  BY <1>1, <1>3, <1>4, <1>8 DEF QueuesTyped
<1>11. Served'
  BY <1>1, <1>3, <1>8 DEF Served
<1>12. SentencesAhead'
  BY <1>1, <1>8, <1>9 DEF SentencesAhead
<1>13. OneClock'
  BY <1>1, <1>3, <1>4, <1>6 DEF OneClock
<1>14. (PvtsDistinct /\ PvtsQueued /\ FixesStem /\ SolutionsStem)'
  BY <1>1 DEF GnssInv, PvtsDistinct, PvtsQueued, FixesStem, SolutionsStem
<1> QED
  BY <1>10, <1>11, <1>12, <1>13, <1>14 DEF GnssInv

LEMMA WaitKeeps == GnssInv /\ Gnss!Wait => GnssInv'
<1> SUFFICES ASSUME GnssInv, Gnss!Wait
             PROVE  GnssInv'
  OBVIOUS
<1>1. UNCHANGED <<now, sentences, own, g_leaps, lastPvt, lastImu, pvts, fixes, adapter, solutions>>
  BY DEF Gnss!Wait
<1>2. ready' = {q \in {"own", "sentences"} : IF q = "own" THEN own # <<>> ELSE sentences # <<>>}
  BY DEF Gnss!Wait
<1>3. Served'
  BY <1>1, <1>2 DEF GnssInv, Served
<1>4. (QueuesTyped /\ SentencesAhead /\ OneClock /\ PvtsDistinct)'
  BY <1>1 DEF GnssInv, QueuesTyped, SentencesAhead, OneClock, PvtsDistinct
<1>5. (PvtsQueued /\ FixesStem /\ SolutionsStem)'
  BY <1>1 DEF GnssInv, PvtsQueued, FixesStem, SolutionsStem
<1> QED
  BY <1>3, <1>4, <1>5 DEF GnssInv

LEMMA SentenceKeeps == GnssInv /\ Gnss!hc_sentence_callback => GnssInv'
<1> SUFFICES ASSUME GnssInv, Gnss!hc_sentence_callback
             PROVE  GnssInv'
  OBVIOUS
<1> DEFINE msg == Head(sentences)
<1>1. /\ "sentences" \in ready /\ "own" \notin ready /\ ready' = ready \ {"sentences"}
      /\ sentences' = Tail(sentences) /\ UNCHANGED <<now, fixes, solutions>>
  BY DEF Gnss!hc_sentence_callback
<1>2. QueuesTyped /\ SentencesAhead /\ OneClock /\ Served /\ PvtsDistinct /\ PvtsQueued
      /\ FixesStem /\ SolutionsStem
  BY DEF GnssInv
<1>3. sentences # <<>> /\ own = <<>>
  BY <1>1, <1>2 DEF Served
<1>4. /\ now \in Nat /\ lastPvt.second \in Int /\ lastImu.second \in Int
      /\ lastPvt.stamp \in Int /\ lastImu.stamp \in Int /\ g_leaps \in Nat
      /\ sentences \in Seq(Messages) /\ own \in Seq(Pvts) /\ adapter \in Seq(Pvts)
      /\ pvts \in Seq(Pvts)
  BY <1>2 DEF QueuesTyped, Stamps
<1>5. /\ Tail(sentences) \in Seq(Messages) /\ 1 \in DOMAIN sentences /\ msg = sentences[1]
      /\ sentences[1] \in Messages
  BY <1>3, <1>4, Rest
<1>6. /\ Ascending(sentences) /\ Between(sentences, lastPvt.second, now)
      /\ Between(sentences, lastImu.second, now)
  BY <1>2 DEF SentencesAhead
<1>7. /\ Ascending(sentences') /\ Between(sentences', lastPvt.second, now)
      /\ Between(sentences', lastImu.second, now) /\ Between(sentences', msg.second, now)
  BY <1>1, <1>3, <1>4, <1>5, <1>6, RestOrdered
<1>8. /\ msg \in Messages /\ lastPvt.second < msg.second /\ lastImu.second < msg.second
      /\ msg.second <= now
  BY <1>5, <1>6 DEF Between
<1>9. msg.second \in Nat /\ msg.leaps \in Nat /\ msg.stat \in Nat
  BY <1>8, MessagesAre
<1>10. ready' \subseteq {"own", "sentences"} /\ "own" \notin ready' /\ "sentences" \notin ready'
  BY <1>1, <1>2 DEF Served
<1>11. /\ msg.second - msg.leaps \in Int /\ msg.second - g_leaps \in Int
       /\ [second |-> msg.second, stamp |-> msg.second - msg.leaps] \in Stamps
       /\ [second |-> msg.second, stamp |-> msg.second - g_leaps] \in Stamps
       /\ [second |-> msg.second, stamp |-> msg.second - msg.leaps, stat |-> msg.stat] \in Pvts
  BY <1>4, <1>9 DEF Stamps, Pvts
<1>12. CASE Gnss!msg_deal__hcinspvatzcb(msg)
  <2> DEFINE devpvt == [second |-> msg.second, stamp |-> msg.second - msg.leaps,
                        stat |-> msg.stat]
  <2>1. /\ g_leaps' = msg.leaps
        /\ lastPvt' = [second |-> msg.second, stamp |-> msg.second - msg.leaps]
        /\ own' = Gnss!Put(own, devpvt) /\ adapter' = Gnss!Put(adapter, devpvt)
        /\ pvts' = Append(pvts, devpvt) /\ lastImu' = lastImu
    BY <1>12 DEF Gnss!msg_deal__hcinspvatzcb, Gnss!Stamp
  <2>2. devpvt \in Pvts /\ devpvt.second = msg.second
    BY <1>11
  <2>3. lastPvt'.second = msg.second /\ lastPvt'.stamp = msg.second - msg.leaps
    BY <2>1
  <2> HIDE DEF msg, devpvt
  <2>4. Among(own, pvts) /\ Among(adapter, pvts)
    BY <1>2 DEF PvtsQueued
  <2>5. /\ own' \in Seq(Pvts) /\ adapter' \in Seq(Pvts)
        /\ Among(own', pvts') /\ Among(adapter', pvts')
    BY <1>4, <2>1, <2>2, <2>4, AmongPut
  <2>6. pvts' \in Seq(Pvts)
    BY <1>4, <2>1, <2>2, Longer
  <2>7. QueuesTyped'
    BY <1>1, <1>2, <1>5, <1>9, <1>11, <2>1, <2>5, <2>6 DEF QueuesTyped
  <2>8. Len(own') <= 1
    <3>1. Len(own) = 0
      BY <1>3
    <3>2. Len(own) < GnssDepth
      BY <3>1, GnssConstants
    <3>3. own' = Append(own, devpvt)
      BY <2>1, <3>2 DEF Gnss!Put
    <3> QED
      BY <1>4, <2>2, <3>1, <3>3, Longer
  <2>9. Served'
    BY <1>10, <2>8 DEF Served
  <2>10. SentencesAhead'
    BY <1>1, <1>7, <2>1, <2>3 DEF SentencesAhead
  <2>11. OneClock'
    BY <1>1, <1>2, <1>4, <1>8, <1>9, <2>1, <2>3 DEF OneClock
  <2>12. PvtsDistinct'
    <3>1. OnePerSecond(pvts) /\ UpTo(pvts, lastPvt.second)
      BY <1>2 DEF PvtsDistinct
    <3>2. OnePerSecond(pvts') /\ UpTo(pvts', msg.second)
      BY <1>4, <1>8, <2>1, <2>2, <3>1, PvtIsNew
    <3> QED
      BY <2>3, <3>2 DEF PvtsDistinct
  <2>13. PvtsQueued'
    BY <2>5 DEF PvtsQueued
  <2>14. FixesStem' /\ SolutionsStem'
    BY <1>1, <1>2, <2>1, <2>2, VerdictsStay
  <2> QED
    BY <2>7, <2>9, <2>10, <2>11, <2>12, <2>13, <2>14 DEF GnssInv
<1>13. CASE Gnss!msg_deal__hcrawimuib(msg)
  <2>1. /\ lastImu' = [second |-> msg.second, stamp |-> msg.second - g_leaps]
        /\ UNCHANGED <<g_leaps, lastPvt, own, adapter, pvts>>
    BY <1>13 DEF Gnss!msg_deal__hcrawimuib, Gnss!Stamp
  <2>2. lastImu'.second = msg.second /\ lastImu'.stamp = msg.second - g_leaps
    BY <2>1
  <2> HIDE DEF msg
  <2>3. QueuesTyped'
    BY <1>1, <1>2, <1>5, <1>11, <2>1 DEF QueuesTyped
  <2>4. Served'
    BY <1>2, <1>10, <2>1 DEF Served
  <2>5. SentencesAhead'
    BY <1>1, <1>7, <2>1, <2>2 DEF SentencesAhead
  <2>6. OneClock'
    BY <1>1, <1>2, <1>4, <1>8, <1>9, <2>1, <2>2 DEF OneClock
  <2>7. (PvtsDistinct /\ PvtsQueued /\ FixesStem /\ SolutionsStem)'
    BY <1>1, <1>2, <2>1 DEF PvtsDistinct, PvtsQueued, FixesStem, SolutionsStem
  <2> QED
    BY <2>3, <2>4, <2>5, <2>6, <2>7 DEF GnssInv
<1>14. CASE UNCHANGED <<g_leaps, lastPvt, lastImu, own, adapter, pvts>>
  <2> HIDE DEF msg
  <2>1. QueuesTyped'
    BY <1>1, <1>2, <1>5, <1>14 DEF QueuesTyped
  <2>2. Served'
    BY <1>2, <1>10, <1>14 DEF Served
  <2>3. SentencesAhead' /\ OneClock'
    BY <1>1, <1>2, <1>7, <1>14 DEF SentencesAhead, OneClock
  <2>4. (PvtsDistinct /\ PvtsQueued /\ FixesStem /\ SolutionsStem)'
    BY <1>1, <1>2, <1>14 DEF PvtsDistinct, PvtsQueued, FixesStem, SolutionsStem
  <2> QED
    BY <2>1, <2>2, <2>3, <2>4 DEF GnssInv
<1> QED
  BY <1>12, <1>13, <1>14 DEF Gnss!hc_sentence_callback

LEMMA PvtKeeps == GnssInv /\ Gnss!pvt_callback => GnssInv'
<1> SUFFICES ASSUME GnssInv, Gnss!pvt_callback
             PROVE  GnssInv'
  OBVIOUS
<1> DEFINE fix == [second |-> Head(own).second, stamp |-> Head(own).stamp,
                   status |-> IF Gnss!Fixed(Head(own).stat) THEN "FIX" ELSE "NO_FIX"]
<1>1. /\ "own" \in ready /\ ready' = ready \ {"own"} /\ own' = Tail(own)
      /\ fixes' = Append(fixes, fix)
      /\ UNCHANGED <<now, sentences, g_leaps, lastPvt, lastImu, pvts, adapter, solutions>>
  BY DEF Gnss!pvt_callback
<1>2. QueuesTyped /\ Served /\ PvtsQueued /\ FixesStem
  BY DEF GnssInv
<1>3. own # <<>> /\ own \in Seq(Pvts) /\ Len(own) <= 1
  BY <1>1, <1>2 DEF Served, QueuesTyped
<1>4. /\ Tail(own) \in Seq(Pvts) /\ Len(Tail(own)) = Len(own) - 1 /\ Len(own) \in Nat \ {0}
      /\ Head(own) = own[1] /\ own[1] \in Pvts
  BY <1>3, Rest
<1>5. own' \in Seq(Pvts) /\ Len(own') = 0
  BY <1>1, <1>3, <1>4
<1>6. own' = <<>>
  BY <1>5
<1>7. PICK k \in DOMAIN pvts : own[1] = pvts[k]
  BY <1>2, <1>3, AmongRest DEF PvtsQueued
<1>8. FixOf(fix, pvts[k])
  BY <1>4, <1>7 DEF FixOf
<1>9. fix \in [second : Nat, stamp : Int, status : {"FIX", "NO_FIX"}]
  BY <1>4 DEF Pvts
<1> HIDE DEF fix
<1>10. fixes' \in Seq([second : Nat, stamp : Int, status : {"FIX", "NO_FIX"}])
  BY <1>1, <1>2, <1>9, Longer DEF QueuesTyped
<1>11. FixesStem'
  <2>1. \A i \in DOMAIN fixes' : (i \in DOMAIN fixes /\ fixes'[i] = fixes[i]) \/ fixes'[i] = fix
    <3> DEFINE Fixes == [second : Nat, stamp : Int, status : {"FIX", "NO_FIX"}]
    <3>1. fixes \in Seq(Fixes) /\ fix \in Fixes
      BY <1>2, <1>9 DEF QueuesTyped
    <3> HIDE DEF Fixes
    <3>2. \A i \in DOMAIN Append(fixes, fix) :
            \/ i \in DOMAIN fixes /\ Append(fixes, fix)[i] = fixes[i]
            \/ i = Len(fixes) + 1 /\ Append(fixes, fix)[i] = fix
      BY <3>1, Longer
    <3> QED
      BY <1>1, <3>2
  <2> QED
    BY <1>1, <1>2, <1>8, <2>1 DEF FixesStem
<1>12. QueuesTyped'
  BY <1>1, <1>2, <1>5, <1>10 DEF QueuesTyped
<1>13. Served'
  BY <1>1, <1>2, <1>5, <1>6 DEF Served
<1>14. PvtsQueued'
  BY <1>1, <1>2, <1>3, AmongRest DEF PvtsQueued
<1>15. (SentencesAhead /\ OneClock /\ PvtsDistinct /\ SolutionsStem)'
  BY <1>1 DEF GnssInv, SentencesAhead, OneClock, PvtsDistinct, SolutionsStem
<1> QED
  BY <1>11, <1>12, <1>13, <1>14, <1>15 DEF GnssInv

LEMMA AdapterKeeps == GnssInv /\ Gnss!callback => GnssInv'
<1> SUFFICES ASSUME GnssInv, Gnss!callback
             PROVE  GnssInv'
  OBVIOUS
<1> DEFINE solution == [second |-> Head(adapter).second,
                        carr_soln |-> Gnss!CarrierSolution(Head(adapter).stat),
                        heading_valid |-> Head(adapter).stat = 4]
<1>1. /\ adapter # <<>> /\ adapter' = Tail(adapter)
      /\ UNCHANGED <<now, sentences, own, ready, g_leaps, lastPvt, lastImu, pvts, fixes>>
  BY DEF Gnss!callback, Gnss!node
<1>2. QueuesTyped /\ PvtsQueued /\ SolutionsStem /\ adapter \in Seq(Pvts)
  BY DEF GnssInv, QueuesTyped
<1>3. /\ Tail(adapter) \in Seq(Pvts) /\ Head(adapter) = adapter[1] /\ adapter[1] \in Pvts
  BY <1>1, <1>2, Rest
<1>4. PvtsQueued'
  BY <1>1, <1>2, AmongRest DEF PvtsQueued
<1>5. solution \in [second : Nat, carr_soln : {1, 2}, heading_valid : BOOLEAN]
  BY <1>3 DEF Pvts, Gnss!CarrierSolution
<1>6. \/ solutions' = solutions
      \/ Gnss!Accepts(Head(adapter).stat) /\ solutions' = Append(solutions, solution)
  BY DEF Gnss!callback
<1>7. solutions' \in Seq([second : Nat, carr_soln : {1, 2}, heading_valid : BOOLEAN])
      /\ SolutionsStem'
  <2>1. CASE solutions' = solutions
    BY <1>1, <1>2, <2>1 DEF QueuesTyped, SolutionsStem
  <2>2. CASE Gnss!Accepts(Head(adapter).stat) /\ solutions' = Append(solutions, solution)
    <3>1. PICK k \in DOMAIN pvts : adapter[1] = pvts[k]
      BY <1>1, <1>2, AmongRest DEF PvtsQueued
    <3>2. SolutionOf(solution, pvts[k])
      BY <1>3, <2>2, <3>1 DEF SolutionOf
    <3> HIDE DEF solution
    <3>3. \A i \in DOMAIN solutions' :
            (i \in DOMAIN solutions /\ solutions'[i] = solutions[i]) \/ solutions'[i] = solution
      BY <1>2, <1>5, <2>2, Longer DEF QueuesTyped
    <3>4. SolutionsStem'
      BY <1>1, <1>2, <3>2, <3>3 DEF SolutionsStem
    <3> QED
      BY <1>2, <1>5, <2>2, <3>4, Longer DEF QueuesTyped
  <2> QED
    BY <1>6, <2>1, <2>2
<1>8. QueuesTyped'
  BY <1>1, <1>2, <1>3, <1>7 DEF QueuesTyped
<1>9. (Served /\ SentencesAhead /\ OneClock /\ PvtsDistinct /\ FixesStem)'
  BY <1>1 DEF GnssInv, Served, SentencesAhead, OneClock, PvtsDistinct, FixesStem
<1> QED
  BY <1>4, <1>7, <1>8, <1>9 DEF GnssInv

LEMMA GnssStays == GnssInv /\ UNCHANGED gnssVars => GnssInv'
<1> SUFFICES ASSUME GnssInv, UNCHANGED gnssVars
             PROVE  GnssInv'
  OBVIOUS
<1>1. UNCHANGED <<now, sentences, own, ready, g_leaps, lastPvt, lastImu, pvts, fixes, adapter,
                 solutions>>
  BY DEF gnssVars
<1>2. (QueuesTyped /\ Served /\ SentencesAhead /\ OneClock)'
  BY <1>1 DEF GnssInv, QueuesTyped, Served, SentencesAhead, OneClock
<1>3. (PvtsDistinct /\ PvtsQueued /\ FixesStem /\ SolutionsStem)'
  BY <1>1 DEF GnssInv, PvtsDistinct, PvtsQueued, FixesStem, SolutionsStem
<1> QED
  BY <1>2, <1>3 DEF GnssInv

LEMMA GnssKeeps == GnssInv /\ (Gnss!Next \/ UNCHANGED gnssVars) => GnssInv'
BY ReceiverSendsKeeps, WaitKeeps, SentenceKeeps, PvtKeeps, AdapterKeeps, GnssStays DEF Gnss!Next

(* A stamp is the GPS time less one number of leap seconds.                *)
LEMMA GnssOnOneClock == GnssInv => Gnss!ImuOnPvtClock
<1> SUFFICES ASSUME GnssInv, lastPvt # Gnss!None, lastImu.second > lastPvt.second
             PROVE  lastImu.stamp - lastPvt.stamp = lastImu.second - lastPvt.second
  BY DEF Gnss!ImuOnPvtClock
<1>1. lastPvt.second \in Int /\ lastImu.second \in Int /\ g_leaps \in Nat
  BY DEF GnssInv, QueuesTyped, Stamps
<1>2. lastPvt.stamp = lastPvt.second - g_leaps /\ lastImu.stamp = lastImu.second - g_leaps
  BY DEF GnssInv, OneClock
<1> QED
  BY <1>1, <1>2

LEMMA VerdictsAgree ==
  ASSUME NEW fix, NEW solution, NEW pvt, FixOf(fix, pvt), SolutionOf(solution, pvt)
  PROVE  /\ solution.carr_soln = 2 => fix.status = "FIX"
         /\ solution.carr_soln = 1 => AcceptFloat /\ fix.status = "NO_FIX"
<1>1. CASE Gnss!Fixed(pvt.stat)
  BY <1>1 DEF FixOf, SolutionOf, Gnss!CarrierSolution
<1>2. CASE ~ Gnss!Fixed(pvt.stat)
  BY <1>2 DEF FixOf, SolutionOf, Gnss!CarrierSolution, Gnss!Accepts
<1> QED
  BY <1>1, <1>2

LEMMA GnssJudgedAlike == GnssInv => Gnss!JudgedAlike
<1> SUFFICES ASSUME GnssInv, NEW i \in DOMAIN solutions
             PROVE  /\ solutions[i].carr_soln = 2 =>
                         \A j \in DOMAIN fixes :
                           fixes[j].second = solutions[i].second => fixes[j].status = "FIX"
                    /\ solutions[i].carr_soln = 1 =>
                         /\ AcceptFloat
                         /\ \A j \in DOMAIN fixes :
                              fixes[j].second = solutions[i].second => fixes[j].status = "NO_FIX"
  BY DEF Gnss!JudgedAlike
<1>1. PICK k \in DOMAIN pvts : SolutionOf(solutions[i], pvts[k])
  BY DEF GnssInv, SolutionsStem
<1>2. solutions[i].carr_soln = 1 => AcceptFloat
  BY <1>1 DEF SolutionOf, Gnss!CarrierSolution, Gnss!Accepts
<1>3. ASSUME NEW j \in DOMAIN fixes, fixes[j].second = solutions[i].second
      PROVE  /\ solutions[i].carr_soln = 2 => fixes[j].status = "FIX"
             /\ solutions[i].carr_soln = 1 => fixes[j].status = "NO_FIX"
  <2>1. PICK l \in DOMAIN pvts : FixOf(fixes[j], pvts[l])
    BY DEF GnssInv, FixesStem
  <2>2. pvts[l].second = pvts[k].second
    BY <1>1, <1>3, <2>1 DEF FixOf, SolutionOf
  <2>3. pvts[l] = pvts[k]
    BY <2>2 DEF GnssInv, PvtsDistinct, OnePerSecond
  <2> QED
    BY <1>1, <2>1, <2>3, VerdictsAgree
<1> QED
  BY <1>2, <1>3

LEMMA GnssSound == GnssInv => Gnss!ImuOnPvtClock /\ Gnss!OwnTopicBounded /\ Gnss!JudgedAlike
BY GnssOnOneClock, GnssJudgedAlike DEF GnssInv, Served, Gnss!OwnTopicBounded

-------------------------------------------------------------------------------
(***************************************************************************)
(* The parts together: one moves, the others rest                          *)
(***************************************************************************)
CameraInv == part \in Parts /\ (part = "camera" => CamInv)

ReceiverInv ==
  /\ part \in Parts
  /\ part = "ntrip" => NtripInv
  /\ part = "connector" => ConnInv
  /\ part = "gnss" => GnssInv

(* The part that moves takes a step of its module, or rests.               *)
LEMMA StepOfPart ==
  ASSUME [ProgressNext]_allVars
  PROVE  /\ part' = part
         /\ part = "camera" => Cam!Next \/ UNCHANGED cameraDriver
         /\ part = "ntrip" => Ntrip!Next \/ UNCHANGED ntripVars
         /\ part = "connector" => Conn!Next \/ UNCHANGED connectorVars
         /\ part = "gnss" => Gnss!Next \/ UNCHANGED gnssVars
<1>1. CASE UNCHANGED allVars
  BY <1>1 DEF allVars
<1>2. CASE Rests
  BY <1>2 DEF Rests, allVars
<1>3. CASE ProgressNext /\ ~ Rests
  <2>1. part' = part
    BY <1>3 DEF ProgressNext, Only
  <2>2. part = "camera" => Cam!Next
    BY <1>3 DEF ProgressNext
  <2>3. part = "ntrip" => Ntrip!Next
    BY <1>3 DEF ProgressNext
  <2>4. part = "connector" => Conn!Next
    BY <1>3 DEF ProgressNext
  <2>5. part = "gnss" => Gnss!Next
    BY <1>3 DEF ProgressNext
  <2> QED
    BY <2>1, <2>2, <2>3, <2>4, <2>5
<1> QED
  BY <1>1, <1>2, <1>3

(* WorkThread, main and LoadCameraInfoTemplate: for every camera and every *)
(* calibration the driver accepts, the frames it reports as missed are     *)
(* those lost on the way, the device is used only between its opening and  *)
(* its closing, and the CameraInfo of an image fits the image.             *)
THEOREM CameraIsConsistent == ProgressSpec => []CameraConsistent
<1>1. ProgressInit => CameraInv
  BY CameraStarts DEF ProgressInit, CameraInv
<1>2. CameraInv /\ [ProgressNext]_allVars => CameraInv'
  BY StepOfPart, CameraKeeps, CameraStutters DEF CameraInv
<1>3. CameraInv => CameraConsistent
  BY CameraSound DEF CameraInv, CameraConsistent
<1> QED
  BY <1>1, <1>2, <1>3, PTL DEF ProgressSpec

(* swas_server::connect, the connectors' connect() and read(), the         *)
(* callbacks of the protocol node and of the adapter: for any number of    *)
(* sessions, reconnections and frames, a login that counts is the current  *)
(* session's, every open descriptor is accounted for, and IMU data and     *)
(* solutions are on one clock and judged alike by both nodes.              *)
THEOREM ReceiverIsConsistent == ProgressSpec => []ReceiverConsistent
<1>1. ProgressInit => ReceiverInv
  BY NtripStarts, ConnStarts, GnssStarts DEF ProgressInit, ReceiverInv
<1>2. ReceiverInv /\ [ProgressNext]_allVars => ReceiverInv'
  <2> SUFFICES ASSUME ReceiverInv, [ProgressNext]_allVars
               PROVE  ReceiverInv'
    OBVIOUS
  <2>1. part' = part
    BY StepOfPart
  <2>2. part = "ntrip" => NtripInv'
    BY StepOfPart, NtripKeeps DEF ReceiverInv
  <2>3. part = "connector" => ConnInv'
    BY StepOfPart, ConnKeeps DEF ReceiverInv
  <2>4. part = "gnss" => GnssInv'
    BY StepOfPart, GnssKeeps DEF ReceiverInv
  <2> QED
    BY <2>1, <2>2, <2>3, <2>4 DEF ReceiverInv
<1>3. ReceiverInv => ReceiverConsistent
  BY NtripSound, ConnSound, GnssSound DEF ReceiverInv, ReceiverConsistent
<1> QED
  BY <1>1, <1>2, <1>3, PTL DEF ProgressSpec
===============================================================================
