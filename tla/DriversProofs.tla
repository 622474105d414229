---------------------------- MODULE DriversProofs -----------------------------
(***************************************************************************)
(* Theorems about parts that DriversMC runs.  The stamps of a device, for  *)
(* every set of streams, every clock of the device, every threshold of at  *)
(* least 1 and unbounded time.  The frames, for any lidars, period, stamps *)
(* and kinds of packets.  The queues between the threads of the driver,    *)
(* for any number of lidars and any size of the rings.  The configuration  *)
(* of the devices, for any file, any size of the table and any number of   *)
(* failures.  The point cloud converters, for any cloud with times in      *)
(* order.                                                                  *)
(***************************************************************************)
EXTENDS DriversMC, FiniteSetTheorems, SequenceTheorems, WellFoundedInduction, TLAPS

(* Stamps.  The strengthening: arrivals and the origin are not in the      *)
(* future, and the first packet of any stream sets the origin.             *)
InThePast ==
  /\ device.initialized => device.origin_arrival <= now
  /\ \A k \in Streams : stream[k].initialized =>
       /\ device.initialized
       /\ device.origin_arrival <= stream[k].last_arrival /\ stream[k].last_arrival <= now

(* The floor of a correction.                                              *)
LEMMA FloorFacts ==
  ASSUME NEW n \in Int
  PROVE  AtLeastOne(n) \in Nat /\ AtLeastOne(n) >= 1 /\ AtLeastOne(n) >= n
         /\ (n >= 1 => AtLeastOne(n) = n)
  BY DEF AtLeastOne

(* What the first packet of a stream leaves: a stamp on the timeline, or 1 *)
(* where the timeline is at zero.                                          *)
LEMMA FirstFacts ==
  ASSUME NEW d \in [initialized : BOOLEAN, origin_timestamp : Nat, origin_arrival : Nat],
         NEW reading \in Nat, NEW t \in Nat, d.origin_arrival <= t
  PROVE  LET f == FirstStamp(d, reading, t)
         IN  /\ f \in StreamState /\ f.initialized /\ f.last_normalized >= 1
             /\ f.last_arrival = t
             /\ Abs(f.last_normalized - Timeline(d, t)) <= Threshold
<1> DEFINE line == Timeline(d, t)
           norm == ApplyCorrection(reading, line - reading)
<1>1. line \in Nat
  BY DEF Timeline
<1>2. norm = AtLeastOne(line)
  <2>1. reading + (line - reading) = line
    BY <1>1
  <2> QED BY <2>1 DEF ApplyCorrection
<1>3. norm \in Nat /\ norm >= 1 /\ (norm = line \/ norm = line + 1)
  BY <1>1, <1>2 DEF AtLeastOne
<1>4. Abs(norm - line) <= Threshold
  BY <1>1, <1>3, NormalizerAssumption DEF Abs
<1>5. line - reading \in Int
  BY <1>1
<1> HIDE DEF norm, line
<1> QED BY <1>3, <1>4, <1>5 DEF FirstStamp, StreamState, norm, line

(* What any later packet leaves: a later stamp, as near to the timeline as *)
(* the one before.                                                         *)
LEMMA NextFacts ==
  ASSUME NEW d \in [initialized : BOOLEAN, origin_timestamp : Nat, origin_arrival : Nat],
         NEW s \in StreamState, s.initialized,
         NEW reading \in Nat, NEW t \in Nat, s.last_arrival < t
  PROVE  LET f == NextStamp(s, d, reading, t)
         IN  /\ f \in StreamState /\ f.initialized /\ f.last_arrival = t
             /\ f.last_normalized > s.last_normalized
             /\ Abs(s.last_normalized - Timeline(d, s.last_arrival)) <= Threshold
                  => Abs(f.last_normalized - Timeline(d, t)) <= Threshold
<1> DEFINE line == Timeline(d, t)
           was == Timeline(d, s.last_arrival)
           candidate == ApplyCorrection(reading, s.correction)
           stepped == s.last_normalized + AtLeastOne(t - s.last_arrival)
           restart == RawJump(s, reading, t) \/ TimelineSplit(s, d, reading, t)
           norm == IF restart THEN stepped
                   ELSE IF candidate <= s.last_normalized THEN s.last_normalized + 1
                   ELSE candidate
           f == NextStamp(s, d, reading, t)
<1>1. /\ s.correction \in Int /\ s.last_normalized \in Nat /\ s.last_arrival \in Nat
      /\ line \in Int /\ was \in Int /\ line - was = t - s.last_arrival
  BY DEF StreamState, Timeline
<1>2. candidate \in Nat
  BY <1>1, FloorFacts DEF ApplyCorrection
<1>3. stepped = s.last_normalized + (t - s.last_arrival) /\ stepped \in Nat
      /\ stepped > s.last_normalized
  BY <1>1, FloorFacts
<1>4. ~restart => Abs(candidate - line) <= Threshold
  <2>1. TimelineSplit(s, d, reading, t) <=> Abs(candidate - line) > Threshold
    BY DEF TimelineSplit
  <2>2. Abs(candidate - line) \in Int
    BY <1>1, <1>2 DEF Abs
  <2> QED BY <2>1, <2>2, NormalizerAssumption
<1> HIDE DEF restart, candidate, stepped, line, was
<1>5. norm \in Nat /\ norm > s.last_normalized
  BY <1>1, <1>2, <1>3
<1>6. ASSUME Abs(s.last_normalized - was) <= Threshold
      PROVE  Abs(norm - line) <= Threshold
  <2>1. CASE restart
    BY <2>1, <1>1, <1>3, <1>6 DEF Abs
  <2>2. CASE ~restart /\ candidate <= s.last_normalized
    BY <2>2, <1>1, <1>2, <1>4, <1>6, NormalizerAssumption DEF Abs
  <2>3. CASE ~restart /\ ~(candidate <= s.last_normalized)
    BY <2>3, <1>4
  <2> QED BY <2>1, <2>2, <2>3
<1>7. f = [s EXCEPT !.correction = IF restart THEN stepped - reading ELSE @,
                    !.last_raw = reading, !.last_normalized = norm, !.last_arrival = t]
  BY DEF NextStamp, restart, stepped, candidate
<1>8. (IF restart THEN stepped - reading ELSE s.correction) \in Int
  BY <1>1, <1>3
<1> HIDE DEF f, norm
<1>9. /\ f \in StreamState /\ f.initialized = s.initialized /\ f.last_arrival = t
      /\ f.last_normalized = norm
  BY <1>5, <1>7, <1>8 DEF StreamState
<1> QED BY <1>5, <1>6, <1>9 DEF f, line, was

(***************************************************************************)
(* One packet.                                                             *)
(***************************************************************************)
NormalizerInv == TypeOK /\ InThePast

LEMMA InitHolds == Init => NormalizerInv /\ TimelineHeld
  BY DEF Init, NormalizerInv, TypeOK, InThePast, TimelineHeld, StreamState, Uninitialized

(* The facts a packet of stream k leaves about its stream; the others keep *)
(* theirs, and so does an origin once set.                                 *)
LEMMA PacketFacts ==
  ASSUME NormalizerInv, NEW k \in Streams, NEW reading \in RawTimes, NEW wait \in 1 .. MaxWait,
         Packet(k, reading, now + wait)
  PROVE  /\ NormalizerInv'
         /\ \A j \in Streams \ {k} : stream'[j] = stream[j]
         /\ stream[k].initialized => stream'[k].last_normalized > stream[k].last_normalized
         /\ device.initialized => device' = device
         /\ stream'[k].initialized
         /\ TimelineHeld => Abs(stream'[k].last_normalized
                                  - Timeline(device', stream'[k].last_arrival)) <= Threshold
<1> DEFINE t == now + wait
           d == WithOrigin(device, reading, t)
           f == IF stream[k].initialized THEN NextStamp(stream[k], d, reading, t)
                ELSE FirstStamp(d, reading, t)
<1>1. /\ now \in Nat /\ reading \in Nat /\ t \in Nat /\ t > now
      /\ device \in [initialized : BOOLEAN, origin_timestamp : Nat, origin_arrival : Nat]
      /\ stream \in [Streams -> StreamState] /\ stream[k] \in StreamState
  BY NormalizerAssumption DEF NormalizerInv, TypeOK
<1>2. /\ now' = t /\ device' = d /\ stream' = [stream EXCEPT ![k] = f]
      /\ jumped' = [jumped EXCEPT ![k] = stream[k].initialized /\ RawJump(stream[k], reading, t)]
  BY Zenon DEF Packet
<1>3. /\ d \in [initialized : BOOLEAN, origin_timestamp : Nat, origin_arrival : Nat]
      /\ d.initialized /\ d.origin_arrival <= t /\ (device.initialized => d = device)
  BY <1>1 DEF WithOrigin, NormalizerInv, InThePast
<1>4. /\ f \in StreamState /\ f.initialized /\ f.last_normalized >= 1
      /\ f.last_arrival = t
      /\ stream[k].initialized => f.last_normalized > stream[k].last_normalized
      /\ TimelineHeld => Abs(f.last_normalized - Timeline(d, t)) <= Threshold
  <2>1. CASE ~stream[k].initialized
    BY <2>1, <1>1, <1>3, FirstFacts
  <2>2. CASE stream[k].initialized
    <3>1. stream[k].last_arrival < t /\ device = d
      BY <2>2, <1>1, <1>3 DEF NormalizerInv, InThePast, StreamState
    <3>2. TimelineHeld =>
            Abs(stream[k].last_normalized - Timeline(d, stream[k].last_arrival)) <= Threshold
      BY <2>2, <3>1 DEF TimelineHeld
    <3>3. LET g == NextStamp(stream[k], d, reading, t)
          IN  /\ g \in StreamState /\ g.initialized /\ g.last_arrival = t
              /\ g.last_normalized > stream[k].last_normalized
              /\ Abs(stream[k].last_normalized - Timeline(d, stream[k].last_arrival)) <= Threshold
                   => Abs(g.last_normalized - Timeline(d, t)) <= Threshold
      BY <2>2, <3>1, <1>1, <1>3, NextFacts
    <3>4. f = NextStamp(stream[k], d, reading, t)
      BY <2>2
    <3>5. stream[k].last_normalized \in Nat /\ f.last_normalized \in Nat
      BY <1>1, <3>3, <3>4 DEF StreamState
    <3> HIDE DEF f, d, t
    <3> QED BY <3>2, <3>3, <3>4, <3>5
  <2> QED BY <2>1, <2>2
<1> HIDE DEF f, d, t
<1>5. stream'[k] = f /\ \A j \in Streams \ {k} : stream'[j] = stream[j]
  BY <1>1, <1>2
<1>6. TypeOK'
  <2>1. stream' \in [Streams -> StreamState]
    BY <1>1, <1>2, <1>4
  <2>2. \A j \in Streams : stream'[j].initialized => stream'[j].last_normalized # 0
    BY <1>4, <1>5 DEF NormalizerInv, TypeOK
  <2>3. jumped' \in [Streams -> BOOLEAN]
    BY <1>1, <1>2, Zenon DEF NormalizerInv, TypeOK, StreamState, RawJump
  <2> QED BY <2>1, <2>2, <2>3, <1>1, <1>2, <1>3 DEF TypeOK
<1>7. InThePast'
  <2>1. \A j \in Streams : stream'[j].initialized =>
          /\ d.origin_arrival <= stream'[j].last_arrival /\ stream'[j].last_arrival <= t
    <3> SUFFICES ASSUME NEW j \in Streams, stream'[j].initialized
                 PROVE  d.origin_arrival <= stream'[j].last_arrival
                        /\ stream'[j].last_arrival <= t
      OBVIOUS
    <3>1. CASE j = k
      BY <3>1, <1>3, <1>4, <1>5, <1>1
    <3>2. CASE j # k
      <4>1. stream[j].initialized /\ stream'[j] = stream[j] /\ stream[j].last_arrival \in Nat
        BY <3>2, <1>1, <1>5 DEF StreamState
      <4> QED BY <4>1, <1>1, <1>3 DEF NormalizerInv, InThePast
    <3> QED BY <3>1, <3>2
  <2> QED BY <2>1, <1>2, <1>3 DEF InThePast
<1> QED BY <1>2, <1>3, <1>4, <1>5, <1>6, <1>7 DEF NormalizerInv

LEMMA StepKeeps == NormalizerInv /\ [Next]_vars => NormalizerInv'
<1> SUFFICES ASSUME NormalizerInv, [Next]_vars PROVE NormalizerInv'
  OBVIOUS
<1>1. CASE Next
  BY <1>1, PacketFacts DEF Next
<1>2. CASE UNCHANGED vars
  BY <1>2 DEF vars, NormalizerInv, TypeOK, InThePast
<1> QED BY <1>1, <1>2

(* Type correctness: no stamp is zero.                                     *)
THEOREM NormalizerTypeCorrect == Spec => []TypeOK
<1>1. Spec => []NormalizerInv
  BY InitHolds, StepKeeps, PTL DEF Spec
<1> QED BY <1>1, PTL DEF NormalizerInv

(* Stamps of a stream strictly increase, whatever the device's clock does. *)
THEOREM NormalizedStampsIncrease == Spec => StampsIncrease
<1> DEFINE Increase ==
      \A k \in Streams : stream[k].initialized /\ stream'[k] # stream[k] =>
        stream'[k].last_normalized > stream[k].last_normalized
<1>1. NormalizerInv /\ [Next]_vars => [Increase]_vars
  <2> SUFFICES ASSUME NormalizerInv, Next PROVE Increase
    OBVIOUS
  <2>1. PICK k \in Streams, reading \in RawTimes, wait \in 1 .. MaxWait : Packet(k, reading, now + wait)
    BY DEF Next
  <2>2. /\ \A j \in Streams \ {k} : stream'[j] = stream[j]
        /\ stream[k].initialized => stream'[k].last_normalized > stream[k].last_normalized
    BY <2>1, PacketFacts
  <2> QED BY <2>2
<1>2. Spec => []NormalizerInv
  BY InitHolds, StepKeeps, PTL DEF Spec
<1> HIDE DEF Increase
<1>3. Spec => [][Increase]_vars
  BY <1>1, <1>2, PTL DEF Spec
<1> QED BY <1>3 DEF StampsIncrease, Increase

(* Both streams stay within the threshold of the device's timeline.        *)
THEOREM StreamsStayTogether == Spec => []TimelineHeld
<1>1. NormalizerInv /\ TimelineHeld /\ [Next]_vars => TimelineHeld'
  <2> SUFFICES ASSUME NormalizerInv, TimelineHeld, [Next]_vars PROVE TimelineHeld'
    OBVIOUS
  <2>1. CASE Next
    <3>1. PICK k \in Streams, reading \in RawTimes, wait \in 1 .. MaxWait : Packet(k, reading, now + wait)
      BY <2>1 DEF Next
    <3>2. /\ \A j \in Streams \ {k} : stream'[j] = stream[j]
          /\ device.initialized => device' = device
          /\ Abs(stream'[k].last_normalized
                    - Timeline(device', stream'[k].last_arrival)) <= Threshold
      BY <3>1, PacketFacts
    <3> SUFFICES ASSUME NEW j \in Streams, stream'[j].initialized
                 PROVE  Abs(stream'[j].last_normalized
                              - Timeline(device', stream'[j].last_arrival)) <= Threshold
      BY Zenon DEF TimelineHeld
    <3>3. CASE j = k
      BY <3>2, <3>3
    <3>4. CASE j # k
      <4>1. stream'[j] = stream[j] /\ stream[j].initialized /\ device' = device
        BY <3>2, <3>4 DEF NormalizerInv, InThePast
      <4> QED BY <4>1 DEF TimelineHeld
    <3> QED BY <3>3, <3>4
  <2>2. CASE UNCHANGED vars
    BY <2>2 DEF vars, TimelineHeld
  <2> QED BY <2>1, <2>2
<1>2. Spec => [](NormalizerInv /\ TimelineHeld)
  BY <1>1, InitHolds, StepKeeps, PTL DEF Spec
<1> QED BY <1>2, PTL

-------------------------------------------------------------------------------
(* Arithmetic of the indices of a ring: their width is a multiple of the   *)
(* ring's size.                                                            *)

(* A whole number of rings that is shorter than a ring is none.            *)
LEMMA NoWholeRing ==
  ASSUME NEW d \in Nat \ {0}, NEW k \in Int, d * k < d, -d < d * k
  PROVE  k = 0
<1>1. CASE k >= 1
  <2>1. d * k >= d
    BY <1>1
  <2> QED
    BY <2>1
<1>2. CASE k <= -1
  <2>1. d * (-k) >= d
    BY <1>2
  <2>2. d * (-k) = -(d * k)
    OBVIOUS
  <2> QED
    BY <2>1, <2>2
<1> QED
  BY <1>1, <1>2

LEMMA Division ==
  ASSUME NEW n \in Int, NEW d \in Nat \ {0}
  PROVE  n = (d * (n \div d)) + (n % d) /\ n % d \in 0..(d - 1) /\ n \div d \in Int
OBVIOUS

LEMMA Remainder ==
  ASSUME NEW d \in Nat \ {0}, NEW q \in Int, NEW r \in 0..(d - 1)
  PROVE  ((d * q) + r) % d = r
<1> DEFINE n == (d * q) + r
<1>1. n \in Int /\ n = (d * (n \div d)) + (n % d) /\ n % d \in 0..(d - 1) /\ n \div d \in Int
  <2>1. n \in Int
    OBVIOUS
  <2> QED
    BY <2>1, Division
<1> DEFINE e == q - (n \div d)
<1>2. d * e = (d * q) - (d * (n \div d))
  BY <1>1
<1>3. d * e = (n % d) - r
  <2>1. d * q \in Int /\ d * (n \div d) \in Int /\ n = (d * q) + r
    BY <1>1
  <2> HIDE DEF n
  <2> QED
    BY <1>1, <1>2, <2>1
<1>4. e = 0
  <2>1. e \in Int /\ d * e < d /\ -d < d * e
    BY <1>1, <1>3
  <2> HIDE DEF e, n
  <2> QED
    BY <2>1, NoWholeRing
<1> QED
  BY <1>1, <1>3, <1>4

(* The indices of a ring, without the remainder.                           *)
Sub(m, a, b) == IF b <= a THEN a - b ELSE a - b + m
Pos(m, a, k) == IF a + k < m THEN a + k ELSE a + k - m

LEMMA DifferenceOf ==
  ASSUME NEW m \in Nat \ {0}, NEW a \in 0 .. m - 1, NEW b \in 0 .. m - 1
  PROVE  (a - b) % m = Sub(m, a, b)
<1>1. CASE b <= a
  <2>1. ((m * 0) + (a - b)) % m = a - b
    BY <1>1, Remainder
  <2> QED
    BY <1>1, <2>1 DEF Sub
<1>2. CASE ~ (b <= a)
  <2>1. a - b + m \in 0 .. (m - 1)
    BY <1>2
  <2>2. ((m * (-1)) + (a - b + m)) % m = a - b + m
    BY <2>1, Remainder
  <2>3. (m * (-1)) + (a - b + m) = a - b
    OBVIOUS
  <2> QED
    BY <1>2, <2>2, <2>3 DEF Sub
<1> QED
  BY <1>1, <1>2

LEMMA SuccessorOf ==
  ASSUME NEW m \in Nat \ {0}, NEW a \in 0 .. m - 1
  PROVE  (a + 1) % m = Pos(m, a, 1) /\ Pos(m, a, 1) \in 0 .. m - 1
<1>1. CASE a + 1 < m
  <2>1. ((m * 0) + (a + 1)) % m = a + 1
    BY <1>1, Remainder
  <2> QED
    BY <1>1, <2>1 DEF Pos
<1>2. CASE a + 1 = m
  <2>1. ((m * 1) + 0) % m = 0
    BY Remainder
  <2>2. a + 1 = (m * 1) + 0
    BY <1>2
  <2> QED
    BY <1>2, <2>1, <2>2 DEF Pos
<1> QED
  BY <1>1, <1>2

(* What a push and a pop make of distances and of places.                  *)
LEMMA PlaceAtDistance ==
  ASSUME NEW m \in Nat \ {0}, NEW a \in 0 .. m - 1, NEW b \in 0 .. m - 1
  PROVE  /\ Sub(m, a, b) \in 0 .. m - 1 /\ (Sub(m, a, b) = 0 <=> a = b)
         /\ Pos(m, b, Sub(m, a, b)) = a
BY DEF Sub, Pos

LEMMA PushDistance ==
  ASSUME NEW m \in Nat \ {0}, NEW a \in 0 .. m - 1, NEW b \in 0 .. m - 1,
         Sub(m, a, b) + 1 < m
  PROVE  Sub(m, Pos(m, a, 1), b) = Sub(m, a, b) + 1
BY DEF Sub, Pos

LEMMA PopDistance ==
  ASSUME NEW m \in Nat \ {0}, NEW a \in 0 .. m - 1, NEW b \in 0 .. m - 1, a # b
  PROVE  Sub(m, a, Pos(m, b, 1)) = Sub(m, a, b) - 1
BY DEF Sub, Pos

LEMMA NextPlace ==
  ASSUME NEW m \in Nat \ {0}, NEW a \in 0 .. m - 1, NEW k \in 0 .. m - 2
  PROVE  Pos(m, Pos(m, a, 1), k) = Pos(m, a, k + 1)
BY DEF Pos

(* Two places of a ring less than its size apart have different slots.     *)
LEMMA SlotsDiffer ==
  ASSUME NEW m \in Nat \ {0}, NEW size \in Nat \ {0}, m % size = 0,
         NEW a \in 0 .. m - 1, NEW i \in 0 .. size - 1, NEW j \in 0 .. size - 1,
         size <= m, Pos(m, a, i) % size = Pos(m, a, j) % size
  PROVE  i = j
<1> DEFINE q == m \div size
<1>1. m = size * q /\ q \in Int
  BY Division
<1> HIDE DEF q
<1>2. ASSUME NEW k \in 0 .. size - 1
      PROVE  \E c \in Int : a + k = (size * c) + (Pos(m, a, k) % size)
  <2>1. Pos(m, a, k) \in Int
    BY DEF Pos
  <2>2. PICK b \in Int : Pos(m, a, k) = (size * b) + (Pos(m, a, k) % size)
    BY <2>1, Division
  <2>3. a + k = Pos(m, a, k) \/ a + k = Pos(m, a, k) + (size * q)
    BY <1>1 DEF Pos
  <2>4. size * (b + q) = (size * b) + (size * q) /\ b + q \in Int
    BY <1>1
  <2>5. \/ a + k = (size * b) + (Pos(m, a, k) % size)
        \/ a + k = (size * (b + q)) + (Pos(m, a, k) % size)
    <3>1. Pos(m, a, k) % size \in Int /\ size * b \in Int /\ size * q \in Int
      BY <1>1, <2>1, Division
    <3> QED
      BY <2>2, <2>3, <2>4, <3>1
  <2> QED
    BY <2>4, <2>5
<1>3. PICK c \in Int : a + i = (size * c) + (Pos(m, a, i) % size)
  BY <1>2
<1>4. PICK d \in Int : a + j = (size * d) + (Pos(m, a, j) % size)
  BY <1>2
<1>5. size * (c - d) = i - j
  <2>1. Pos(m, a, i) % size \in Int
    BY Division DEF Pos
  <2>2. size * (c - d) = (size * c) - (size * d)
    OBVIOUS
  <2>3. size * c \in Int /\ size * d \in Int
    OBVIOUS
  <2> QED
    BY <1>3, <1>4, <2>1, <2>2, <2>3
<1>6. c - d = 0
  BY <1>5, NoWholeRing
<1> QED
  BY <1>5, <1>6

Indices(p) == 0 .. RingSettings[p].mod - 1
Used(p, w, l) == Sub(RingSettings[p].mod, w[l], rd[l])

-------------------------------------------------------------------------------
(* The queues of one setting.  Types, and what the steps of the threads    *)
(* imply: a packet is in hand only in a ring, and of a lidar that there is. *)
RingTypeOK(p) ==
  /\ wr \in [RingSettings[p].lidars -> Indices(p)]
  /\ rd \in [RingSettings[p].lidars -> Indices(p)]
  /\ stored \in [RingSettings[p].lidars -> Indices(p)]
  /\ slot \in [RingSettings[p].lidars ->
                 {<<>>} \union [0 .. Queues(p)!Size - 1 -> Int]]
  /\ list \in [RingSettings[p].lidars -> Seq(Nat)]
  /\ fifo \in [RingSettings[p].lidars -> Seq(Nat)]
  /\ nextId \in [RingSettings[p].lidars -> Nat]
  /\ count \in 0 .. 1
  /\ sampling \subseteq RingSettings[p].lidars /\ scanned \subseteq RingSettings[p].lidars
  /\ exit \in {"no", "requested", "signalled", "joined"}
ThreadsTypeOK(p) ==
  /\ producer \in [pc : {"idle", "store", "write", "check", "full", "signal"},
                   lidar : RingSettings[p].lidars, frame : SUBSET RingSettings[p].lidars]
  /\ consumer \in [pc : {"enter", "wait", "scan", "poll", "pop", "update", "publish", "loop",
                         "done"}, lidar : Nat \ {0}, pkg : Int]
  /\ consumer.pc \in {"poll", "pop", "update", "publish"} =>
       consumer.lidar \in RingSettings[p].lidars
  /\ consumer.pc = "update" => RingSettings[p].ring
  /\ producer.pc = "write" =>
       RingSettings[p].ring /\ producer.lidar \notin producer.frame
       /\ slot[producer.lidar] # <<>>
  /\ producer.pc = "signal" => count = 0
PublishersOK(p) ==
  publishers \subseteq {Queues(p)!Publisher(l) : l \in RingSettings[p].lidars}

(* What memory, the store buffer and the history say of one ring.          *)
Filled(p, l) ==
  /\ Used(p, stored, l) = Len(fifo[l]) /\ Len(fifo[l]) <= Queues(p)!Size
  /\ producer.pc = "write" /\ producer.lidar = l => Len(fifo[l]) < Queues(p)!Size
Seen(p, l) ==
  /\ Used(p, wr, l) <= Len(fifo[l])
  /\ consumer.pc = "update" /\ consumer.lidar = l => wr[l] # rd[l]
Buffered(p, l) ==
  \/ stored[l] = wr[l]
  \/ /\ stored[l] = Pos(RingSettings[p].mod, wr[l], 1)
     /\ l \notin producer.frame /\ ~(producer.pc = "write" /\ producer.lidar = l)
Contents(p, l) ==
  \A k \in 1 .. Len(fifo[l]) :
    /\ slot[l] # <<>>
    /\ slot[l][Pos(RingSettings[p].mod, rd[l], k - 1) % Queues(p)!Size] = fifo[l][k]
Copied(l) == consumer.pc = "update" /\ consumer.lidar = l => consumer.pkg = Head(fifo[l])
RingKept(p) ==
  \A l \in RingSettings[p].lidars :
    IF RingSettings[p].ring
    THEN Filled(p, l) /\ Seen(p, l) /\ Buffered(p, l) /\ Contents(p, l) /\ Copied(l)
    ELSE list[l] = fifo[l]

(* A lidar the scan has passed: what it has left is announced, or will be. *)
Looked(l) ==
  \/ consumer.pc \in {"enter", "wait", "loop", "done"}
  \/ consumer.pc \in {"scan", "poll", "pop", "update", "publish"} /\ l < consumer.lidar
Announced(l) ==
  \/ count = 1 \/ producer.pc = "signal" \/ (producer.pc = "check" /\ producer.lidar = l)
AllAnnounced(p) ==
  \A l \in scanned :
    Looked(l) /\ (exit = "no" \/ consumer.pc = "wait") =>
      Announced(l) \/ Len(fifo[l]) <= IF RingSettings[p].ring THEN 1 ELSE 0

RingInv(p) ==
  RingTypeOK(p) /\ ThreadsTypeOK(p) /\ PublishersOK(p) /\ RingKept(p) /\ AllAnnounced(p)

-------------------------------------------------------------------------------
LEMMA SettingFacts ==
  ASSUME NEW p \in Rings
  PROVE  /\ RingSettings[p].mod \in Nat \ {0} /\ Queues(p)!Size \in Nat \ {0}
         /\ RingSettings[p].mod % Queues(p)!Size = 0 /\ Queues(p)!Size < RingSettings[p].mod
         /\ RingSettings[p].ring \in BOOLEAN
         /\ IsFiniteSet(RingSettings[p].lidars)
         /\ \E n \in Nat \ {0} : RingSettings[p].lidars = 1 .. n
         /\ Cardinality(RingSettings[p].ids) \in Nat \ {0}
<1>1. Queues(p)!QueuesAssumption
  BY RingsAssumption
<1>2. /\ \A S : Queues(p)!IsFiniteSet(S) <=> IsFiniteSet(S)
      /\ \A S : Queues(p)!Cardinality(S) = Cardinality(S)
  BY DEF Queues!IsFiniteSet, Queues!Cardinality, IsFiniteSet, Cardinality
<1> QED
  BY <1>1, <1>2, FS_CardinalityType DEF Queues!QueuesAssumption

(* The least of a set of lidars is one of them.                            *)
LEMMA LeastLidar ==
  ASSUME NEW p \in Rings, NEW F \in SUBSET RingSettings[p].lidars, F # {}
  PROVE  Queues(p)!Min(F) \in F
<1> DEFINE Less == OpToRel(<, Nat)
<1>1. F \subseteq Nat
  BY SettingFacts
<1>2. \E x \in F : \A y \in F : ~ (<<y, x>> \in Less)
  BY <1>1, NatLessThanWellFounded, WFMin
<1>3. \A x, y \in F : y < x => <<y, x>> \in Less
  BY <1>1 DEF OpToRel
<1> HIDE DEF Less
<1>4. PICK x \in F : \A y \in F : ~ (<<y, x>> \in Less)
  BY <1>2
<1>5. \A y \in F : ~ (y < x)
  BY <1>3, <1>4, Zenon
<1>6. \A y \in F : x <= y
  BY <1>1, <1>5
<1> QED
  BY <1>6 DEF Queues!Min

(* The operators on indices, in linear terms.                              *)
LEMMA RingOperators ==
  ASSUME NEW p \in Rings, RingTypeOK(p), NEW l \in RingSettings[p].lidars
  PROVE  /\ Queues(p)!UsedSize(stored, l) = Used(p, stored, l)
         /\ Queues(p)!Bump(stored[l]) = Pos(RingSettings[p].mod, stored[l], 1)
         /\ Queues(p)!Bump(rd[l]) = Pos(RingSettings[p].mod, rd[l], 1)
         /\ Pos(RingSettings[p].mod, stored[l], 1) \in Indices(p)
         /\ Pos(RingSettings[p].mod, rd[l], 1) \in Indices(p)
         /\ \A n : Queues(p)!SlotOf(l, n) = n % Queues(p)!Size
         /\ Queues(p)!Fresh(nextId[l]) \in Nat
<1>1. stored[l] \in Indices(p) /\ rd[l] \in Indices(p) /\ nextId[l] \in Nat
  BY DEF RingTypeOK
<1>2. Queues(p)!UsedSize(stored, l) = Used(p, stored, l)
  BY <1>1, SettingFacts, DifferenceOf DEF Queues!UsedSize, Used, Indices
<1>3. \A n \in Indices(p) :
        /\ Queues(p)!Bump(n) = Pos(RingSettings[p].mod, n, 1)
        /\ Pos(RingSettings[p].mod, n, 1) \in Indices(p)
  BY SettingFacts, SuccessorOf DEF Queues!Bump, Indices
<1>4. Queues(p)!Fresh(nextId[l]) \in Nat
  <2>1. Queues(p)!Cardinality(RingSettings[p].ids) \in Nat \ {0}
    <3>1. \A S : Queues(p)!Cardinality(S) = Cardinality(S)
      BY DEF Queues!Cardinality, Cardinality
    <3> QED
      BY <3>1, SettingFacts
  <2> QED
    BY <1>1, <2>1 DEF Queues!Fresh
<1> QED
  BY <1>1, <1>2, <1>3, <1>4 DEF Queues!SlotOf

(* A ring is kept by steps that copy nothing into the consumer, push       *)
(* nothing and move no index.                                              *)
QueuesRest == UNCHANGED <<wr, rd, stored, slot, list, fifo>>
ThreadsRest ==
  /\ producer' = producer \/ (producer'.frame = producer.frame /\ producer'.pc # "write")
  /\ consumer' = consumer \/ consumer'.pc # "update"

LEMMA RingRests ==
  ASSUME NEW p \in Rings, RingInv(p), QueuesRest, ThreadsRest
  PROVE  RingKept(p)'
<1> USE DEF QueuesRest, ThreadsRest
<1> SUFFICES ASSUME NEW l \in RingSettings[p].lidars, RingSettings[p].ring
             PROVE  /\ Filled(p, l)' /\ Seen(p, l)' /\ Buffered(p, l)' /\ Contents(p, l)'
                    /\ Copied(l)'
  BY DEF RingInv, RingKept
<1>1. Filled(p, l) /\ Seen(p, l) /\ Buffered(p, l) /\ Contents(p, l) /\ Copied(l)
  BY DEF RingInv, RingKept
<1>2. Filled(p, l)'
  BY <1>1 DEF Filled, Used
<1>3. Seen(p, l)'
  BY <1>1 DEF Seen, Used
<1>4. Buffered(p, l)'
  BY <1>1 DEF Buffered
<1>5. Contents(p, l)'
  BY <1>1 DEF Contents
<1>6. Copied(l)'
  BY <1>1 DEF Copied
<1> QED
  BY <1>2, <1>3, <1>4, <1>5, <1>6

(* The store buffer drains, of one ring or of all.                         *)
LEMMA RingDrains ==
  ASSUME NEW p \in Rings, RingInv(p), wr' \in [RingSettings[p].lidars -> Indices(p)],
         \A l \in RingSettings[p].lidars : wr'[l] = wr[l] \/ wr'[l] = stored[l],
         UNCHANGED <<rd, stored, slot, list, fifo, consumer>>,
         \/ producer' = producer
         \/ producer'.pc # "write" /\ (wr' = stored \/ producer'.frame = producer.frame)
  PROVE  RingKept(p)'
<1> SUFFICES ASSUME NEW l \in RingSettings[p].lidars, RingSettings[p].ring
             PROVE  /\ Filled(p, l)' /\ Seen(p, l)' /\ Buffered(p, l)' /\ Contents(p, l)'
                    /\ Copied(l)'
  BY DEF RingInv, RingKept
<1>1. Filled(p, l) /\ Seen(p, l) /\ Buffered(p, l) /\ Contents(p, l) /\ Copied(l)
  BY DEF RingInv, RingKept
<1>2. Filled(p, l)'
  BY <1>1 DEF Filled, Used
<1>3. Seen(p, l)'
  <2>1. wr'[l] = wr[l] \/ wr'[l] = stored[l]
    OBVIOUS
  <2>2. CASE wr'[l] = wr[l]
    BY <1>1, <2>2 DEF Seen, Used
  <2>3. CASE wr'[l] = stored[l]
    <3>1. Used(p, wr, l)' = Len(fifo'[l])
      BY <1>1, <2>3 DEF Filled, Used
    <3>2. /\ wr[l] \in Indices(p) /\ rd[l] \in Indices(p) /\ stored[l] \in Indices(p)
          /\ Len(fifo[l]) \in Nat
      BY DEF RingInv, RingTypeOK
    <3>3. wr[l] # rd[l] => Used(p, wr, l) >= 1
      BY <3>2, SettingFacts DEF Used, Sub, Indices
    <3>4. wr[l] # rd[l] => stored[l] # rd[l]
      <4>1. Sub(RingSettings[p].mod, rd[l], rd[l]) = 0
        BY <3>2 DEF Sub, Indices
      <4>2. Used(p, wr, l) <= Used(p, stored, l) /\ Used(p, wr, l) \in Int
        BY <1>1, <3>2, SettingFacts DEF Seen, Filled, Used, Sub, Indices
      <4> QED
        BY <3>3, <4>1, <4>2 DEF Used
    <3> QED
      BY <1>1, <2>3, <3>1, <3>2, <3>4 DEF Seen
  <2> QED
    BY <2>1, <2>2, <2>3
<1>4. Buffered(p, l)'
  BY <1>1 DEF Buffered
<1>5. Contents(p, l)'
  BY <1>1 DEF Contents
<1>6. Copied(l)'
  BY <1>1 DEF Copied
<1> QED
  BY <1>2, <1>3, <1>4, <1>5, <1>6

(* The slot that a push takes is none of those that wait.                  *)
LEMMA FreeSlot ==
  ASSUME NEW p \in Rings, RingTypeOK(p), NEW l \in RingSettings[p].lidars, Filled(p, l)
  PROVE  /\ stored[l] = Pos(RingSettings[p].mod, rd[l], Len(fifo[l]))
         /\ stored[l] % Queues(p)!Size \in 0 .. Queues(p)!Size - 1
         /\ \A k \in 1 .. Len(fifo[l]) :
              Pos(RingSettings[p].mod, rd[l], k - 1) % Queues(p)!Size
                \in 0 .. Queues(p)!Size - 1
         /\ Len(fifo[l]) < Queues(p)!Size =>
              \A k \in 1 .. Len(fifo[l]) :
                Pos(RingSettings[p].mod, rd[l], k - 1) % Queues(p)!Size
                  # stored[l] % Queues(p)!Size
<1> DEFINE m == RingSettings[p].mod
           size == Queues(p)!Size
           n == Len(fifo[l])
<1>1. /\ m \in Nat \ {0} /\ size \in Nat \ {0} /\ m % size = 0 /\ size < m
      /\ stored[l] \in 0 .. m - 1 /\ rd[l] \in 0 .. m - 1 /\ n \in Nat
  BY SettingFacts DEF RingTypeOK, Indices
<1>2. Sub(m, stored[l], rd[l]) = n /\ n <= size
  BY DEF Filled, Used
<1> HIDE DEF m, size, n
<1>3. stored[l] = Pos(m, rd[l], n)
  <2>1. \A a, b \in 0 .. m - 1 : Pos(m, b, Sub(m, a, b)) = a
    BY <1>1, PlaceAtDistance
  <2> QED
    BY <1>1, <1>2, <2>1
<1>4. \A k \in 1 .. n : Pos(m, rd[l], k - 1) \in Int
  BY <1>1 DEF Pos
<1>5. /\ stored[l] % size \in 0 .. size - 1
      /\ \A k \in 1 .. n : Pos(m, rd[l], k - 1) % size \in 0 .. size - 1
  <2>1. \A i \in Int : i % size \in 0 .. size - 1
    BY <1>1, Division
  <2> QED
    BY <1>1, <1>4, <2>1
<1>6. ASSUME n < size, NEW k \in 1 .. n, Pos(m, rd[l], k - 1) % size = stored[l] % size
      PROVE  FALSE
  <2>1. k - 1 \in 0 .. size - 1 /\ n \in 0 .. size - 1 /\ k - 1 # n /\ size <= m
    BY <1>1, <1>6
  <2>2. k - 1 = n
    BY <1>1, <1>3, <1>6, <2>1, SlotsDiffer
  <2> QED
    BY <2>1, <2>2
<1> QED
  BY <1>3, <1>5, <1>6 DEF m, size, n

(* A packet goes into a ring: first its slot is torn.                      *)
LEMMA BeginPushKeeps ==
  ASSUME NEW p \in Rings, RingInv(p), Queues(p)!BeginPush
  PROVE  RingInv(p)'
<1> DEFINE m == Queues(p)!Min(producer.frame)
           full == Queues(p)!QueueIsFull(m)
           L == RingSettings[p].lidars
           size == Queues(p)!Size
           torn == [k \in 0 .. size - 1 |->
                      IF k = Queues(p)!SlotOf(m, stored[m]) THEN Queues(p)!Torn
                      ELSE IF slot[m] = <<>> THEN Queues(p)!Blank ELSE slot[m][k]]
<1>1. /\ RingSettings[p].ring /\ producer.pc = "store" /\ producer.frame # {}
      /\ slot' = [slot EXCEPT ![m] = IF full THEN @ ELSE torn]
      /\ producer' = [pc |-> IF full THEN "full" ELSE "write", lidar |-> m,
                      frame |-> producer.frame \ {m}]
      /\ UNCHANGED <<wr, rd, stored, list, count, fifo, nextId>>
      /\ UNCHANGED <<sampling, consumer, publishers, exit, scanned>>
  BY DEF Queues!BeginPush, Queues!ProducerElse
<1>2. /\ RingTypeOK(p) /\ ThreadsTypeOK(p) /\ PublishersOK(p) /\ RingKept(p)
      /\ AllAnnounced(p)
  BY DEF RingInv
<1>3. m \in producer.frame /\ m \in L /\ producer.frame \subseteq L
  <2>1. producer.frame \in SUBSET L
    BY <1>2 DEF ThreadsTypeOK
  <2> QED
    BY <1>1, <2>1, LeastLidar
<1>4. size \in Nat \ {0} /\ torn # <<>> /\ torn \in [0 .. size - 1 -> Int]
  <2>1. size \in Nat \ {0}
    BY SettingFacts
  <2>2. slot[m] \in {<<>>} \union [0 .. size - 1 -> Int]
    BY <1>2, <1>3 DEF RingTypeOK
  <2>3. torn \in [0 .. size - 1 -> Int]
    <3>1. \A k \in 0 .. size - 1 : slot[m] = <<>> \/ slot[m][k] \in Int
      BY <2>2
    <3>2. Queues(p)!Torn \in Int /\ Queues(p)!Blank \in Int
      BY DEF Queues!Torn, Queues!Blank
    <3> QED
      BY <3>1, <3>2
  <2>4. 0 \in DOMAIN torn /\ 0 \notin DOMAIN <<>>
    BY <2>1
  <2> HIDE DEF torn
  <2> QED
    BY <2>1, <2>3, <2>4
<1>5. full <=> ~ (Len(fifo[m]) < size)
  <2>1. Queues(p)!UsedSize(stored, m) = Len(fifo[m])
    BY <1>1, <1>2, <1>3, RingOperators DEF RingKept, Filled
  <2>2. Len(fifo[m]) \in Nat
    BY <1>2, <1>3 DEF RingTypeOK
  <2> QED
    BY <1>4, <2>1, <2>2 DEF Queues!QueueIsFull
<1>6. \A k \in 0 .. size - 1 : k # stored[m] % size /\ slot[m] # <<>> => torn[k] = slot[m][k]
  BY DEF Queues!SlotOf
<1> HIDE DEF m, full, torn
<1>7. RingTypeOK(p)'
  <2>1. slot \in [L -> {<<>>} \union [0 .. size - 1 -> Int]]
    BY <1>2 DEF RingTypeOK
  <2>2. slot' \in [L -> {<<>>} \union [0 .. size - 1 -> Int]]
    BY <1>1, <1>4, <2>1
  <2> QED
    BY <1>1, <1>2, <2>2 DEF RingTypeOK, Indices
<1>8. ThreadsTypeOK(p)'
  <2>1. producer'.pc = "write" => slot'[m] # <<>>
    <3>1. slot \in [L -> {<<>>} \union [0 .. size - 1 -> Int]]
      BY <1>2 DEF RingTypeOK
    <3> QED
      BY <1>1, <1>3, <1>4, <3>1
  <2> QED
    BY <1>1, <1>2, <1>3, <2>1 DEF ThreadsTypeOK
<1>9. PublishersOK(p)'
  BY <1>1, <1>2 DEF PublishersOK
<1>10. RingKept(p)'
  <2> SUFFICES ASSUME NEW l \in L
               PROVE  /\ Filled(p, l)' /\ Seen(p, l)' /\ Buffered(p, l)' /\ Contents(p, l)'
                      /\ Copied(l)'
    BY <1>1 DEF RingKept
  <2>1. Filled(p, l) /\ Seen(p, l) /\ Buffered(p, l) /\ Contents(p, l) /\ Copied(l)
    BY <1>1, <1>2 DEF RingKept
  <2>2. Filled(p, l)'
    BY <1>1, <1>5, <2>1 DEF Filled, Used
  <2>3. Seen(p, l)'
    BY <1>1, <2>1 DEF Seen, Used
  <2>4. Buffered(p, l)'
    BY <1>1, <1>3, <2>1 DEF Buffered
  <2>5. Contents(p, l)'
    <3>0. slot \in [L -> {<<>>} \union [0 .. size - 1 -> Int]]
      BY <1>2 DEF RingTypeOK
    <3>1. CASE l # m \/ full
      <4>1. slot'[l] = slot[l]
        BY <1>1, <1>3, <3>0, <3>1
      <4> QED
        BY <1>1, <2>1, <4>1 DEF Contents
    <3>2. CASE l = m /\ ~full
      <4>1. slot'[l] = torn
        BY <1>1, <1>3, <3>0, <3>2
      <4>2. Len(fifo[l]) < size
        BY <1>5, <3>2
      <4>3. \A k \in 1 .. Len(fifo[l]) :
              LET i == Pos(RingSettings[p].mod, rd[l], k - 1) % size
              IN  i \in 0 .. size - 1 /\ i # stored[l] % size
        BY <1>2, <2>1, <4>2, FreeSlot
      <4> QED
        BY <1>1, <1>4, <1>6, <2>1, <3>2, <4>1, <4>3 DEF Contents
    <3> QED
      BY <3>1, <3>2
  <2>6. Copied(l)'
    BY <1>1, <2>1 DEF Copied
  <2> QED
    BY <2>2, <2>3, <2>4, <2>5, <2>6
<1>11. AllAnnounced(p)'
  BY <1>1, <1>2 DEF AllAnnounced, Announced, Looked
<1> QED
  BY <1>7, <1>8, <1>9, <1>10, <1>11 DEF RingInv

(* Then it is there whole, and the index moves on in the store buffer.     *)
LEMMA EndPushKeeps ==
  ASSUME NEW p \in Rings, RingInv(p), Queues(p)!EndPush
  PROVE  RingInv(p)'
<1> DEFINE L == RingSettings[p].lidars
           size == Queues(p)!Size
           mod == RingSettings[p].mod
<1>0. PICK m \in L : m = producer.lidar
  BY DEF RingInv, ThreadsTypeOK
<1> DEFINE at == stored[m] % size
<1>1. /\ producer.pc = "write" /\ producer' = [producer EXCEPT !.pc = "check"]
      /\ slot' = [slot EXCEPT ![m][at] = nextId[m]]
      /\ stored' = [stored EXCEPT ![m] = Queues(p)!Bump(stored[m])]
      /\ fifo' = [fifo EXCEPT ![m] = Append(fifo[m], nextId[m])]
      /\ nextId' = [nextId EXCEPT ![m] = Queues(p)!Fresh(nextId[m])]
      /\ UNCHANGED <<wr, rd, list, count>>
      /\ UNCHANGED <<sampling, consumer, publishers, exit, scanned>>
  BY <1>0 DEF Queues!EndPush, Queues!ProducerGoes, Queues!ProducerElse, Queues!SlotOf
<1>2. /\ RingTypeOK(p) /\ ThreadsTypeOK(p) /\ PublishersOK(p) /\ RingKept(p)
      /\ AllAnnounced(p)
  BY DEF RingInv
<1>3. /\ m \in L /\ RingSettings[p].ring /\ m \notin producer.frame /\ slot[m] # <<>>
      /\ producer'.pc = "check" /\ producer'.lidar = m /\ producer'.frame = producer.frame
      /\ producer' \in [pc : {"idle", "store", "write", "check", "full", "signal"}, lidar : L,
                        frame : SUBSET L]
  BY <1>0, <1>1, <1>2 DEF ThreadsTypeOK
<1>4. /\ size \in Nat \ {0} /\ mod \in Nat \ {0} /\ size < mod
      /\ fifo[m] \in Seq(Nat) /\ nextId[m] \in Nat /\ Len(fifo[m]) \in Nat
      /\ slot[m] \in [0 .. size - 1 -> Int]
  BY <1>2, <1>3, SettingFacts DEF RingTypeOK
<1>5. /\ Queues(p)!Bump(stored[m]) = Pos(mod, stored[m], 1)
      /\ Pos(mod, stored[m], 1) \in Indices(p) /\ Queues(p)!Fresh(nextId[m]) \in Nat
  BY <1>2, <1>3, RingOperators
<1>6. /\ Filled(p, m) /\ Seen(p, m) /\ Buffered(p, m) /\ Contents(p, m) /\ Copied(m)
      /\ Len(fifo[m]) < size
  BY <1>0, <1>1, <1>2, <1>3 DEF RingKept, Filled
<1>7. /\ stored[m] = Pos(mod, rd[m], Len(fifo[m])) /\ at \in 0 .. size - 1
      /\ \A k \in 1 .. Len(fifo[m]) :
           /\ Pos(mod, rd[m], k - 1) % size \in 0 .. size - 1
           /\ Pos(mod, rd[m], k - 1) % size # at
  BY <1>2, <1>3, <1>6, FreeSlot
<1>8. /\ slot'[m] = [slot[m] EXCEPT ![at] = nextId[m]] /\ stored'[m] = Pos(mod, stored[m], 1)
      /\ fifo'[m] = Append(fifo[m], nextId[m])
      /\ \A l \in L : l # m => slot'[l] = slot[l] /\ stored'[l] = stored[l] /\ fifo'[l] = fifo[l]
  BY <1>1, <1>2, <1>3, <1>5 DEF RingTypeOK
<1> HIDE DEF size, mod, at
<1>9. /\ Len(fifo'[m]) = Len(fifo[m]) + 1 /\ fifo'[m] \in Seq(Nat)
      /\ \A k \in 1 .. Len(fifo[m]) : fifo'[m][k] = fifo[m][k]
      /\ fifo'[m][Len(fifo[m]) + 1] = nextId[m]
  BY <1>4, <1>8
<1>10. RingTypeOK(p)'
  <2>1. slot'[m] \in [0 .. size - 1 -> Int]
    BY <1>4, <1>7, <1>8
  <2>2. slot' \in [L -> {<<>>} \union [0 .. Queues(p)!Size - 1 -> Int]]
    BY <1>1, <1>2, <2>1, <1>8 DEF RingTypeOK, size
  <2>3. stored' \in [L -> Indices(p)]
    BY <1>1, <1>2, <1>5 DEF RingTypeOK, mod
  <2>4. fifo' \in [L -> Seq(Nat)]
    BY <1>1, <1>2, <1>8, <1>9 DEF RingTypeOK
  <2>5. nextId' \in [L -> Nat]
    BY <1>1, <1>2, <1>5 DEF RingTypeOK
  <2> QED
    BY <1>1, <1>2, <2>2, <2>3, <2>4, <2>5 DEF RingTypeOK, Indices
<1>11. ThreadsTypeOK(p)'
  BY <1>1, <1>2, <1>3 DEF ThreadsTypeOK
<1>12. PublishersOK(p)'
  BY <1>1, <1>2 DEF PublishersOK
<1>13. RingKept(p)'
  <2> SUFFICES ASSUME NEW l \in L
               PROVE  /\ Filled(p, l)' /\ Seen(p, l)' /\ Buffered(p, l)' /\ Contents(p, l)'
                      /\ Copied(l)'
    BY <1>3 DEF RingKept
  <2>1. Filled(p, l) /\ Seen(p, l) /\ Buffered(p, l) /\ Contents(p, l) /\ Copied(l)
    BY <1>2, <1>3 DEF RingKept
  <2>2. CASE l # m
    <3>1. slot'[l] = slot[l] /\ stored'[l] = stored[l] /\ fifo'[l] = fifo[l]
      BY <1>8, <2>2
    <3>2. Filled(p, l)' /\ Seen(p, l)'
      BY <1>1, <1>3, <2>1, <3>1 DEF Filled, Seen, Used
    <3>3. Buffered(p, l)'
      BY <1>1, <1>3, <2>1, <3>1 DEF Buffered
    <3>4. Contents(p, l)' /\ Copied(l)'
      BY <1>1, <2>1, <3>1 DEF Contents, Copied
    <3> QED
      BY <3>2, <3>3, <3>4
  <2>3. CASE l = m
    <3>1. /\ stored[m] \in 0 .. mod - 1 /\ rd[m] \in 0 .. mod - 1 /\ wr[m] \in 0 .. mod - 1
          /\ rd'[m] = rd[m] /\ wr'[m] = wr[m]
      BY <1>1, <1>2, <1>3 DEF RingTypeOK, Indices, mod
    <3>2. Sub(mod, stored[m], rd[m]) = Len(fifo[m])
      BY <1>6 DEF Filled, Used, mod
    <3>3. Sub(mod, Pos(mod, stored[m], 1), rd[m]) = Len(fifo[m]) + 1
      <4>1. mod \in Nat \ {0} /\ Len(fifo[m]) + 1 < mod
        BY <1>4, <1>6
      <4> QED
        BY <3>1, <3>2, <4>1, PushDistance
    <3>4. Filled(p, m)'
      BY <1>3, <1>4, <1>6, <1>8, <1>9, <3>1, <3>3 DEF Filled, Used, mod, size
    <3>5. Seen(p, m)'
      <4>1. Sub(mod, wr[m], rd[m]) \in Int
        BY <1>4, <3>1 DEF Sub
      <4> QED
        BY <1>1, <1>4, <1>6, <1>9, <3>1, <4>1 DEF Seen, Used, mod
    <3>6. Buffered(p, m)'
      BY <1>1, <1>3, <1>6, <1>8, <3>1 DEF Buffered, mod
    <3>7. Contents(p, m)'
      <4> SUFFICES ASSUME NEW k \in 1 .. Len(fifo[m]) + 1
                   PROVE  /\ slot'[m] # <<>>
                          /\ slot'[m][Pos(mod, rd[m], k - 1) % size] = fifo'[m][k]
        BY <1>1, <1>9 DEF Contents, mod, size
      <4>1. slot'[m] # <<>>
        <5>1. DOMAIN slot'[m] = 0 .. size - 1 /\ 0 \in 0 .. size - 1 /\ DOMAIN <<>> = {}
          BY <1>4, <1>8
        <5> QED
          BY <5>1
      <4>2. CASE k <= Len(fifo[m])
        <5>1. \A j \in 1 .. Len(fifo[m]) : slot[m][Pos(mod, rd[m], j - 1) % size] = fifo[m][j]
          BY <1>6 DEF Contents, mod, size
        <5>2. k \in 1 .. Len(fifo[m])
          BY <1>4, <4>2
        <5> QED
          BY <1>4, <1>7, <1>8, <1>9, <4>1, <5>1, <5>2
      <4>3. CASE k = Len(fifo[m]) + 1
        <5>1. Pos(mod, rd[m], k - 1) % size = at
          BY <1>4, <1>7, <4>3 DEF at, size
        <5>2. slot'[m][at] = nextId[m]
          BY <1>4, <1>7, <1>8
        <5>3. fifo'[m][k] = nextId[m]
          BY <1>9, <4>3
        <5> QED
          BY <4>1, <5>1, <5>2, <5>3
      <4>4. k <= Len(fifo[m]) \/ k = Len(fifo[m]) + 1
        <5>1. Len(fifo[m]) \in Nat
          BY <1>4
        <5> QED
          BY <5>1
      <4> QED
        BY <4>2, <4>3, <4>4
    <3>8. Copied(m)'
      <4>1. consumer.pc = "update" /\ consumer.lidar = m => Len(fifo[m]) >= 1
        <5>1. wr[m] # rd[m] => Sub(mod, wr[m], rd[m]) >= 1
          BY <1>4, <3>1 DEF Sub
        <5>2. Sub(mod, wr[m], rd[m]) \in Int
          BY <1>4, <3>1 DEF Sub
        <5> QED
          BY <1>4, <1>6, <5>1, <5>2 DEF Seen, Used, mod
      <4>2. Len(fifo[m]) >= 1 => Head(fifo'[m]) = Head(fifo[m])
        BY <1>4, <1>8, <1>9
      <4> QED
        BY <1>1, <1>6, <4>1, <4>2 DEF Copied
    <3> QED
      BY <2>3, <3>4, <3>5, <3>6, <3>7, <3>8
  <2> QED
    BY <2>2, <2>3
<1>14. AllAnnounced(p)'
  <2>1. \A l \in scanned : l # m => fifo'[l] = fifo[l]
    BY <1>2, <1>8 DEF RingTypeOK
  <2>2. \A l \in scanned : Announced(l) => count = 1
    BY <1>1 DEF Announced
  <2> QED
    BY <1>1, <1>2, <1>3, <2>1, <2>2 DEF AllAnnounced, Announced, Looked
<1> QED
  BY <1>10, <1>11, <1>12, <1>13, <1>14 DEF RingInv

(* IMU data goes to a list.                                                *)
LEMMA PushImuKeeps ==
  ASSUME NEW p \in Rings, RingInv(p), Queues(p)!PushImu
  PROVE  RingInv(p)'
<1> DEFINE L == RingSettings[p].lidars
<1>1. PICK m \in L :
        /\ ~RingSettings[p].ring /\ producer.pc = "store"
        /\ list' = [list EXCEPT ![m] = Append(list[m], nextId[m])]
        /\ fifo' = [fifo EXCEPT ![m] = Append(fifo[m], nextId[m])]
        /\ nextId' = [nextId EXCEPT ![m] = Queues(p)!Fresh(nextId[m])]
        /\ producer' = [pc |-> "check", lidar |-> m, frame |-> producer.frame \ {m}]
        /\ UNCHANGED <<wr, rd, stored, slot, count>>
        /\ UNCHANGED <<sampling, consumer, publishers, exit, scanned>>
  <2>1. producer.frame \in SUBSET L /\ producer.frame # {}
    BY DEF RingInv, ThreadsTypeOK, Queues!PushImu
  <2>2. Queues(p)!Min(producer.frame) \in L
    BY <2>1, LeastLidar
  <2> QED
    BY <2>2 DEF Queues!PushImu, Queues!ProducerElse
<1>2. /\ RingTypeOK(p) /\ ThreadsTypeOK(p) /\ PublishersOK(p) /\ RingKept(p)
      /\ AllAnnounced(p)
  BY DEF RingInv
<1>3. /\ list[m] \in Seq(Nat) /\ fifo[m] \in Seq(Nat) /\ nextId[m] \in Nat
      /\ Queues(p)!Fresh(nextId[m]) \in Nat
  BY <1>2, RingOperators DEF RingTypeOK
<1>4. RingTypeOK(p)'
  <2>1. list' \in [L -> Seq(Nat)]
    BY <1>1, <1>2, <1>3 DEF RingTypeOK
  <2>2. fifo' \in [L -> Seq(Nat)]
    BY <1>1, <1>2, <1>3 DEF RingTypeOK
  <2>3. nextId' \in [L -> Nat]
    BY <1>1, <1>2, <1>3 DEF RingTypeOK
  <2> QED
    BY <1>1, <1>2, <2>1, <2>2, <2>3 DEF RingTypeOK, Indices
<1>5. ThreadsTypeOK(p)'
  BY <1>1, <1>2 DEF ThreadsTypeOK
<1>6. PublishersOK(p)'
  BY <1>1, <1>2 DEF PublishersOK
<1>7. RingKept(p)'
  BY <1>1, <1>2 DEF RingKept, RingTypeOK
<1>8. AllAnnounced(p)'
  <2>1. \A l \in scanned : l # m => fifo'[l] = fifo[l]
    BY <1>1, <1>2 DEF RingTypeOK
  <2>2. \A l \in scanned : Announced(l) => count = 1
    BY <1>1 DEF Announced
  <2>3. producer'.pc = "check" /\ producer'.lidar = m
    BY <1>1
  <2> QED
    BY <1>1, <1>2, <2>1, <2>2, <2>3 DEF AllAnnounced, Announced, Looked
<1> QED
  BY <1>4, <1>5, <1>6, <1>7, <1>8 DEF RingInv

(* The packet copied out of a ring is the oldest.                          *)
LEMMA PrePopKeeps ==
  ASSUME NEW p \in Rings, RingInv(p), Queues(p)!PrePop
  PROVE  RingInv(p)'
<1> DEFINE L == RingSettings[p].lidars
           size == Queues(p)!Size
           mod == RingSettings[p].mod
<1>1. PICK m \in L : m = consumer.lidar
  BY DEF RingInv, ThreadsTypeOK, Queues!PrePop
<1>2. /\ RingSettings[p].ring /\ consumer.pc = "pop"
      /\ \/ consumer' = [consumer EXCEPT !.pc = "poll"]
         \/ /\ wr[m] # rd[m]
            /\ consumer' = [consumer EXCEPT !.pc = "update", !.pkg = slot[m][rd[m] % size]]
      /\ UNCHANGED <<wr, rd, stored, slot, list, count, publishers, fifo, scanned>>
      /\ UNCHANGED <<sampling, producer, exit, nextId>>
  BY <1>1 DEF Queues!PrePop, Queues!Goes, Queues!QueueIsEmpty, Queues!SlotOf, Queues!queues,
     Queues!ConsumerElse
<1>3. /\ RingTypeOK(p) /\ ThreadsTypeOK(p) /\ PublishersOK(p) /\ RingKept(p)
      /\ AllAnnounced(p)
  BY DEF RingInv
<1>4. RingTypeOK(p)'
  BY <1>2, <1>3 DEF RingTypeOK, Indices
<1>5. wr[m] # rd[m] => slot[m][rd[m] % size] = Head(fifo[m]) /\ Head(fifo[m]) \in Nat
  <2>1. /\ mod \in Nat \ {0} /\ wr[m] \in 0 .. mod - 1 /\ rd[m] \in 0 .. mod - 1
        /\ fifo[m] \in Seq(Nat)
    BY <1>3, SettingFacts DEF RingTypeOK, Indices
  <2>2. Sub(mod, wr[m], rd[m]) <= Len(fifo[m]) /\ Contents(p, m)
    BY <1>2, <1>3 DEF RingKept, Seen, Used
  <2> HIDE DEF mod
  <2>3. wr[m] # rd[m] => Len(fifo[m]) >= 1
    BY <2>1, <2>2 DEF Sub
  <2>4. Pos(mod, rd[m], 1 - 1) = rd[m]
    BY <2>1 DEF Pos
  <2> QED
    BY <2>1, <2>2, <2>3, <2>4 DEF Contents, mod
<1>6. ThreadsTypeOK(p)'
  <2>1. /\ consumer'.lidar = consumer.lidar /\ consumer'.lidar \in L
        /\ consumer' \in [pc : {"poll", "update"}, lidar : Nat \ {0}, pkg : Int]
    <3>1. consumer \in [pc : {"enter", "wait", "scan", "poll", "pop", "update", "publish",
                              "loop", "done"}, lidar : Nat \ {0}, pkg : Int]
      BY <1>3 DEF ThreadsTypeOK
    <3>2. wr[m] # rd[m] => slot[m][rd[m] % size] \in Int
      BY <1>5
    <3> QED
      BY <1>1, <1>2, <3>1, <3>2
  <2> QED
    BY <1>2, <1>3, <2>1 DEF ThreadsTypeOK
<1>7. PublishersOK(p)'
  BY <1>2, <1>3 DEF PublishersOK
<1>8. RingKept(p)'
  <2> SUFFICES ASSUME NEW l \in L
               PROVE  /\ Filled(p, l)' /\ Seen(p, l)' /\ Buffered(p, l)' /\ Contents(p, l)'
                      /\ Copied(l)'
    BY <1>2 DEF RingKept
  <2>1. Filled(p, l) /\ Seen(p, l) /\ Buffered(p, l) /\ Contents(p, l) /\ Copied(l)
    BY <1>2, <1>3 DEF RingKept
  <2>2. consumer'.lidar = m /\ (consumer'.pc = "update" => wr[m] # rd[m])
    BY <1>1, <1>2, <1>3 DEF ThreadsTypeOK
  <2>3. consumer'.pc = "update" => consumer'.pkg = Head(fifo[m])
    BY <1>2, <1>3, <1>5 DEF ThreadsTypeOK
  <2>4. Filled(p, l)' /\ Buffered(p, l)' /\ Contents(p, l)'
    BY <1>2, <2>1 DEF Filled, Used, Buffered, Contents
  <2>5. Seen(p, l)'
    BY <1>2, <2>1, <2>2 DEF Seen, Used
  <2>6. Copied(l)'
    BY <1>2, <2>2, <2>3 DEF Copied
  <2> QED
    BY <2>4, <2>5, <2>6
<1>9. AllAnnounced(p)'
  <2>1. consumer'.lidar = consumer.lidar /\ consumer'.pc \in {"poll", "update"}
    BY <1>2, <1>3 DEF ThreadsTypeOK
  <2> QED
    BY <1>2, <1>3, <2>1 DEF AllAnnounced, Announced, Looked
<1> QED
  BY <1>4, <1>6, <1>7, <1>8, <1>9 DEF RingInv

(* Its slot is given back.                                                 *)
LEMMA PopUpdateKeeps ==
  ASSUME NEW p \in Rings, RingInv(p), Queues(p)!PopUpdate
  PROVE  RingInv(p)'
<1> DEFINE L == RingSettings[p].lidars
           size == Queues(p)!Size
           mod == RingSettings[p].mod
<1>1. PICK m \in L : m = consumer.lidar
  BY DEF RingInv, ThreadsTypeOK, Queues!PopUpdate
<1>2. /\ consumer.pc = "update" /\ consumer' = [consumer EXCEPT !.pc = "publish"]
      /\ rd' = [rd EXCEPT ![m] = Queues(p)!Bump(rd[m])]
      /\ fifo' = [fifo EXCEPT ![m] = Tail(fifo[m])]
      /\ UNCHANGED <<wr, stored, slot, list, count, publishers, scanned>>
      /\ UNCHANGED <<sampling, producer, exit, nextId>>
  BY <1>1 DEF Queues!PopUpdate, Queues!Goes, Queues!ConsumerElse
<1>3. /\ RingTypeOK(p) /\ ThreadsTypeOK(p) /\ PublishersOK(p) /\ RingKept(p)
      /\ AllAnnounced(p)
  BY DEF RingInv
<1>4. /\ RingSettings[p].ring /\ Filled(p, m) /\ Seen(p, m) /\ Buffered(p, m) /\ Contents(p, m)
      /\ consumer'.pc = "publish" /\ consumer'.lidar = m
  BY <1>1, <1>2, <1>3 DEF ThreadsTypeOK, RingKept
<1>5. /\ mod \in Nat \ {0} /\ size \in Nat \ {0} /\ size < mod
      /\ wr[m] \in 0 .. mod - 1 /\ rd[m] \in 0 .. mod - 1 /\ stored[m] \in 0 .. mod - 1
      /\ fifo[m] \in Seq(Nat) /\ Len(fifo[m]) \in Nat
  BY <1>3, SettingFacts DEF RingTypeOK, Indices
<1>6. /\ rd' \in [L -> Indices(p)] /\ rd'[m] = Pos(mod, rd[m], 1)
      /\ fifo'[m] = Tail(fifo[m])
      /\ \A l \in L : l # m => rd'[l] = rd[l] /\ fifo'[l] = fifo[l]
  <2>1. /\ Queues(p)!Bump(rd[m]) = Pos(mod, rd[m], 1)
        /\ Pos(mod, rd[m], 1) \in Indices(p)
    BY <1>3, RingOperators
  <2>2. rd \in [L -> Indices(p)] /\ fifo \in [L -> Seq(Nat)]
    BY <1>3 DEF RingTypeOK
  <2> HIDE DEF mod
  <2> QED
    BY <1>2, <2>1, <2>2
<1>7. /\ wr[m] # rd[m] /\ stored[m] # rd[m] /\ Len(fifo[m]) >= 1
      /\ Sub(mod, wr[m], rd[m]) <= Len(fifo[m]) /\ Sub(mod, stored[m], rd[m]) = Len(fifo[m])
      /\ Sub(mod, wr[m], rd[m]) \in Nat
  <2>1. wr[m] # rd[m]
    BY <1>1, <1>2, <1>4 DEF Seen
  <2>2. Sub(mod, wr[m], rd[m]) <= Len(fifo[m]) /\ Sub(mod, stored[m], rd[m]) = Len(fifo[m])
    BY <1>4 DEF Seen, Filled, Used
  <2> HIDE DEF mod, size
  <2>3. Sub(mod, wr[m], rd[m]) \in Nat /\ Sub(mod, wr[m], rd[m]) # 0
    <3>1. PICK n \in Nat \ {0} : n = mod
      BY <1>5
    <3>2. PICK a \in 0 .. n - 1, b \in 0 .. n - 1 : a = wr[m] /\ b = rd[m] /\ a # b
      BY <1>5, <2>1, <3>1
    <3>3. Sub(n, a, b) \in Nat /\ Sub(n, a, b) # 0
      BY <3>2 DEF Sub
    <3> QED
      BY <3>1, <3>2, <3>3
  <2>4. stored[m] = rd[m] => Sub(mod, stored[m], rd[m]) = 0
    BY <1>5 DEF Sub
  <2> QED
    BY <1>5, <2>1, <2>2, <2>3, <2>4
<1>8. /\ Tail(fifo[m]) \in Seq(Nat) /\ Len(Tail(fifo[m])) = Len(fifo[m]) - 1
      /\ \A k \in 1 .. Len(fifo[m]) - 1 : Tail(fifo[m])[k] = fifo[m][k + 1]
  BY <1>5, <1>7
<1>9. RingTypeOK(p)'
  <2>1. fifo' \in [L -> Seq(Nat)]
    BY <1>2, <1>3, <1>8 DEF RingTypeOK
  <2> QED
    BY <1>2, <1>3, <1>6, <2>1 DEF RingTypeOK, Indices
<1>10. ThreadsTypeOK(p)'
  BY <1>2, <1>3 DEF ThreadsTypeOK
<1>11. PublishersOK(p)'
  BY <1>2, <1>3 DEF PublishersOK
<1>12. RingKept(p)'
  <2> SUFFICES ASSUME NEW l \in L
               PROVE  /\ Filled(p, l)' /\ Seen(p, l)' /\ Buffered(p, l)' /\ Contents(p, l)'
                      /\ Copied(l)'
    BY <1>4 DEF RingKept
  <2>1. CASE l # m
    <3>1. Filled(p, l) /\ Seen(p, l) /\ Buffered(p, l) /\ Contents(p, l) /\ Copied(l)
      BY <1>3, <1>4 DEF RingKept
    <3>2. rd'[l] = rd[l] /\ fifo'[l] = fifo[l]
      BY <1>6, <2>1
    <3>3. Filled(p, l)' /\ Buffered(p, l)' /\ Contents(p, l)'
      BY <1>2, <3>1, <3>2 DEF Filled, Used, Buffered, Contents
    <3>4. Seen(p, l)' /\ Copied(l)'
      BY <1>2, <1>4, <3>1, <3>2 DEF Seen, Used, Copied
    <3> QED
      BY <3>3, <3>4
  <2>2. CASE l = m
    <3> HIDE DEF mod, size
    <3>1. /\ Sub(mod, stored[m], Pos(mod, rd[m], 1)) = Len(fifo[m]) - 1
          /\ Sub(mod, wr[m], Pos(mod, rd[m], 1)) <= Len(fifo[m]) - 1
      <4>1. Sub(mod, stored[m], Pos(mod, rd[m], 1)) = Sub(mod, stored[m], rd[m]) - 1
        BY <1>5, <1>7, PopDistance
      <4>2. Sub(mod, wr[m], Pos(mod, rd[m], 1)) = Sub(mod, wr[m], rd[m]) - 1
        BY <1>5, <1>7, PopDistance
      <4> QED
        BY <1>5, <1>7, <4>1, <4>2
    <3>2. Len(fifo'[m]) = Len(fifo[m]) - 1
      BY <1>6, <1>8
    <3>3. Filled(p, m)'
      <4>1. Used(p, stored, m)' = Len(fifo'[m])
        BY <1>2, <1>6, <3>1, <3>2 DEF Used, mod
      <4>2. /\ Len(fifo[m]) <= Queues(p)!Size
            /\ producer.pc = "write" /\ producer.lidar = m => Len(fifo[m]) < Queues(p)!Size
        BY <1>4 DEF Filled
      <4> QED
        BY <1>2, <1>5, <3>2, <4>1, <4>2 DEF Filled, size
    <3>4. Seen(p, m)'
      BY <1>2, <1>4, <1>6, <3>1, <3>2 DEF Seen, Used, mod
    <3>5. Buffered(p, m)'
      BY <1>2, <1>4 DEF Buffered
    <3>6. Contents(p, m)'
      <4> SUFFICES ASSUME NEW k \in 1 .. Len(fifo[m]) - 1
                   PROVE  /\ slot[m] # <<>>
                          /\ slot[m][Pos(mod, Pos(mod, rd[m], 1), k - 1) % size] = fifo'[m][k]
        BY <1>2, <1>6, <3>2 DEF Contents, mod, size
      <4>1. k + 1 \in 1 .. Len(fifo[m]) /\ (k + 1) - 1 = k /\ k - 1 \in 0 .. mod - 2
            /\ (k - 1) + 1 = k
        <5>1. Len(fifo[m]) <= size
          BY <1>4 DEF Filled, size
        <5> QED
          BY <1>5, <5>1
      <4>2. slot[m] # <<>> /\ slot[m][Pos(mod, rd[m], k) % size] = fifo[m][k + 1]
        BY <1>4, <4>1 DEF Contents, mod, size
      <4>3. Pos(mod, Pos(mod, rd[m], 1), k - 1) = Pos(mod, rd[m], k)
        <5>1. Pos(mod, Pos(mod, rd[m], 1), k - 1) = Pos(mod, rd[m], (k - 1) + 1)
          BY <1>5, <4>1, NextPlace
        <5> QED
          BY <4>1, <5>1
      <4> QED
        BY <1>6, <1>8, <4>2, <4>3
    <3>7. Copied(m)'
      BY <1>4 DEF Copied
    <3> QED
      BY <2>2, <3>3, <3>4, <3>5, <3>6, <3>7
  <2> QED
    BY <2>1, <2>2
<1>13. AllAnnounced(p)'
  <2>1. ASSUME NEW l \in L
        PROVE  Len(fifo'[l]) <= Len(fifo[l]) /\ Len(fifo'[l]) \in Nat /\ Len(fifo[l]) \in Nat
    <3>1. fifo[l] \in Seq(Nat) /\ Len(fifo[l]) \in Nat
      BY <1>3 DEF RingTypeOK
    <3>2. Len(fifo'[m]) = Len(fifo[m]) - 1
      BY <1>6, <1>8
    <3>3. l # m => fifo'[l] = fifo[l]
      BY <1>6
    <3> QED
      BY <1>5, <1>7, <3>1, <3>2, <3>3
  <2>2. consumer'.pc = "publish" /\ consumer'.lidar = consumer.lidar
    BY <1>2, <1>3 DEF ThreadsTypeOK
  <2>3. \A l \in scanned : l \in L
    BY <1>3 DEF RingTypeOK
  <2> QED
    BY <1>2, <1>3, <1>4, <2>1, <2>2, <2>3 DEF AllAnnounced, Announced, Looked
<1> QED
  BY <1>9, <1>10, <1>11, <1>12, <1>13 DEF RingInv

LEMMA PopImuKeeps ==
  ASSUME NEW p \in Rings, RingInv(p), Queues(p)!PopImu
  PROVE  RingInv(p)'
<1> DEFINE L == RingSettings[p].lidars
<1>1. PICK m \in L : m = consumer.lidar
  BY DEF RingInv, ThreadsTypeOK, Queues!PopImu
<1>2. /\ ~RingSettings[p].ring /\ consumer.pc = "pop" /\ list[m] # <<>>
      /\ consumer' = [consumer EXCEPT !.pc = "publish", !.pkg = Head(list[m])]
      /\ list' = [list EXCEPT ![m] = Tail(list[m])]
      /\ fifo' = [fifo EXCEPT ![m] = Tail(fifo[m])]
      /\ UNCHANGED <<wr, rd, stored, slot, count, publishers, scanned>>
      /\ UNCHANGED <<sampling, producer, exit, nextId>>
  BY <1>1 DEF Queues!PopImu, Queues!ConsumerElse
<1>3. /\ RingTypeOK(p) /\ ThreadsTypeOK(p) /\ PublishersOK(p) /\ RingKept(p)
      /\ AllAnnounced(p)
  BY DEF RingInv
<1>4. /\ list[m] = fifo[m] /\ list[m] \in Seq(Nat) /\ fifo[m] \in Seq(Nat)
  BY <1>2, <1>3 DEF RingKept, RingTypeOK
<1>5. /\ Head(list[m]) \in Nat /\ Tail(fifo[m]) \in Seq(Nat)
      /\ Len(Tail(fifo[m])) = Len(fifo[m]) - 1 /\ Len(fifo[m]) \in Nat
  BY <1>2, <1>4
<1>6. RingTypeOK(p)'
  <2>1. list' \in [L -> Seq(Nat)]
    BY <1>2, <1>3, <1>4, <1>5 DEF RingTypeOK
  <2>2. fifo' \in [L -> Seq(Nat)]
    BY <1>2, <1>3, <1>5 DEF RingTypeOK
  <2> QED
    BY <1>2, <1>3, <2>1, <2>2 DEF RingTypeOK, Indices
<1>7. consumer'.pc = "publish" /\ consumer'.lidar = m
  BY <1>1, <1>2, <1>3 DEF ThreadsTypeOK
<1>8. ThreadsTypeOK(p)'
  <2>1. consumer' \in [pc : {"publish"}, lidar : Nat \ {0}, pkg : Int]
    <3>1. consumer \in [pc : {"enter", "wait", "scan", "poll", "pop", "update", "publish",
                              "loop", "done"}, lidar : Nat \ {0}, pkg : Int]
      BY <1>3 DEF ThreadsTypeOK
    <3>2. Head(list[m]) \in Int
      BY <1>5
    <3> QED
      BY <1>2, <3>1, <3>2
  <2> QED
    BY <1>2, <1>3, <1>7, <2>1 DEF ThreadsTypeOK
<1>9. PublishersOK(p)'
  BY <1>2, <1>3 DEF PublishersOK
<1>10. RingKept(p)'
  BY <1>2, <1>3, <1>4 DEF RingKept, RingTypeOK
<1>11. AllAnnounced(p)'
  <2>1. fifo'[m] = Tail(fifo[m]) /\ \A l \in L : l # m => fifo'[l] = fifo[l]
    BY <1>2, <1>3 DEF RingTypeOK
  <2>2. ASSUME NEW l \in scanned
        PROVE  /\ Len(fifo'[l]) <= Len(fifo[l]) /\ Len(fifo'[l]) \in Nat
               /\ Len(fifo[l]) \in Nat
    <3>1. l \in L /\ fifo[l] \in Seq(Nat) /\ Len(fifo[l]) \in Nat
      BY <1>3 DEF RingTypeOK
    <3>2. Len(fifo'[m]) = Len(fifo[m]) - 1 /\ Len(fifo'[m]) \in Nat
      <4>1. Len(Tail(fifo[m])) \in Nat
        BY <1>5
      <4> QED
        BY <1>5, <2>1, <4>1
    <3>3. CASE l = m
      <4>1. Len(fifo[m]) - 1 <= Len(fifo[m])
        BY <1>5
      <4> QED
        BY <3>1, <3>2, <3>3, <4>1
    <3>4. CASE l # m
      <4>1. fifo'[l] = fifo[l]
        BY <2>1, <3>1, <3>4
      <4> QED
        BY <3>1, <4>1
    <3> QED
      BY <3>3, <3>4
  <2> QED
    BY <1>1, <1>2, <1>3, <1>7, <2>2 DEF AllAnnounced, Announced, Looked
<1> QED
  BY <1>6, <1>8, <1>9, <1>10, <1>11 DEF RingInv

(* The rest of the producer.  Its next frame and a signal take a mutex and *)
(* so make its stores visible.                                             *)
LEMMA ProducerKeeps ==
  ASSUME NEW p \in Rings, RingInv(p), Queues(p)!Producer
  PROVE  RingInv(p)'
<1> DEFINE L == RingSettings[p].lidars
<1>1. /\ RingTypeOK(p) /\ ThreadsTypeOK(p) /\ PublishersOK(p) /\ RingKept(p)
      /\ AllAnnounced(p)
  BY DEF RingInv
<1>2. /\ producer \in [pc : {"idle", "store", "write", "check", "full", "signal"}, lidar : L,
                       frame : SUBSET L]
      /\ stored \in [L -> Indices(p)] /\ wr \in [L -> Indices(p)]
  BY <1>1 DEF ThreadsTypeOK, RingTypeOK
<1>3. ASSUME NEW ls \in SUBSET L, Queues(p)!NewFrame(ls)
      PROVE  RingInv(p)'
  <2>1. /\ producer.pc = "idle" /\ producer' = [producer EXCEPT !.pc = "store", !.frame = ls]
        /\ wr' = stored /\ UNCHANGED <<rd, stored, slot, list, count, fifo, nextId>>
        /\ UNCHANGED <<sampling, consumer, publishers, exit, scanned>>
    BY <1>3 DEF Queues!NewFrame, Queues!ProducerElse
  <2>2. producer'.pc = "store"
        /\ producer' \in [pc : {"store"}, lidar : L, frame : SUBSET L]
    BY <1>2, <2>1
  <2>3. RingTypeOK(p)'
    BY <1>1, <2>1 DEF RingTypeOK, Indices
  <2>4. ThreadsTypeOK(p)'
    BY <1>1, <2>1, <2>2 DEF ThreadsTypeOK
  <2>5. PublishersOK(p)'
    BY <1>1, <2>1 DEF PublishersOK
  <2>6. RingKept(p)'
    BY <1>2, <2>1, <2>2, RingDrains
  <2>7. AllAnnounced(p)'
    BY <1>1, <2>1, <2>2 DEF AllAnnounced, Announced, Looked
  <2> QED
    BY <2>3, <2>4, <2>5, <2>6, <2>7 DEF RingInv
<1>4. CASE Queues(p)!CheckCount
  <2>1. /\ producer.pc \in {"check", "full"}
        /\ producer' = [producer EXCEPT !.pc =
             IF (producer.pc = "full" \/ ~Queues(p)!QueueIsEmpty(stored, producer.lidar))
                  /\ count <= 0
             THEN "signal" ELSE "store"]
        /\ UNCHANGED <<wr, rd, stored, slot, list>> /\ UNCHANGED <<count, fifo, nextId>>
        /\ UNCHANGED <<sampling, consumer, publishers, exit, scanned>>
    BY <1>4 DEF Queues!CheckCount, Queues!ProducerElse, Queues!queues
  <2>2. /\ producer'.frame = producer.frame /\ producer'.pc \in {"signal", "store"}
        /\ producer' \in [pc : {"signal", "store"}, lidar : L, frame : SUBSET L]
        /\ producer'.pc = "signal" => count <= 0
        /\ producer'.pc = "store" =>
             Queues(p)!QueueIsEmpty(stored, producer.lidar) \/ ~(count <= 0)
    BY <1>2, <2>1
  <2>3. RingTypeOK(p)'
    BY <1>1, <2>1 DEF RingTypeOK, Indices
  <2>4. ThreadsTypeOK(p)'
    <3>1. count \in 0 .. 1
      BY <1>1 DEF RingTypeOK
    <3>2. producer'.pc = "signal" => count' = 0
      BY <2>1, <2>2, <3>1
    <3> QED
      BY <1>1, <2>1, <2>2, <3>2 DEF ThreadsTypeOK
  <2>5. PublishersOK(p)'
    BY <1>1, <2>1 DEF PublishersOK
  <2>6. RingKept(p)'
    <3>1. QueuesRest /\ ThreadsRest
      BY <2>1, <2>2 DEF QueuesRest, ThreadsRest
    <3> QED
      BY <3>1, RingRests
  <2>7. AllAnnounced(p)'
    <3>1. count \in 0 .. 1
      BY <1>1 DEF RingTypeOK
    <3>2. Queues(p)!QueueIsEmpty(stored, producer.lidar) => Len(fifo[producer.lidar]) = 0
      <4>1. PICK m \in L : m = producer.lidar
        BY <1>2
      <4>2. CASE RingSettings[p].ring
        <5>1. Queues(p)!QueueIsEmpty(stored, m) => stored[m] = rd[m]
          BY <4>2 DEF Queues!QueueIsEmpty
        <5>2. Sub(RingSettings[p].mod, stored[m], rd[m]) = Len(fifo[m])
          BY <1>1, <4>2 DEF RingKept, Filled, Used
        <5>3. rd[m] \in Indices(p)
          BY <1>1 DEF RingTypeOK
        <5>4. Sub(RingSettings[p].mod, rd[m], rd[m]) = 0
          BY <5>3 DEF Sub, Indices
        <5> QED
          BY <4>1, <5>1, <5>2, <5>4
      <4>3. CASE ~RingSettings[p].ring
        <5>1. Queues(p)!QueueIsEmpty(stored, m) => list[m] = <<>>
          BY <4>3 DEF Queues!QueueIsEmpty
        <5>2. list[m] = fifo[m]
          BY <1>1, <4>3 DEF RingKept
        <5> QED
          BY <4>1, <5>1, <5>2
      <4> QED
        BY <4>2, <4>3
    <3>3. ASSUME NEW l \in scanned,
                 Announced(l) \/ Len(fifo[l]) <= IF RingSettings[p].ring THEN 1 ELSE 0
          PROVE  Announced(l)' \/ Len(fifo'[l]) <= IF RingSettings[p].ring THEN 1 ELSE 0
      <4>1. CASE count = 1 \/ producer'.pc = "signal"
        BY <2>1, <4>1 DEF Announced
      <4>2. CASE count = 0 /\ producer'.pc = "store" /\ producer.lidar = l
        <5>1. Len(fifo[l]) = 0
          BY <2>2, <3>2, <4>2
        <5> QED
          BY <2>1, <5>1
      <4>3. CASE count = 0 /\ producer'.pc = "store" /\ producer.lidar # l
        BY <2>1, <3>3, <4>3 DEF Announced
      <4> QED
        BY <2>2, <3>1, <4>1, <4>2, <4>3
    <3> QED
      BY <1>1, <2>1, <3>3 DEF AllAnnounced, Looked
  <2> QED
    BY <2>3, <2>4, <2>5, <2>6, <2>7 DEF RingInv
<1>5. CASE Queues(p)!Signal
  <2>1. /\ producer.pc = "signal" /\ producer' = [producer EXCEPT !.pc = "store"]
        /\ count' = count + 1 /\ wr' = stored
        /\ UNCHANGED <<rd, stored, slot, list, fifo, nextId>>
        /\ UNCHANGED <<sampling, consumer, publishers, exit, scanned>>
    BY <1>5 DEF Queues!Signal, Queues!ProducerElse, Queues!ProducerGoes
  <2>2. /\ producer'.pc = "store" /\ count' = 1
        /\ producer' \in [pc : {"store"}, lidar : L, frame : SUBSET L]
    BY <1>1, <1>2, <2>1 DEF ThreadsTypeOK
  <2>3. RingTypeOK(p)'
    BY <1>1, <2>1, <2>2 DEF RingTypeOK, Indices
  <2>4. ThreadsTypeOK(p)'
    BY <1>1, <2>1, <2>2 DEF ThreadsTypeOK
  <2>5. PublishersOK(p)'
    BY <1>1, <2>1 DEF PublishersOK
  <2>6. RingKept(p)'
    BY <1>2, <2>1, <2>2, RingDrains
  <2>7. AllAnnounced(p)'
    BY <2>2 DEF AllAnnounced, Announced
  <2> QED
    BY <2>3, <2>4, <2>5, <2>6, <2>7 DEF RingInv
<1>6. CASE Queues(p)!EndFrame
  <2>1. /\ producer.pc = "store" /\ producer' = [producer EXCEPT !.pc = "idle"]
        /\ UNCHANGED <<wr, rd, stored, slot, list>> /\ UNCHANGED <<count, fifo, nextId>>
        /\ UNCHANGED <<sampling, consumer, publishers, exit, scanned>>
    BY <1>6 DEF Queues!EndFrame, Queues!ProducerElse, Queues!ProducerGoes, Queues!queues
  <2>2. /\ producer'.frame = producer.frame /\ producer'.pc = "idle"
        /\ producer' \in [pc : {"idle"}, lidar : L, frame : SUBSET L]
    BY <1>2, <2>1
  <2>3. RingTypeOK(p)'
    BY <1>1, <2>1 DEF RingTypeOK, Indices
  <2>4. ThreadsTypeOK(p)'
    BY <1>1, <2>1, <2>2 DEF ThreadsTypeOK
  <2>5. PublishersOK(p)'
    BY <1>1, <2>1 DEF PublishersOK
  <2>6. RingKept(p)'
    <3>1. QueuesRest /\ ThreadsRest
      BY <2>1, <2>2 DEF QueuesRest, ThreadsRest
    <3> QED
      BY <3>1, RingRests
  <2>7. AllAnnounced(p)'
    BY <1>1, <2>1, <2>2 DEF AllAnnounced, Announced, Looked
  <2> QED
    BY <2>3, <2>4, <2>5, <2>6, <2>7 DEF RingInv
<1> QED
  BY <1>3, <1>4, <1>5, <1>6, BeginPushKeeps, EndPushKeeps, PushImuKeeps DEF Queues!Producer

(* The rest of the consumer: it sleeps, is woken up and looks at one lidar *)
(* after the other.                                                        *)
LEMMA EmptyMeansFew ==
  ASSUME NEW p \in Rings, RingInv(p), NEW l \in RingSettings[p].lidars,
         Queues(p)!QueueIsEmpty(wr, l)
  PROVE  Len(fifo[l]) <= IF RingSettings[p].ring THEN 1 ELSE 0
<1>1. /\ RingTypeOK(p) /\ RingKept(p)
  BY DEF RingInv
<1>2. CASE ~RingSettings[p].ring
  <2>1. list[l] = <<>> /\ list[l] = fifo[l]
    BY <1>1, <1>2 DEF Queues!QueueIsEmpty, RingKept
  <2> QED
    BY <1>2, <2>1
<1>3. CASE RingSettings[p].ring
  <2> DEFINE m == RingSettings[p].mod
  <2>1. wr[l] = rd[l] /\ Filled(p, l) /\ Buffered(p, l)
    BY <1>1, <1>3 DEF Queues!QueueIsEmpty, RingKept
  <2>2. /\ m \in Nat \ {0} /\ 1 < m /\ rd[l] \in 0 .. m - 1
    BY <1>1, SettingFacts DEF RingTypeOK, Indices
  <2>3. Sub(m, stored[l], rd[l]) = Len(fifo[l])
    BY <2>1 DEF Filled, Used
  <2>4. stored[l] = rd[l] \/ stored[l] = Pos(m, rd[l], 1)
    BY <2>1 DEF Buffered
  <2> HIDE DEF m
  <2>5. Sub(m, rd[l], rd[l]) = 0 /\ Sub(m, Pos(m, rd[l], 1), rd[l]) = 1
    BY <2>2 DEF Sub, Pos
  <2> QED
    BY <1>3, <2>3, <2>4, <2>5
<1> QED
  BY <1>2, <1>3

(* What the loops of the poll thread do to its own state.                  *)
LEMMA ConsumerMoves ==
  ASSUME NEW c, NEW P, NEW N, NEW I, c \in [pc : P, lidar : N, pkg : I], NEW q, NEW n
  PROVE  /\ [c EXCEPT !.pc = q] = [pc |-> q, lidar |-> c.lidar, pkg |-> c.pkg]
         /\ [c EXCEPT !.pc = q, !.lidar = n] = [pc |-> q, lidar |-> n, pkg |-> c.pkg]
<1>1. [c EXCEPT !.pc = q] = [pc |-> q, lidar |-> c.lidar, pkg |-> c.pkg]
  OBVIOUS
<1>2. \A d \in [pc : {q}, lidar : N, pkg : I] :
        [d EXCEPT !.lidar = n] = [pc |-> d.pc, lidar |-> n, pkg |-> d.pkg]
  OBVIOUS
<1>3. [c EXCEPT !.pc = q] \in [pc : {q}, lidar : N, pkg : I]
  OBVIOUS
<1> QED
  BY <1>1, <1>2, <1>3

LEMMA ConsumerKeeps ==
  ASSUME NEW p \in Rings, RingInv(p), Queues(p)!Consumer
  PROVE  RingInv(p)'
<1> DEFINE L == RingSettings[p].lidars
           Pcs == {"enter", "wait", "scan", "poll", "pop", "update", "publish", "loop", "done"}
<1>1. /\ RingTypeOK(p) /\ ThreadsTypeOK(p) /\ PublishersOK(p) /\ RingKept(p)
      /\ AllAnnounced(p)
  BY DEF RingInv
<1>2. /\ consumer \in [pc : Pcs, lidar : Nat \ {0}, pkg : Int]
      /\ count \in 0 .. 1 /\ scanned \subseteq L /\ sampling \subseteq L
      /\ exit \in {"no", "requested", "signalled", "joined"}
  BY <1>1 DEF ThreadsTypeOK, RingTypeOK
<1>c. /\ \A q : [consumer EXCEPT !.pc = q]
                 = [pc |-> q, lidar |-> consumer.lidar, pkg |-> consumer.pkg]
      /\ \A q, n : [consumer EXCEPT !.pc = q, !.lidar = n]
                     = [pc |-> q, lidar |-> n, pkg |-> consumer.pkg]
  BY <1>2, ConsumerMoves
<1>n. consumer.lidar \in Nat \ {0} /\ consumer.pkg \in Int
  BY <1>2
(* What a step needs that leaves the queues as they are.                   *)
<1>3. ASSUME UNCHANGED <<wr, rd, stored, slot, list, fifo>>,
             UNCHANGED <<sampling, producer, exit, nextId>>,
             count' \in 0 .. 1, count' <= count, scanned' \subseteq L,
             consumer' \in [pc : Pcs \ {"update"}, lidar : Nat \ {0}, pkg : Int],
             consumer'.pc \in {"poll", "pop", "publish"} => consumer'.lidar \in L,
             PublishersOK(p)', AllAnnounced(p)'
      PROVE  RingInv(p)'
  <2>1. RingTypeOK(p)'
    BY <1>1, <1>3 DEF RingTypeOK, Indices
  <2>2. ThreadsTypeOK(p)'
    <3>1. consumer' \in [pc : Pcs, lidar : Nat \ {0}, pkg : Int] /\ consumer'.pc # "update"
      BY <1>3
    <3>2. count' <= count /\ count' \in 0 .. 1 /\ count \in 0 .. 1
      BY <1>2, <1>3
    <3>3. producer'.pc = "signal" => count' = 0
      BY <1>1, <1>3, <3>2 DEF ThreadsTypeOK
    <3> QED
      BY <1>1, <1>3, <3>1, <3>3 DEF ThreadsTypeOK
  <2>3. RingKept(p)'
    <3>1. consumer'.pc # "update" /\ producer' = producer
      BY <1>3
    <3>2. QueuesRest /\ ThreadsRest
      BY <1>3, <3>1 DEF QueuesRest, ThreadsRest
    <3> QED
      BY <3>2, RingRests
  <2> QED
    BY <1>3, <2>1, <2>2, <2>3 DEF RingInv
<1>4. CASE Queues(p)!Enter
  <2>1. /\ consumer.pc = "enter"
        /\ consumer' = [consumer EXCEPT !.pc = IF exit # "no" THEN "loop" ELSE "wait"]
        /\ UNCHANGED <<wr, rd, stored, slot, list>>
        /\ UNCHANGED <<count, publishers, fifo, scanned>>
        /\ UNCHANGED <<sampling, producer, exit, nextId>>
    BY <1>4 DEF Queues!Enter, Queues!Goes, Queues!ConsumerElse, Queues!queues
  <2>2. /\ consumer'.pc = IF exit # "no" THEN "loop" ELSE "wait"
        /\ consumer' \in [pc : {"loop", "wait"}, lidar : Nat \ {0}, pkg : Int]
    BY <1>2, <2>1
  <2>3. AllAnnounced(p)'
    BY <1>1, <2>1, <2>2 DEF AllAnnounced, Announced, Looked
  <2> QED
    BY <1>1, <1>2, <1>3, <2>1, <2>2, <2>3 DEF PublishersOK
<1>5. CASE Queues(p)!Wait
  <2>1. /\ consumer.pc = "wait" /\ count > 0 /\ count' = count - 1
        /\ consumer' = [consumer EXCEPT !.pc = "scan", !.lidar = 1]
        /\ UNCHANGED <<wr, rd, stored, slot, list>> /\ UNCHANGED <<publishers, fifo, scanned>>
        /\ UNCHANGED <<sampling, producer, exit, nextId>>
    BY <1>5 DEF Queues!Wait, Queues!GoesTo, Queues!ConsumerElse, Queues!queues
  <2>2. /\ consumer'.pc = "scan" /\ consumer'.lidar = 1
        /\ consumer' \in [pc : {"scan"}, lidar : Nat \ {0}, pkg : Int]
    <3>1. consumer' = [pc |-> "scan", lidar |-> 1, pkg |-> consumer.pkg]
      BY <1>c, <2>1
    <3> QED
      BY <1>n, <3>1
  <2>3. AllAnnounced(p)'
    <3>1. \A l \in scanned : ~ (l < 1)
      BY <1>2, SettingFacts
    <3> QED
      BY <2>1, <2>2, <3>1 DEF AllAnnounced, Announced, Looked
  <2> QED
    BY <1>1, <1>2, <1>3, <2>1, <2>2, <2>3 DEF PublishersOK
<1>6. CASE Queues(p)!Scan
  <2> DEFINE m == consumer.lidar
  <2>1. /\ consumer.pc = "scan"
        /\ \/ m \notin L /\ consumer' = [consumer EXCEPT !.pc = "loop"] /\ UNCHANGED scanned
           \/ /\ m \in L /\ m \in sampling /\ scanned' = scanned \union {m}
              /\ consumer' = [consumer EXCEPT !.pc = "poll"]
           \/ /\ m \in L /\ m \notin sampling /\ scanned' = scanned \ {m}
              /\ consumer' = [consumer EXCEPT !.pc = "scan", !.lidar = m + 1]
           \/ /\ m \in L /\ m \in sampling /\ scanned' = scanned \union {m}
              /\ RingSettings[p].ring /\ slot[m] = <<>>
              /\ consumer' = [consumer EXCEPT !.pc = "scan", !.lidar = m + 1]
        /\ UNCHANGED <<wr, rd, stored, slot, list>> /\ UNCHANGED <<count, publishers, fifo>>
        /\ UNCHANGED <<sampling, producer, exit, nextId>>
    BY <1>6 DEF Queues!Scan, Queues!Goes, Queues!GoesTo, Queues!ConsumerElse, Queues!queues
  <2>2. /\ m \in Nat \ {0} /\ scanned' \subseteq L
        /\ \A l \in scanned' : l \in Nat
        /\ m \notin L => \A l \in scanned : l < m
    BY <1>2, <2>1, SettingFacts
  <2>3. /\ consumer' \in [pc : {"loop", "poll", "scan"}, lidar : Nat \ {0}, pkg : Int]
        /\ consumer'.pc = "poll" => consumer'.lidar = m /\ m \in L
        /\ consumer'.pc = "scan" =>
             m \in L /\ consumer'.lidar = m + 1
             /\ (m \in scanned' => RingSettings[p].ring /\ slot[m] = <<>>)
        /\ consumer'.pc = "loop" => m \notin L /\ UNCHANGED scanned
        /\ \A l \in scanned' : l = m \/ l \in scanned
    <3>1. CASE m \notin L /\ consumer' = [consumer EXCEPT !.pc = "loop"] /\ UNCHANGED scanned
      <4>1. consumer' = [pc |-> "loop", lidar |-> m, pkg |-> consumer.pkg]
        BY <1>c, <3>1
      <4> QED
        BY <1>n, <3>1, <4>1
    <3>2. CASE /\ m \in L /\ scanned' = scanned \union {m}
               /\ consumer' = [consumer EXCEPT !.pc = "poll"]
      <4>1. consumer' = [pc |-> "poll", lidar |-> m, pkg |-> consumer.pkg]
        BY <1>c, <3>2
      <4> QED
        BY <1>n, <3>2, <4>1
    <3>3. CASE /\ m \in L /\ scanned' \subseteq scanned \union {m}
               /\ m \in scanned' => RingSettings[p].ring /\ slot[m] = <<>>
               /\ consumer' = [consumer EXCEPT !.pc = "scan", !.lidar = m + 1]
      <4>1. consumer' = [pc |-> "scan", lidar |-> m + 1, pkg |-> consumer.pkg]
        BY <1>c, <3>3
      <4>2. m + 1 \in Nat \ {0}
        BY <1>n
      <4> QED
        BY <1>n, <3>3, <4>1, <4>2
    <3> QED
      BY <2>1, <3>1, <3>2, <3>3
  <2>4. AllAnnounced(p)'
    <3> SUFFICES ASSUME NEW l \in scanned', Looked(l)', exit' = "no" \/ consumer'.pc = "wait"
                 PROVE  Announced(l)' \/ Len(fifo'[l]) <= IF RingSettings[p].ring THEN 1 ELSE 0
      BY DEF AllAnnounced
    <3>1. exit = "no"
      BY <2>1, <2>3
    <3>2. CASE Looked(l) /\ l \in scanned
      BY <1>1, <2>1, <3>1, <3>2 DEF AllAnnounced, Announced
    <3>3. CASE ~ (Looked(l) /\ l \in scanned)
      <4>1. l = m /\ consumer'.pc = "scan"
        <5>1. l \in scanned => ~ (l < m)
          BY <2>1, <3>3 DEF Looked
        <5>2. consumer'.pc # "loop"
          BY <2>2, <2>3, <5>1
        <5>3. consumer'.pc # "poll"
          <6>1. CASE consumer'.pc = "poll"
            <7>1. l < m
              BY <2>3, <6>1 DEF Looked
            <7> QED
              BY <2>2, <2>3, <5>1, <7>1
          <6> QED
            BY <6>1
        <5>4. consumer'.pc = "scan" /\ l < m + 1
          BY <2>3, <5>2, <5>3 DEF Looked
        <5> QED
          BY <2>2, <2>3, <5>1, <5>4
      <4>2. m \in L /\ RingSettings[p].ring /\ slot[m] = <<>>
        BY <2>3, <4>1
      <4>3. Len(fifo[m]) = 0
        <5>1. Contents(p, m) /\ fifo[m] \in Seq(Nat)
          BY <1>1, <4>2 DEF RingKept, RingTypeOK
        <5>2. Len(fifo[m]) \in Nat
          BY <5>1
        <5>3. \A k \in 1 .. Len(fifo[m]) : FALSE
          BY <4>2, <5>1 DEF Contents
        <5> HIDE DEF m
        <5> QED
          BY <5>2, <5>3
      <4> QED
        BY <2>1, <4>1, <4>2, <4>3
    <3> QED
      BY <3>2, <3>3
  <2> QED
    BY <1>1, <1>2, <1>3, <2>1, <2>2, <2>3, <2>4 DEF PublishersOK
<1>7. CASE Queues(p)!Poll
  <2> DEFINE m == consumer.lidar
  <2>1. /\ consumer.pc = "poll" /\ m \in L
        /\ \/ /\ exit # "no" \/ Queues(p)!QueueIsEmpty(wr, m)
              /\ consumer' = [consumer EXCEPT !.pc = "scan", !.lidar = m + 1]
           \/ \E q \in {"poll", "pop"} : consumer' = [consumer EXCEPT !.pc = q]
        /\ UNCHANGED <<wr, rd, stored, slot, list>>
        /\ UNCHANGED <<count, publishers, fifo, scanned>>
        /\ UNCHANGED <<sampling, producer, exit, nextId>>
    BY <1>1, <1>7
    DEF Queues!Poll, Queues!Goes, Queues!GoesTo, Queues!ConsumerElse, Queues!queues,
        ThreadsTypeOK
  <2>2. /\ consumer' \in [pc : {"scan", "poll", "pop"}, lidar : Nat \ {0}, pkg : Int]
        /\ consumer'.pc \in {"poll", "pop"} => consumer'.lidar = m
        /\ consumer'.pc = "scan" =>
             /\ consumer'.lidar = m + 1
             /\ exit # "no" \/ Queues(p)!QueueIsEmpty(wr, m)
    <3>1. CASE /\ exit # "no" \/ Queues(p)!QueueIsEmpty(wr, m)
               /\ consumer' = [consumer EXCEPT !.pc = "scan", !.lidar = m + 1]
      <4>1. consumer' = [pc |-> "scan", lidar |-> m + 1, pkg |-> consumer.pkg]
        BY <1>c, <3>1
      <4>2. m + 1 \in Nat \ {0}
        BY <1>n
      <4> QED
        BY <1>n, <3>1, <4>1, <4>2
    <3>2. ASSUME NEW q \in {"poll", "pop"}, consumer' = [consumer EXCEPT !.pc = q]
          PROVE  /\ consumer' \in [pc : {"poll", "pop"}, lidar : Nat \ {0}, pkg : Int]
                 /\ consumer'.pc # "scan" /\ consumer'.lidar = m
      <4>1. consumer' = [pc |-> q, lidar |-> m, pkg |-> consumer.pkg]
        BY <1>c, <3>2
      <4> QED
        BY <1>n, <4>1
    <3> QED
      BY <2>1, <3>1, <3>2
  <2>3. AllAnnounced(p)'
    <3> SUFFICES ASSUME NEW l \in scanned, Looked(l)', exit' = "no" \/ consumer'.pc = "wait"
                 PROVE  Announced(l)' \/ Len(fifo'[l]) <= IF RingSettings[p].ring THEN 1 ELSE 0
      BY <2>1 DEF AllAnnounced
    <3>1. exit = "no" /\ l \in Nat /\ m \in Nat
      BY <1>2, <2>1, <2>2, SettingFacts
    <3>2. l < m \/ (l = m /\ consumer'.pc = "scan")
      <4>1. l < consumer'.lidar
        BY <2>2 DEF Looked
      <4> QED
        BY <2>2, <3>1, <4>1
    <3>3. CASE l < m
      BY <1>1, <2>1, <3>1, <3>3 DEF AllAnnounced, Announced, Looked
    <3>4. CASE l = m /\ consumer'.pc = "scan"
      BY <2>1, <2>2, <3>1, <3>4, EmptyMeansFew
    <3> QED
      BY <3>2, <3>3, <3>4
  <2> QED
    BY <1>1, <1>2, <1>3, <2>1, <2>2, <2>3 DEF PublishersOK
<1>8. CASE Queues(p)!PublishPoints \/ Queues(p)!PublishImu
  <2>1. /\ consumer.pc = "publish"
        /\ publishers' = publishers
             \/ publishers' = publishers \union {Queues(p)!Publisher(consumer.lidar)}
        /\ \E q \in {"pop", "poll"} : consumer' = [consumer EXCEPT !.pc = q]
        /\ UNCHANGED <<wr, rd, stored, slot, list>> /\ UNCHANGED <<count, fifo, scanned>>
        /\ UNCHANGED <<sampling, producer, exit, nextId>>
    BY <1>8
    DEF Queues!PublishPoints, Queues!PublishImu, Queues!Goes, Queues!ConsumerElse,
        Queues!queues
  <2>2. /\ consumer' \in [pc : {"pop", "poll"}, lidar : Nat \ {0}, pkg : Int]
        /\ consumer'.lidar = consumer.lidar /\ consumer.lidar \in L
    BY <1>1, <1>2, <2>1 DEF ThreadsTypeOK
  <2>3. PublishersOK(p)'
    <3>1. publishers \subseteq {Queues(p)!Publisher(l) : l \in L}
      BY <1>1 DEF PublishersOK
    <3>2. Queues(p)!Publisher(consumer.lidar) \in {Queues(p)!Publisher(l) : l \in L}
      BY <2>2
    <3>3. publishers' \subseteq {Queues(p)!Publisher(l) : l \in L}
      BY <2>1, <3>1, <3>2
    <3> QED
      BY <3>3 DEF PublishersOK, Queues!Publisher, Queues!MessageType
  <2>4. AllAnnounced(p)'
    BY <1>1, <2>1, <2>2 DEF AllAnnounced, Announced, Looked
  <2> QED
    BY <1>1, <1>2, <1>3, <2>1, <2>2, <2>3, <2>4
<1>9. CASE Queues(p)!Loop
  <2>1. /\ consumer.pc = "loop"
        /\ \E q \in {"enter", "done"} : consumer' = [consumer EXCEPT !.pc = q]
        /\ UNCHANGED <<wr, rd, stored, slot, list>>
        /\ UNCHANGED <<count, publishers, fifo, scanned>>
        /\ UNCHANGED <<sampling, producer, exit, nextId>>
    BY <1>9 DEF Queues!Loop, Queues!Goes, Queues!ConsumerElse, Queues!queues
  <2>2. consumer' \in [pc : {"enter", "done"}, lidar : Nat \ {0}, pkg : Int]
    BY <1>2, <2>1
  <2>3. AllAnnounced(p)'
    BY <1>1, <2>1, <2>2 DEF AllAnnounced, Announced, Looked
  <2> QED
    BY <1>1, <1>2, <1>3, <2>1, <2>2, <2>3 DEF PublishersOK
<1> QED
  BY <1>4, <1>5, <1>6, <1>7, <1>8, <1>9, PrePopKeeps, PopUpdateKeeps, PopImuKeeps
  DEF Queues!Consumer

(* Steps of the store buffers, the devices and the destructor.             *)
LEMMA OthersKeep ==
  ASSUME NEW p \in Rings, RingInv(p),
         \/ Queues(p)!Destructor
         \/ \E l \in RingSettings[p].lidars :
              Queues(p)!Drain(l) \/ Queues(p)!StartSampling(l)
  PROVE  RingInv(p)'
<1>1. /\ RingTypeOK(p) /\ ThreadsTypeOK(p) /\ PublishersOK(p) /\ RingKept(p)
      /\ AllAnnounced(p)
  BY DEF RingInv
(* What a step needs that moves no thread.                                 *)
<1>2. ASSUME UNCHANGED <<rd, stored, slot, list, fifo, nextId, count>>,
             UNCHANGED <<producer, consumer, publishers, scanned>>,
             wr' \in [RingSettings[p].lidars -> Indices(p)],
             sampling' \subseteq RingSettings[p].lidars,
             exit' \in {"no", "requested", "signalled", "joined"},
             exit' = "no" => exit = "no", exit = "no" \/ consumer.pc = "wait" \/ exit' # "no",
             RingKept(p)'
      PROVE  RingInv(p)'
  <2>1. RingTypeOK(p)'
    BY <1>1, <1>2 DEF RingTypeOK, Indices
  <2>2. ThreadsTypeOK(p)'
    BY <1>1, <1>2 DEF ThreadsTypeOK
  <2>3. PublishersOK(p)'
    BY <1>1, <1>2 DEF PublishersOK
  <2>4. AllAnnounced(p)'
    BY <1>1, <1>2 DEF AllAnnounced, Looked, Announced
  <2> QED
    BY <1>2, <2>1, <2>2, <2>3, <2>4 DEF RingInv
<1>3. CASE Queues(p)!Destructor
  <2>1. /\ UNCHANGED <<wr, rd, stored, slot, list, fifo, nextId, count, sampling>>
        /\ UNCHANGED <<producer, consumer, publishers, scanned>>
        /\ exit' \in {"requested", "signalled", "joined"}
    BY <1>3 DEF Queues!Destructor, Queues!queues, Queues!history
  <2>2. RingKept(p)'
    <3>1. QueuesRest /\ ThreadsRest
      BY <2>1 DEF QueuesRest, ThreadsRest
    <3> QED
      BY <3>1, RingRests
  <2>3. wr' \in [RingSettings[p].lidars -> Indices(p)]
        /\ sampling' \subseteq RingSettings[p].lidars
    BY <1>1, <2>1 DEF RingTypeOK
  <2> QED
    BY <1>2, <2>1, <2>2, <2>3
<1>4. ASSUME NEW l \in RingSettings[p].lidars, Queues(p)!Drain(l)
      PROVE  RingInv(p)'
  <2>1. /\ wr' = [wr EXCEPT ![l] = stored[l]]
        /\ UNCHANGED <<rd, stored, slot, list, fifo, nextId, count, sampling, exit>>
        /\ UNCHANGED <<producer, consumer, publishers, scanned>>
    BY <1>4 DEF Queues!Drain, Queues!ProducerElse
  <2>2. /\ wr' \in [RingSettings[p].lidars -> Indices(p)]
        /\ \A k \in RingSettings[p].lidars : wr'[k] = wr[k] \/ wr'[k] = stored[k]
    BY <1>1, <2>1 DEF RingTypeOK
  <2>3. RingKept(p)'
    BY <2>1, <2>2, RingDrains
  <2>4. /\ exit' \in {"no", "requested", "signalled", "joined"}
        /\ sampling' \subseteq RingSettings[p].lidars
    BY <1>1, <2>1 DEF RingTypeOK
  <2> QED
    BY <1>2, <2>1, <2>2, <2>3, <2>4
<1>5. ASSUME NEW l \in RingSettings[p].lidars, Queues(p)!StartSampling(l)
      PROVE  RingInv(p)'
  <2>1. /\ sampling' = sampling \union {l}
        /\ UNCHANGED <<wr, rd, stored, slot, list, fifo, nextId, count, exit>>
        /\ UNCHANGED <<producer, consumer, publishers, scanned>>
    BY <1>5 DEF Queues!StartSampling, Queues!queues, Queues!history
  <2>2. RingKept(p)'
    <3>1. QueuesRest /\ ThreadsRest
      BY <2>1 DEF QueuesRest, ThreadsRest
    <3> QED
      BY <3>1, RingRests
  <2>3. /\ exit' \in {"no", "requested", "signalled", "joined"}
        /\ sampling' \subseteq RingSettings[p].lidars
        /\ wr' \in [RingSettings[p].lidars -> Indices(p)]
    BY <1>1, <2>1 DEF RingTypeOK
  <2> QED
    BY <1>2, <2>1, <2>2, <2>3
<1> QED
  BY <1>3, <1>4, <1>5

LEMMA RingStutters ==
  ASSUME NEW p \in Rings, RingInv(p), UNCHANGED queueVars
  PROVE  RingInv(p)'
<1>1. /\ UNCHANGED <<wr, rd, stored, slot, list, fifo, nextId, count, sampling, exit>>
      /\ UNCHANGED <<producer, consumer, publishers, scanned>>
  BY DEF queueVars
<1>2. RingKept(p)'
  <2>1. QueuesRest /\ ThreadsRest
    BY <1>1 DEF QueuesRest, ThreadsRest
  <2> QED
    BY <2>1, RingRests
<1>3. RingTypeOK(p)'
  BY <1>1 DEF RingInv, RingTypeOK, Indices
<1>4. ThreadsTypeOK(p)'
  BY <1>1 DEF RingInv, ThreadsTypeOK
<1>5. PublishersOK(p)'
  BY <1>1 DEF RingInv, PublishersOK
<1>6. AllAnnounced(p)'
  BY <1>1 DEF RingInv, AllAnnounced, Looked, Announced
<1> QED
  BY <1>2, <1>3, <1>4, <1>5, <1>6 DEF RingInv

LEMMA RingKeeps ==
  ASSUME NEW p \in Rings, RingInv(p), Queues(p)!Next
  PROVE  RingInv(p)'
BY ProducerKeeps, ConsumerKeeps, OthersKeep DEF Queues!Next

LEMMA RingStarts ==
  ASSUME NEW p \in Rings, Queues(p)!Init
  PROVE  RingInv(p)
<1> DEFINE L == RingSettings[p].lidars
<1>1. /\ wr = [l \in L |-> 0] /\ rd = [l \in L |-> 0] /\ stored = [l \in L |-> 0]
      /\ slot = [l \in L |-> <<>>] /\ list = [l \in L |-> <<>>]
      /\ fifo = [l \in L |-> <<>>] /\ nextId = [l \in L |-> 0]
      /\ count = 0 /\ sampling = {} /\ scanned = {} /\ publishers = {} /\ exit = "no"
      /\ producer = [pc |-> "idle", lidar |-> 1, frame |-> {}]
      /\ consumer = [pc |-> "enter", lidar |-> 1, pkg |-> 0]
  BY DEF Queues!Init
<1>2. 0 \in Indices(p) /\ 1 \in L
  BY SettingFacts DEF Indices
<1>3. RingTypeOK(p)
  BY <1>1, <1>2 DEF RingTypeOK
<1>4. ThreadsTypeOK(p)
  BY <1>1, <1>2 DEF ThreadsTypeOK
<1>5. PublishersOK(p)
  BY <1>1 DEF PublishersOK
<1>6. RingKept(p)
  <2> SUFFICES ASSUME NEW l \in L
               PROVE  /\ list[l] = fifo[l] /\ Filled(p, l) /\ Seen(p, l) /\ Buffered(p, l)
                      /\ Contents(p, l) /\ Copied(l)
    BY DEF RingKept
  <2>1. /\ wr[l] = 0 /\ rd[l] = 0 /\ stored[l] = 0 /\ list[l] = <<>> /\ fifo[l] = <<>>
        /\ producer.pc = "idle" /\ consumer.pc = "enter"
    BY <1>1
  <2>2. Used(p, stored, l) = 0 /\ Used(p, wr, l) = 0
    BY <2>1 DEF Used, Sub
  <2>3. Len(fifo[l]) = 0 /\ Queues(p)!Size \in Nat
    BY <2>1, SettingFacts
  <2>4. Filled(p, l) /\ Seen(p, l)
    BY <2>1, <2>2, <2>3 DEF Filled, Seen
  <2> QED
    BY <2>1, <2>3, <2>4 DEF Buffered, Contents, Copied
<1>7. AllAnnounced(p)
  BY <1>1 DEF AllAnnounced
<1> QED
  BY <1>3, <1>4, <1>5, <1>6, <1>7 DEF RingInv

(* One publisher for all lidars, or one for each.                          *)
LEMMA FewPublishers ==
  ASSUME NEW p \in Rings, PublishersOK(p)
  PROVE  Queues(p)!Cardinality(publishers)
           <= IF RingSettings[p].multi THEN Queues(p)!Cardinality(RingSettings[p].lidars) ELSE 1
<1> DEFINE L == RingSettings[p].lidars
           All == {Queues(p)!Publisher(l) : l \in L}
           NameOf == [l \in L |-> Queues(p)!Publisher(l)]
<1>1. \A S : Queues(p)!Cardinality(S) = Cardinality(S)
  BY DEF Queues!Cardinality, Cardinality
<1>2. IsFiniteSet(L)
  BY SettingFacts
<1>3. IsFiniteSet(All) /\ Cardinality(All) <= Cardinality(L) /\ Cardinality(L) \in Nat
  <2>1. NameOf \in Surjection(L, All)
    BY DEF Surjection
  <2> QED
    BY <1>2, <2>1, FS_Surjection, FS_CardinalityType
<1>4. IsFiniteSet(publishers) /\ Cardinality(publishers) <= Cardinality(All)
  BY <1>3, FS_Subset DEF PublishersOK
<1>5. Cardinality(publishers) \in Nat /\ Cardinality(All) \in Nat
  BY <1>3, <1>4, FS_CardinalityType
<1>6. CASE ~RingSettings[p].multi
  <2> DEFINE only == Queues(p)!Publisher(1)
  <2>1. \A l \in L : Queues(p)!Publisher(l) = only
    BY <1>6 DEF Queues!Publisher
  <2>2. publishers \subseteq {only}
    BY <2>1 DEF PublishersOK
  <2>3. Cardinality({only}) = 1 /\ IsFiniteSet({only})
    BY FS_Singleton
  <2>4. Cardinality(publishers) <= 1
    BY <2>2, <2>3, FS_Subset
  <2> QED
    BY <1>1, <1>6, <2>4
<1>7. CASE RingSettings[p].multi
  <2>1. Cardinality(publishers) <= Cardinality(L)
    BY <1>3, <1>4, <1>5
  <2> QED
    BY <1>1, <1>7, <2>1
<1> QED
  BY <1>6, <1>7

LEMMA RingIsSound ==
  ASSUME NEW p \in Rings, RingInv(p)
  PROVE  Queues(p)!TypeOK /\ Queues(p)!PoppedIntact /\ Queues(p)!NothingForgotten
<1>1. /\ RingTypeOK(p) /\ ThreadsTypeOK(p) /\ PublishersOK(p) /\ RingKept(p)
      /\ AllAnnounced(p)
  BY DEF RingInv
<1>2. Queues(p)!TypeOK
  <2>1. /\ \A l \in RingSettings[p].lidars :
             {wr[l], rd[l], stored[l]} \subseteq 0 .. RingSettings[p].mod - 1
        /\ count \in 0 .. 1 /\ sampling \subseteq RingSettings[p].lidars
    BY <1>1 DEF RingTypeOK, Indices
  <2> QED
    BY <1>1, <2>1, FewPublishers DEF Queues!TypeOK
<1>3. Queues(p)!PoppedIntact
  <2> SUFFICES ASSUME NEW l \in RingSettings[p].lidars
               PROVE  /\ RingSettings[p].ring =>
                           /\ Queues(p)!UsedSize(stored, l) = Len(fifo[l])
                           /\ Len(fifo[l]) <= Queues(p)!Size
                      /\ RingSettings[p].ring /\ consumer.pc = "update" /\ consumer.lidar = l =>
                           consumer.pkg = Head(fifo[l])
                      /\ ~RingSettings[p].ring => list[l] = fifo[l]
    BY DEF Queues!PoppedIntact
  <2>1. CASE RingSettings[p].ring
    <3>1. Filled(p, l) /\ Copied(l)
      BY <1>1, <2>1 DEF RingKept
    <3>2. Queues(p)!UsedSize(stored, l) = Used(p, stored, l)
      BY <1>1, RingOperators
    <3> QED
      BY <2>1, <3>1, <3>2 DEF Filled, Copied
  <2>2. CASE ~RingSettings[p].ring
    BY <1>1, <2>2 DEF RingKept
  <2> QED
    BY <2>1, <2>2
<1>4. Queues(p)!NothingForgotten
  <2>1. ASSUME consumer.pc = "wait", count = 0, producer.pc = "idle", NEW l \in scanned
        PROVE  Len(fifo[l]) <= IF RingSettings[p].ring THEN 1 ELSE 0
    BY <1>1, <2>1 DEF AllAnnounced, Looked, Announced
  <2> QED
    BY <2>1 DEF Queues!NothingForgotten
<1> QED
  BY <1>2, <1>3, <1>4

(* Of the parts only the one that moves matters.                           *)
QueuesInv == \A p \in Rings : part = p => RingInv(p)

LEMMA QueuesStart == DriversInit => QueuesInv
<1> SUFFICES ASSUME DriversInit, NEW q \in Rings, part = q
             PROVE  RingInv(q)
  BY DEF QueuesInv
<1>1. PICK p \in Rings : p = OneOf(Rings) /\ Queues(p)!Init
  BY DEF DriversInit
<1>2. p = q
  BY <1>1 DEF OneOf
<1> QED
  BY <1>1, <1>2, RingStarts

LEMMA QueuesStep == QueuesInv /\ [DriversNext]_allVars => QueuesInv'
<1> SUFFICES ASSUME QueuesInv, [DriversNext]_allVars, NEW p \in Rings, part' = p
             PROVE  RingInv(p)'
  BY DEF QueuesInv
<1>1. CASE \E q \in Rings : part = q /\ Queues(q)!Next /\ Only("queues")
  <2>1. PICK q \in Rings : part = q /\ Queues(q)!Next /\ Only("queues")
    BY <1>1
  <2>2. q = p
    BY <2>1 DEF Only
  <2> QED
    BY <2>1, <2>2, RingKeeps DEF QueuesInv
<1>2. CASE \/ Rests \/ UNCHANGED allVars
           \/ \E g \in Groups \ {"queues"} : Only(g)
  <2>1. UNCHANGED <<part, queueVars>>
    <3>1. CASE Rests \/ UNCHANGED allVars
      BY <3>1 DEF Rests, allVars
    <3>2. ASSUME NEW g \in Groups \ {"queues"}, Only(g)
          PROVE  UNCHANGED <<part, queueVars>>
      <4>1. UNCHANGED part /\ Still("queues")
        BY <3>2 DEF Only, Groups
      <4> QED
        BY <4>1 DEF Still
    <3> QED
      BY <1>2, <3>1, <3>2
  <2> QED
    BY <2>1, RingStutters DEF QueuesInv
<1> QED
  BY <1>1, <1>2 DEF DriversNext, Groups

(* ldq.cpp, Lds: for any settings of the rings and lists (any number of    *)
(* lidars, size, width of the indices, pace), the packet taken out of a    *)
(* ring is the oldest one accepted, whole, and a poll thread that sleeps   *)
(* has left nothing it looked for but the newest packet of each lidar, in  *)
(* the producer's store buffer; the semaphore never counts beyond one.     *)
THEOREM QueuesAreSound == DriversSpec => []QueuesSound
<1>1. QueuesInv => QueuesSound
  BY RingIsSound DEF QueuesInv, QueuesSound
<1> QED
  BY <1>1, QueuesStart, QueuesStep, PTL DEF DriversSpec

-----------------------------------------------------------------------------
(* Session.  The entries of a handle in the file, those at hand already,   *)
(* and the last of these.                                                  *)
Listed(h) == {m \in DOMAIN File.lidars : File.lidars[m].ip /\ File.lidars[m].handle = h}
Past(h) == {m \in Listed(h) : m < entry}
LastPast(h, m) == m \in Past(h) /\ \A k \in Past(h) : k <= m

Device ==
  [handle : Devices \union {"none"}, config : [Session!Settings -> Int],
   set_bits : SUBSET Session!Settings, state : {"Off", "Sampling"}]

SessionTyped ==
  /\ phase \in {"start", "entries", "running", "failed"}
  /\ entry \in Nat \ {0} /\ entry <= Len(File.lidars) + 1
  /\ map_index \in [Devices -> 0 .. MaxSourceLidar]
  /\ lidars \in [Session!Index -> Device]
  /\ commands \in [Devices -> [Session!Commands -> Nat]]
  /\ set \in [Devices -> [Session!Settings -> Int]]
  /\ acked \in [Devices -> SUBSET Session!Settings]
  /\ infos \in [Devices -> 0 .. MaxInfos]
  /\ \A h \in Devices, c \in Session!Commands : commands[h][c] <= infos[h]

(* Nobody shares an index, and an index that nobody has was never used.    *)
IndexOwned ==
  /\ \A g, h \in Devices : g # h /\ map_index[g] # 0 => map_index[g] # map_index[h]
  /\ \A i \in Session!Index : (\A h \in Devices : map_index[h] # i) => lidars[i].state = "Off"

(* Before the callback is installed only the file has been at work.        *)
BeforeRunning ==
  /\ phase = "entries" => Session!HasLivoxLidar
  /\ phase = "running" /\ Session!HasLivoxLidar => entry = Len(File.lidars) + 1
  /\ phase \in {"start", "failed"} \/ ~Session!HasLivoxLidar => \A h \in Devices : map_index[h] = 0
  /\ phase # "running" =>
       /\ \A h \in Devices : infos[h] = 0 /\ (map_index[h] # 0 => Past(h) # {})
       /\ \A i \in Session!Index : lidars[i].state = "Off"

(* The slot of a handle holds its last entry so far; a handle of the file  *)
(* has no slot only if there is none left.                                 *)
SlotConfigured ==
  /\ \A h \in Devices : \A m \in DOMAIN File.lidars : LastPast(h, m) /\ map_index[h] # 0 =>
       /\ lidars[map_index[h]].handle = h
       /\ lidars[map_index[h]].config = Session!ParseEntry(File.lidars[m])
  /\ \A h \in Devices : Past(h) # {} /\ map_index[h] = 0 =>
       Session!Index \subseteq {map_index[d] : d \in Devices}

(* A setting given is acknowledged or still to be, as long as the answer   *)
(* to one of them may come; a device that samples misses none.             *)
SlotAcknowledged ==
  \A h \in Devices :
    IF map_index[h] = 0 THEN \A s \in Session!Settings : commands[h][s] = 0
    ELSE LET d == lidars[map_index[h]] IN
         /\ (\E s \in Session!Settings : commands[h][s] > 0) =>
              Session!Given(d.config) \subseteq d.set_bits \union acked[h]
         /\ d.state = "Sampling" => Session!Given(d.config) \subseteq acked[h]

(* What was sent is what the slot holds.                                   *)
SlotSent ==
  \A h \in Devices, s \in Session!Settings : set[h][s] # Session!Absent =>
    /\ map_index[h] # 0 /\ phase = "running"
    /\ s \in Session!Given(lidars[map_index[h]].config)
    /\ set[h][s] = lidars[map_index[h]].config[s]

SessionInv ==
  /\ SessionTyped /\ IndexOwned /\ BeforeRunning
  /\ SlotConfigured /\ SlotAcknowledged /\ SlotSent
SessionKept == part = "session" => SessionInv

LEMMA SessionFacts ==
  /\ MaxSourceLidar \in Nat /\ MaxInfos \in Nat /\ MaxFailures \in Nat
  /\ Len(File.lidars) \in Nat /\ DOMAIN File.lidars = 1 .. Len(File.lidars)
  /\ \A m \in DOMAIN File.lidars : File.lidars[m] \in Session!Entry
BY DevicesAssumption DEF Session!SessionAssumption

(* A set of numbers below a bound has a largest member.                    *)
LEMMA LargestMember ==
  ASSUME NEW bound \in Nat, NEW T \in SUBSET (0 .. bound), T # {}
  PROVE  \E n \in T : \A m \in T : m <= n
<1> DEFINE Mirror == {bound - n : n \in T}
           Less == OpToRel(<, Nat)
<1>1. Mirror \in SUBSET Nat /\ Mirror # {}
  <2>1. \A n \in T : bound - n \in Nat
    OBVIOUS
  <2>2. PICK n \in T : TRUE
    OBVIOUS
  <2>3. bound - n \in Mirror
    OBVIOUS
  <2> QED
    BY <2>1, <2>3, Zenon
<1>2. \E x \in Mirror : \A y \in Mirror : ~ (<<y, x>> \in Less)
  BY <1>1, NatLessThanWellFounded, WFMin
<1>3. \A x, y \in Mirror : y < x => <<y, x>> \in Less
  BY <1>1 DEF OpToRel
<1> HIDE DEF Less
<1>4. PICK x \in Mirror : \A y \in Mirror : ~ (<<y, x>> \in Less)
  BY <1>2
<1>5. PICK n \in T : x = bound - n
  BY <1>4
<1>6. \A m \in T : ~ (bound - m < bound - n)
  BY <1>3, <1>4, <1>5
<1>7. \A m \in T : m <= n
  BY <1>6
<1> QED
  BY <1>7

(* CacheIndex: the index a handle has, a free one, or none is left.        *)
LEMMA FreeIndex ==
  ASSUME SessionTyped, NEW h \in Devices
  PROVE  LET i == Session!GetFreeIndex(map_index, h) IN
         /\ i \in 0 .. MaxSourceLidar
         /\ map_index[h] # 0 => i = map_index[h]
         /\ map_index[h] = 0 /\ i # 0 => \A d \in Devices : map_index[d] # i
         /\ map_index[h] = 0 /\ i = 0 => Session!Index \subseteq {map_index[d] : d \in Devices}
<1> DEFINE free == Session!Index \ {map_index[d] : d \in Devices}
<1>1. Session!GetFreeIndex(map_index, h) =
        IF map_index[h] # 0 THEN map_index[h] ELSE IF free = {} THEN 0 ELSE Session!Min(free)
  BY DEF Session!GetFreeIndex
<1>2. map_index[h] \in 0 .. MaxSourceLidar
  BY DEF SessionTyped
<1>3. ASSUME free # {} PROVE Session!Min(free) \in free
  <2> DEFINE Less == OpToRel(<, Nat)
  <2>1. free \in SUBSET Nat
    BY SessionFacts DEF Session!Index
  <2>2. \E x \in free : \A y \in free : ~ (<<y, x>> \in Less)
    BY <1>3, <2>1, NatLessThanWellFounded, WFMin
  <2>3. \A x, y \in free : y < x => <<y, x>> \in Less
    BY <2>1 DEF OpToRel
  <2> HIDE DEF Less, free
  <2>4. PICK x \in free : \A y \in free : ~ (<<y, x>> \in Less)
    BY <2>2
  <2>5. \A y \in free : ~ (y < x)
    BY <2>3, <2>4, Zenon
  <2>6. \A y \in free : x <= y
    BY <2>1, <2>5
  <2> QED
    BY <2>6 DEF Session!Min
<1>4. free \subseteq 1 .. MaxSourceLidar /\ \A i \in free : \A d \in Devices : map_index[d] # i
  BY DEF Session!Index
<1>5. free = {} => Session!Index \subseteq {map_index[d] : d \in Devices}
  OBVIOUS
<1> HIDE DEF free
<1>6. ASSUME map_index[h] = 0, free # {}
      PROVE  /\ Session!GetFreeIndex(map_index, h) \in 1 .. MaxSourceLidar
             /\ \A d \in Devices : map_index[d] # Session!GetFreeIndex(map_index, h)
  <2>1. Session!GetFreeIndex(map_index, h) \in free
    BY <1>1, <1>3, <1>6
  <2> QED
    BY <1>4, <2>1
<1>7. ASSUME map_index[h] = 0, free = {} PROVE Session!GetFreeIndex(map_index, h) = 0
  BY <1>1, <1>7
<1>8. map_index[h] # 0 => Session!GetFreeIndex(map_index, h) = map_index[h]
  BY <1>1
<1> QED
  BY <1>2, <1>5, <1>6, <1>7, <1>8, SessionFacts

LEMMA SessionStarts ==
  ASSUME Session!Init
  PROVE  SessionInv
<1> USE SessionFacts
<1>1. \A h \in Devices : map_index[h] = 0 /\ infos[h] = 0
  BY DEF Session!Init
<1>2. \A i \in Session!Index : lidars[i].state = "Off"
  BY DEF Session!Init, Session!ZeroDevice
<1>3. SessionTyped
  <2>1. Session!ZeroDevice \in Device
    BY DEF Session!ZeroDevice, Device
  <2>2. lidars \in [Session!Index -> Device]
    BY <2>1 DEF Session!Init
  <2>3. set \in [Devices -> [Session!Settings -> Int]]
    BY DEF Session!Init, Session!Absent
  <2> QED
    BY <2>2, <2>3 DEF Session!Init, SessionTyped
<1>4. IndexOwned
  BY <1>1, <1>2 DEF IndexOwned
<1>5. BeforeRunning
  BY <1>1, <1>2 DEF BeforeRunning, Session!Init
<1>6. SlotConfigured
  <2>1. \A h \in Devices : Past(h) = {}
    BY DEF Past, Listed, Session!Init
  <2> QED
    BY <1>1, <2>1 DEF SlotConfigured
<1>7. SlotAcknowledged
  BY <1>1 DEF SlotAcknowledged, Session!Init, Session!Commands
<1>8. SlotSent
  BY DEF SlotSent, Session!Init
<1> QED
  BY <1>3, <1>4, <1>5, <1>6, <1>7, <1>8 DEF SessionInv

(* Which device takes a step decides what it disturbs: a lemma per action. *)
LEMMA InitLdsLidarKeeps ==
  ASSUME SessionInv, NEW sdk \in SdkInit, Session!InitLdsLidar(sdk)
  PROVE  SessionInv'
<1>1. /\ phase = "start" /\ phase' \in {"entries", "running", "failed"}
      /\ phase' = "entries" => Session!HasLivoxLidar
      /\ phase' = "running" => ~Session!HasLivoxLidar
      /\ UNCHANGED <<entry, map_index, lidars, commands, set, acked, infos, failures>>
  BY DEF Session!InitLdsLidar
<1>2. SessionTyped'
  BY <1>1 DEF SessionInv, SessionTyped
<1>3. IndexOwned'
  BY <1>1 DEF SessionInv, IndexOwned
<1>4. (\A h \in Devices : map_index[h] = 0) /\ \A h \in Devices, s \in Session!Settings : set[h][s] = Session!Absent
  BY <1>1 DEF SessionInv, BeforeRunning, SlotSent
<1>5. BeforeRunning'
  BY <1>1, <1>4 DEF SessionInv, BeforeRunning, Session!HasLivoxLidar, Past, Listed
<1>6. SlotConfigured'
  BY <1>1 DEF SessionInv, SlotConfigured, LastPast, Past, Listed, Session!ParseEntry
<1>7. SlotAcknowledged'
  BY <1>1 DEF SessionInv, SlotAcknowledged, Session!Given
<1>8. SlotSent'
  BY <1>1, <1>4 DEF SlotSent
<1> QED
  BY <1>2, <1>3, <1>5, <1>6, <1>7, <1>8 DEF SessionInv

(* The next entry of the file is the last one of its handle so far.        *)
LEMMA PastGrows ==
  ASSUME SessionTyped, entry \in DOMAIN File.lidars, entry' = entry + 1, NEW h \in Devices
  PROVE  IF File.lidars[entry].ip /\ File.lidars[entry].handle = h
         THEN /\ Past(h)' = Past(h) \union {entry}
              /\ \A m : LastPast(h, m)' => m = entry
         ELSE /\ Past(h)' = Past(h)
              /\ \A m : LastPast(h, m)' <=> LastPast(h, m)
<1> USE SessionFacts
<1>1. entry \in Nat /\ \A m \in Listed(h) : m \in Nat
  BY DEF SessionTyped, Listed
<1>2. Listed(h)' = Listed(h)
  BY DEF Listed
<1>3. Past(h)' = {m \in Listed(h) : m < entry \/ m = entry}
  BY <1>1, <1>2 DEF Past
<1>4. entry \in Listed(h) <=> File.lidars[entry].ip /\ File.lidars[entry].handle = h
  BY DEF Listed
<1>5. CASE entry \in Listed(h)
  <2>1. Past(h)' = Past(h) \union {entry}
    BY <1>3, <1>5 DEF Past
  <2>2. \A k \in Past(h) : k < entry
    BY DEF Past
  <2>3. ASSUME NEW m, LastPast(h, m)' PROVE m = entry
    <3>1. m \in Past(h)' /\ entry <= m
      BY <2>1, <2>3 DEF LastPast
    <3> QED
      BY <1>1, <2>1, <2>2, <3>1 DEF Past
  <2> QED
    BY <1>4, <1>5, <2>1, <2>3
<1>6. CASE entry \notin Listed(h)
  <2>1. Past(h)' = Past(h)
    BY <1>3, <1>6 DEF Past
  <2> QED
    BY <1>4, <1>6, <2>1 DEF LastPast
<1> QED
  BY <1>5, <1>6

LEMMA Reconfigured ==
  ASSUME NEW d \in Device, NEW g, NEW c
  PROVE  [[d EXCEPT !.handle = g] EXCEPT !.config = c] =
           [handle |-> g, config |-> c, set_bits |-> d.set_bits, state |-> d.state]
<1>1. PICK a, b, s, t : d = [handle |-> a, config |-> b, set_bits |-> s, state |-> t]
  BY DEF Device
<1>2. [d EXCEPT !.handle = g] = [handle |-> g, config |-> b, set_bits |-> s, state |-> t]
  BY <1>1
<1>3. ASSUME NEW x, x = [handle |-> g, config |-> b, set_bits |-> s, state |-> t]
      PROVE  [x EXCEPT !.config = c] = [handle |-> g, config |-> c, set_bits |-> s, state |-> t]
  BY <1>3
<1>4. [[d EXCEPT !.handle = g] EXCEPT !.config = c]
        = [handle |-> g, config |-> c, set_bits |-> s, state |-> t]
  BY <1>2, <1>3, Zenon
<1> QED
  BY <1>1, <1>4

LEMMA AddConfiguredKeeps ==
  ASSUME SessionInv, Session!AddConfigured
  PROVE  SessionInv'
<1> USE SessionFacts
<1> DEFINE e == File.lidars[entry]
           i == Session!GetFreeIndex(map_index, e.handle)
<1>1. /\ SessionTyped /\ IndexOwned /\ BeforeRunning
      /\ SlotConfigured /\ SlotAcknowledged /\ SlotSent
  BY DEF SessionInv
<1>2. phase = "entries" /\ UNCHANGED <<commands, set, acked, infos, failures>>
  BY DEF Session!AddConfigured
<1>3. /\ Session!HasLivoxLidar /\ Session!HasLivoxLidar' = Session!HasLivoxLidar
      /\ \A h \in Devices : infos[h] = 0
      /\ \A j \in Session!Index : lidars[j].state = "Off"
      /\ \A h \in Devices : map_index[h] # 0 => Past(h) # {}
  BY <1>1, <1>2 DEF BeforeRunning, Session!HasLivoxLidar
<1>4. \A h \in Devices : \A c \in Session!Commands : commands[h][c] = 0
  BY <1>1, <1>3 DEF SessionTyped
<1>5. \A h \in Devices, s \in Session!Settings : set[h][s] = Session!Absent
  BY <1>1, <1>2 DEF SlotSent
<1>6. CASE entry > Len(File.lidars)
  <2>1. phase' = "running" /\ UNCHANGED <<entry, map_index, lidars>>
    BY <1>6 DEF Session!AddConfigured
  <2>2. SessionTyped'
    BY <1>1, <1>2, <2>1 DEF SessionTyped
  <2>3. IndexOwned'
    BY <1>1, <1>2, <2>1 DEF IndexOwned
  <2>4. entry = Len(File.lidars) + 1
    BY <1>1, <1>6 DEF SessionTyped
  <2>5. BeforeRunning'
    BY <1>2, <1>3, <2>1, <2>4 DEF BeforeRunning
  <2>6. SlotConfigured'
    BY <1>1, <1>2, <2>1 DEF SlotConfigured, LastPast, Past, Listed, Session!ParseEntry
  <2>7. SlotAcknowledged'
    BY <1>1, <1>2, <2>1 DEF SlotAcknowledged, Session!Given
  <2>8. SlotSent'
    BY <1>2, <1>5 DEF SlotSent
  <2> QED
    BY <2>2, <2>3, <2>5, <2>6, <2>7, <2>8 DEF SessionInv
<1>7. CASE ~(entry > Len(File.lidars))
  <2>1. /\ phase' = phase /\ entry' = entry + 1
        /\ IF Session!ConfiguredBy(e)
           THEN /\ map_index' = [map_index EXCEPT ![e.handle] = i]
                /\ lidars' = [lidars EXCEPT ![i].handle = e.handle,
                                            ![i].config = Session!ParseEntry(e)]
           ELSE UNCHANGED <<map_index, lidars>>
    BY <1>7 DEF Session!AddConfigured
  <2>2. entry \in DOMAIN File.lidars /\ entry + 1 <= Len(File.lidars) + 1
    BY <1>1, <1>7 DEF SessionTyped
  <2>3. e \in Session!Entry /\ e.handle \in Devices
    BY <2>2 DEF Session!Entry
  <2>4. /\ i \in 0 .. MaxSourceLidar
        /\ map_index[e.handle] # 0 => i = map_index[e.handle]
        /\ map_index[e.handle] = 0 /\ i # 0 => \A d \in Devices : map_index[d] # i
        /\ map_index[e.handle] = 0 /\ i = 0 => Session!Index \subseteq {map_index[d] : d \in Devices}
    BY <1>1, <2>3, FreeIndex
  <2>5. CASE ~Session!ConfiguredBy(e)
    <3>1. UNCHANGED <<map_index, lidars>>
      BY <2>1, <2>5
    <3>2. SessionTyped'
      BY <1>1, <1>2, <2>1, <2>2, <3>1 DEF SessionTyped
    <3>3. IndexOwned'
      BY <1>1, <1>2, <3>1 DEF IndexOwned
    <3>4. \A h \in Devices : Past(h) \subseteq Past(h)'
      BY <1>1, <2>1, <2>2, PastGrows
    <3>5. BeforeRunning'
      BY <1>2, <1>3, <2>1, <3>1, <3>4 DEF BeforeRunning
    <3>6. SlotConfigured'
      <4>1. e.ip => map_index[e.handle] = 0 /\ i = 0
        BY <2>4, <2>5 DEF Session!ConfiguredBy
      <4>2. ASSUME NEW h \in Devices, map_index[h] # 0
            PROVE  \A m : LastPast(h, m)' <=> LastPast(h, m)
        BY <1>1, <2>1, <2>2, <4>1, <4>2, PastGrows
      <4>3. ASSUME NEW h \in Devices, map_index[h] = 0, Past(h)' # {}
            PROVE  Session!Index \subseteq {map_index[d] : d \in Devices}
        <5>1. CASE Past(h) # {}
          BY <1>1, <4>3, <5>1 DEF SlotConfigured
        <5>2. CASE Past(h) = {}
          <6>1. e.ip
            BY <1>1, <2>1, <2>2, <4>3, <5>2, PastGrows
          <6> QED
            BY <2>4, <4>1, <6>1
        <5> QED
          BY <5>1, <5>2
      <4> QED
        BY <1>1, <3>1, <4>2, <4>3 DEF SlotConfigured, Session!ParseEntry
    <3>7. SlotAcknowledged'
      BY <1>1, <1>2, <3>1 DEF SlotAcknowledged, Session!Given
    <3>8. SlotSent'
      BY <1>2, <1>5 DEF SlotSent
    <3> QED
      BY <3>2, <3>3, <3>5, <3>6, <3>7, <3>8 DEF SessionInv
  <2>6. CASE Session!ConfiguredBy(e)
    <3>1. /\ map_index' = [map_index EXCEPT ![e.handle] = i]
          /\ lidars' = [lidars EXCEPT ![i].handle = e.handle,
                                      ![i].config = Session!ParseEntry(e)]
      BY <2>1, <2>6
    <3>2. e.ip /\ i \in Session!Index /\ i # 0
      BY <2>4, <2>6 DEF Session!ConfiguredBy, Session!Index
    <3>3. Session!ParseEntry(e) \in [Session!Settings -> Int]
      <4>1. e.fields \in [Session!Settings -> 0 .. 127 \union {Session!Absent}]
        BY <2>3 DEF Session!Entry
      <4> DEFINE values == 0 .. 127 \union {Session!Absent}
      <4>a. \A n \in values : n \in Int
        BY DEF Session!Absent
      <4> HIDE DEF values, e
      <4>2. \A s \in Session!Settings : e.fields[s] \in Int
        BY <4>1, <4>a DEF values
      <4> QED
        BY <4>2 DEF Session!ParseEntry, Session!Int8
    <3>a. PICK g \in Devices : g = e.handle
      BY <2>3
    <3> DEFINE c == Session!ParseEntry(e)
    <3>4. c \in [Session!Settings -> Int] /\ g \in Devices
      BY <3>3
    <3> HIDE DEF c, i
    <3>5. /\ map_index' = [map_index EXCEPT ![g] = i]
          /\ lidars' = [lidars EXCEPT ![i].handle = g, ![i].config = c]
      BY <3>1, <3>a DEF c
    <3>6. /\ lidars' \in [Session!Index -> Device]
          /\ lidars'[i].handle = g /\ lidars'[i].config = c
          /\ \A j \in Session!Index : lidars'[j].state = "Off"
          /\ \A j \in Session!Index \ {i} : lidars'[j] = lidars[j]
      <4>1. lidars \in [Session!Index -> Device] /\ lidars[i] \in Device
        BY <1>1, <3>2 DEF SessionTyped
      <4>2. lidars' = [lidars EXCEPT ![i] = [[@ EXCEPT !.handle = g] EXCEPT !.config = c]]
        BY <3>5, <4>1
      <4>3. lidars' = [lidars EXCEPT ![i] = [handle |-> g, config |-> c,
                          set_bits |-> lidars[i].set_bits, state |-> lidars[i].state]]
        BY <3>4, <4>1, <4>2, Reconfigured
      <4>4. [handle |-> g, config |-> c,
             set_bits |-> lidars[i].set_bits, state |-> lidars[i].state] \in Device
        BY <3>4, <4>1 DEF Device
      <4> QED
        BY <1>3, <3>2, <4>1, <4>3, <4>4
    <3>7. /\ map_index' \in [Devices -> 0 .. MaxSourceLidar]
          /\ map_index'[g] = i
          /\ \A d \in Devices \ {g} : map_index'[d] = map_index[d] /\ map_index[d] # i
      BY <1>1, <2>4, <3>2, <3>a, <3>5 DEF SessionTyped, IndexOwned
    <3>8. SessionTyped'
      BY <1>1, <1>2, <2>1, <2>2, <3>6, <3>7 DEF SessionTyped
    <3>9. IndexOwned'
      BY <1>1, <3>2, <3>6, <3>7 DEF IndexOwned
    <3>10. /\ Past(g)' = Past(g) \union {entry}
           /\ \A m : LastPast(g, m)' => m = entry
           /\ \A d \in Devices \ {g} : Past(d)' = Past(d) /\ \A m : LastPast(d, m)' <=> LastPast(d, m)
      BY <1>1, <2>1, <2>2, <3>2, <3>a, PastGrows
    <3>11. BeforeRunning'
      BY <1>2, <1>3, <2>1, <3>6, <3>7, <3>10 DEF BeforeRunning
    <3>12. SlotConfigured'
      <4>1. ASSUME NEW h \in Devices, NEW m \in DOMAIN File.lidars, LastPast(h, m)', map_index'[h] # 0
            PROVE  /\ lidars'[map_index'[h]].handle = h
                   /\ lidars'[map_index'[h]].config = Session!ParseEntry(File.lidars[m])
        <5>1. CASE h = g
          <6>1. m = entry
            BY <3>10, <4>1, <5>1
          <6> QED
            BY <3>6, <3>7, <5>1, <6>1 DEF c
        <5>2. CASE h # g
          <6>1. LastPast(h, m) /\ map_index'[h] = map_index[h] /\ map_index[h] # i
            BY <3>7, <3>10, <4>1, <5>2
          <6>2. map_index[h] \in Session!Index
            BY <1>1, <4>1, <6>1 DEF SessionTyped, Session!Index
          <6> QED
            BY <1>1, <3>6, <4>1, <6>1, <6>2 DEF SlotConfigured
        <5> QED
          BY <5>1, <5>2
      <4>2. ASSUME NEW h \in Devices, Past(h)' # {}, map_index'[h] = 0
            PROVE  Session!Index \subseteq {map_index'[d] : d \in Devices}
        <5>1. h # g
          BY <3>2, <3>7, <4>2
        <5>2. Session!Index \subseteq {map_index[d] : d \in Devices}
          BY <1>1, <3>7, <3>10, <4>2, <5>1 DEF SlotConfigured
        <5>3. \A d \in Devices : map_index[d] # 0 => map_index'[d] = map_index[d]
          BY <2>4, <3>a, <3>7
        <5>4. 0 \notin Session!Index
          BY DEF Session!Index
        <5> QED
          BY <5>2, <5>3, <5>4
      <4> QED
        BY <4>1, <4>2 DEF SlotConfigured, Session!ParseEntry
    <3>13. SlotAcknowledged'
      <4>1. \A h \in Devices, s \in Session!Settings : commands'[h][s] = 0
        BY <1>2, <1>4 DEF Session!Commands
      <4>2. \A h \in Devices : map_index'[h] # 0 => map_index'[h] \in Session!Index
        BY <3>7 DEF Session!Index
      <4> QED
        BY <3>6, <4>1, <4>2 DEF SlotAcknowledged
    <3>14. SlotSent'
      BY <1>2, <1>5 DEF SlotSent
    <3> QED
      BY <3>8, <3>9, <3>11, <3>12, <3>13, <3>14 DEF SessionInv
  <2> QED
    BY <2>5, <2>6
<1> QED
  BY <1>6, <1>7

(* A command that is sent is pending once more, and no other is.           *)
LEMMA SendFacts ==
  ASSUME commands \in [Devices -> [Session!Commands -> Nat]], NEW h \in Devices, NEW cs,
         Session!Send(h, cs)
  PROVE  /\ commands' \in [Devices -> [Session!Commands -> Nat]]
         /\ \A c \in Session!Commands :
              /\ commands'[h][c] <= commands[h][c] + 1
              /\ c \notin cs => commands'[h][c] = commands[h][c]
         /\ \A d \in Devices \ {h} : commands'[d] = commands[d]
<1> DEFINE new == [c \in Session!Commands |->
                     commands[h][c] + IF c \in cs \intersect Tracked THEN 1 ELSE 0]
<1>1. commands' = [commands EXCEPT ![h] = new]
  BY DEF Session!Send
<1>2. \A c \in Session!Commands : commands[h][c] \in Nat
  OBVIOUS
<1>3. new \in [Session!Commands -> Nat]
  BY <1>2
<1>4. \A c \in Session!Commands :
        /\ new[c] <= commands[h][c] + 1
        /\ c \notin cs => new[c] = commands[h][c]
  BY <1>2
<1> HIDE DEF new
<1> QED
  BY <1>1, <1>3, <1>4

LEMMA InfoChangeKeeps ==
  ASSUME SessionInv, NEW h \in Devices, Session!InfoChange(h)
  PROVE  SessionInv'
<1> USE SessionFacts
<1> DEFINE free == Session!GetFreeIndex(map_index, h)
           i == map_index[h]
<1>1. /\ SessionTyped /\ IndexOwned /\ BeforeRunning
      /\ SlotConfigured /\ SlotAcknowledged /\ SlotSent
  BY DEF SessionInv
<1>2. /\ phase = "running" /\ Session!HasLivoxLidar /\ infos[h] < MaxInfos
      /\ infos' = [infos EXCEPT ![h] = @ + 1]
      /\ UNCHANGED <<phase, entry, acked, failures>>
  BY DEF Session!InfoChange
<1>3. entry = Len(File.lidars) + 1 /\ Session!HasLivoxLidar'
  BY <1>1, <1>2 DEF BeforeRunning, Session!HasLivoxLidar
<1>4. BeforeRunning'
  BY <1>2, <1>3 DEF BeforeRunning
<1>5. /\ infos' \in [Devices -> 0 .. MaxInfos] /\ infos'[h] = infos[h] + 1
      /\ \A d \in Devices \ {h} : infos'[d] = infos[d]
  BY <1>1, <1>2 DEF SessionTyped
<1>6. \A d \in Devices : Past(d)' = Past(d) /\ \A m : LastPast(d, m)' <=> LastPast(d, m)
  BY <1>2 DEF LastPast, Past, Listed
<1>7. ASSUME NEW cs, Session!Send(h, cs)
      PROVE  /\ commands' \in [Devices -> [Session!Commands -> Nat]]
             /\ \A d \in Devices, c \in Session!Commands : commands'[d][c] <= infos'[d]
             /\ \A c \in Session!Commands \ cs : commands'[h][c] = commands[h][c]
             /\ \A d \in Devices \ {h} : commands'[d] = commands[d]
  <2>1. /\ commands \in [Devices -> [Session!Commands -> Nat]]
        /\ \A d \in Devices, c \in Session!Commands :
             commands[d][c] \in Nat /\ commands[d][c] <= infos[d] /\ infos[d] \in Nat
    BY <1>1 DEF SessionTyped
  <2>2. /\ commands' \in [Devices -> [Session!Commands -> Nat]]
        /\ \A c \in Session!Commands :
             /\ commands'[h][c] <= commands[h][c] + 1
             /\ c \notin cs => commands'[h][c] = commands[h][c]
        /\ \A d \in Devices \ {h} : commands'[d] = commands[d]
    BY <1>7, <2>1, SendFacts
  <2>3. ASSUME NEW c \in Session!Commands PROVE commands'[h][c] <= infos'[h]
    <3>1. commands'[h][c] \in Nat /\ commands'[h][c] <= commands[h][c] + 1
      BY <2>2
    <3>2. commands[h][c] \in Nat /\ commands[h][c] <= infos[h] /\ infos[h] \in Nat
      BY <2>1
    <3> QED
      BY <1>5, <3>1, <3>2
  <2>4. ASSUME NEW d \in Devices \ {h}, NEW c \in Session!Commands PROVE commands'[d][c] <= infos'[d]
    BY <1>5, <2>1, <2>2
  <2> QED
    BY <2>2, <2>3, <2>4
<1>8. CASE i = 0
  <2>1. /\ map_index' = [map_index EXCEPT ![h] = free]
        /\ Session!Send(h, IF free = 0 THEN {} ELSE {"work_mode", "imu"})
        /\ UNCHANGED <<lidars, set>>
    BY <1>8 DEF Session!InfoChange
  <2>2. /\ free \in 0 .. MaxSourceLidar
        /\ free # 0 => \A d \in Devices : map_index[d] # free
        /\ free = 0 => Session!Index \subseteq {map_index[d] : d \in Devices}
    BY <1>1, <1>8, FreeIndex
  <2> HIDE DEF free
  <2>3. /\ commands' \in [Devices -> [Session!Commands -> Nat]]
        /\ \A d \in Devices, c \in Session!Commands : commands'[d][c] <= infos'[d]
        /\ \A c \in Session!Settings : commands'[h][c] = commands[h][c]
        /\ \A d \in Devices \ {h} : commands'[d] = commands[d]
    <3> DEFINE cs == IF free = 0 THEN {} ELSE {"work_mode", "imu"}
    <3>1. \A c \in Session!Settings : c \in Session!Commands \ cs
      BY DEF Session!Settings, Session!Commands
    <3>2. Session!Send(h, cs)
      BY <2>1
    <3> HIDE DEF cs
    <3> QED
      BY <1>7, <3>1, <3>2
  <2>4. /\ map_index' \in [Devices -> 0 .. MaxSourceLidar] /\ map_index'[h] = free
        /\ \A d \in Devices \ {h} : map_index'[d] = map_index[d]
    BY <1>1, <2>1, <2>2 DEF SessionTyped
  <2>5. SessionTyped'
    BY <1>1, <1>2, <1>5, <2>1, <2>3, <2>4 DEF SessionTyped
  <2>6. \A j \in Session!Index : (\A d \in Devices : map_index'[d] # j) => \A d \in Devices : map_index[d] # j
    BY <1>8, <2>4 DEF Session!Index
  <2>7. IndexOwned'
    BY <1>1, <1>8, <2>1, <2>2, <2>4, <2>6 DEF IndexOwned
  <2>8. free # 0 => Past(h) = {}
    <3>1. SUFFICES ASSUME free # 0, Past(h) # {} PROVE FALSE
      OBVIOUS
    <3>2. free \in {map_index[d] : d \in Devices}
      BY <1>1, <1>8, <2>2, <3>1 DEF SlotConfigured, Session!Index
    <3> QED
      BY <2>2, <3>1, <3>2
  <2>9. SlotConfigured'
    <3>1. ASSUME NEW d \in Devices, NEW m \in DOMAIN File.lidars, LastPast(d, m)', map_index'[d] # 0
          PROVE  /\ lidars'[map_index'[d]].handle = d
                 /\ lidars'[map_index'[d]].config = Session!ParseEntry(File.lidars[m])
      <4>1. LastPast(d, m) /\ d # h
        BY <1>6, <2>4, <2>8, <3>1 DEF LastPast
      <4> QED
        BY <1>1, <2>1, <2>4, <3>1, <4>1 DEF SlotConfigured
    <3>2. ASSUME NEW d \in Devices, Past(d)' # {}, map_index'[d] = 0
          PROVE  Session!Index \subseteq {map_index'[g] : g \in Devices}
      <4>1. Session!Index \subseteq {map_index[g] : g \in Devices}
        BY <1>1, <1>6, <1>8, <2>4, <3>2 DEF SlotConfigured
      <4>2. \A g \in Devices : map_index[g] # 0 => map_index'[g] = map_index[g]
        BY <1>8, <2>4
      <4>3. 0 \notin Session!Index
        BY DEF Session!Index
      <4> QED
        BY <4>1, <4>2, <4>3
    <3> QED
      BY <3>1, <3>2 DEF SlotConfigured, Session!ParseEntry
  <2>10. SlotAcknowledged'
    <3>1. ASSUME NEW d \in Devices \ {h}
          PROVE  UNCHANGED <<map_index[d], commands[d], lidars, acked>>
      BY <1>2, <2>1, <2>3, <2>4
    <3>2. \A s \in Session!Settings : commands'[h][s] = 0
      BY <1>1, <1>8, <2>3 DEF SlotAcknowledged
    <3>3. free # 0 => lidars'[free].state = "Off"
      BY <1>1, <2>1, <2>2 DEF IndexOwned, Session!Index
    <3>4. ASSUME NEW d \in Devices \ {h}
          PROVE  IF map_index'[d] = 0 THEN \A s \in Session!Settings : commands'[d][s] = 0
                 ELSE LET l == lidars'[map_index'[d]] IN
                      /\ (\E s \in Session!Settings : commands'[d][s] > 0) =>
                           Session!Given(l.config) \subseteq l.set_bits \union acked'[d]
                      /\ l.state = "Sampling" => Session!Given(l.config) \subseteq acked'[d]
      BY <1>1, <3>1 DEF SlotAcknowledged
    <3>5. IF map_index'[h] = 0 THEN \A s \in Session!Settings : commands'[h][s] = 0
          ELSE LET l == lidars'[map_index'[h]] IN
               /\ (\E s \in Session!Settings : commands'[h][s] > 0) =>
                    Session!Given(l.config) \subseteq l.set_bits \union acked'[h]
               /\ l.state = "Sampling" => Session!Given(l.config) \subseteq acked'[h]
      BY <2>4, <3>2, <3>3
    <3> QED
      BY <3>4, <3>5 DEF SlotAcknowledged, Session!Given
  <2>11. SlotSent'
    BY <1>1, <1>2, <1>8, <2>1, <2>4 DEF SlotSent, Session!Given
  <2> QED
    BY <1>4, <2>5, <2>7, <2>9, <2>10, <2>11 DEF SessionInv
<1>9. CASE i # 0
  <2>1. i \in Session!Index /\ lidars[i] \in Device
    BY <1>1, <1>9 DEF SessionTyped, Session!Index
  <2>2. /\ lidars' = [lidars EXCEPT ![i] = Session!RecordSettings(@)]
        /\ set' = [set EXCEPT ![h] = [s \in Session!Settings |->
                     IF s \in Session!Given(lidars[i].config) THEN lidars[i].config[s] ELSE @[s]]]
        /\ Session!Send(h, Session!Given(lidars[i].config) \union Session!OtherCommands)
        /\ UNCHANGED map_index
    BY <1>9 DEF Session!InfoChange
  <2>3. /\ commands' \in [Devices -> [Session!Commands -> Nat]]
        /\ \A d \in Devices, c \in Session!Commands : commands'[d][c] <= infos'[d]
        /\ \A d \in Devices \ {h} : commands'[d] = commands[d]
    BY <1>7, <2>2
  <2>4. Session!Given(lidars[i].config) \subseteq Session!Settings
    BY DEF Session!Given
  <2>5. /\ lidars' \in [Session!Index -> Device]
        /\ \A j \in Session!Index \ {i} : lidars'[j] = lidars[j]
        /\ lidars'[i].handle = lidars[i].handle /\ lidars'[i].config = lidars[i].config
        /\ lidars'[i].state = lidars[i].state
        /\ lidars'[i].set_bits = lidars[i].set_bits \union Session!Given(lidars[i].config)
    <3> DEFINE b == lidars[i].set_bits \union Session!Given(lidars[i].config)
    <3>1. lidars' = [lidars EXCEPT ![i] = [lidars[i] EXCEPT !.set_bits = b]]
      BY <1>1, <2>1, <2>2 DEF Session!RecordSettings, SessionTyped
    <3>2. b \in SUBSET Session!Settings
      BY <2>1, <2>4 DEF Device
    <3> HIDE DEF b
    <3>3. [lidars[i] EXCEPT !.set_bits = b]
            = [handle |-> lidars[i].handle, config |-> lidars[i].config,
               set_bits |-> b, state |-> lidars[i].state]
      BY <2>1 DEF Device
    <3>4. [handle |-> lidars[i].handle, config |-> lidars[i].config,
           set_bits |-> b, state |-> lidars[i].state] \in Device
      BY <2>1, <3>2 DEF Device
    <3> QED
      BY <1>1, <2>1, <3>1, <3>3, <3>4 DEF SessionTyped, b
  <2>6. \A j \in Session!Index : /\ lidars'[j].state = lidars[j].state
                                 /\ lidars'[j].config = lidars[j].config
                                 /\ lidars'[j].handle = lidars[j].handle
    BY <2>5
  <2>7. /\ set' \in [Devices -> [Session!Settings -> Int]]
        /\ \A d \in Devices \ {h} : set'[d] = set[d]
        /\ \A s \in Session!Settings :
             set'[h][s] = IF s \in Session!Given(lidars[i].config) THEN lidars[i].config[s] ELSE set[h][s]
    <3> DEFINE new == [s \in Session!Settings |->
                 IF s \in Session!Given(lidars[i].config) THEN lidars[i].config[s] ELSE set[h][s]]
    <3>1. set' = [set EXCEPT ![h] = new]
      BY <2>2
    <3>2. set[h] \in [Session!Settings -> Int] /\ lidars[i].config \in [Session!Settings -> Int]
      BY <1>1, <2>1 DEF SessionTyped, Device
    <3>3. new \in [Session!Settings -> Int]
      BY <3>2
    <3>4. \A s \in Session!Settings :
            new[s] = IF s \in Session!Given(lidars[i].config) THEN lidars[i].config[s] ELSE set[h][s]
      OBVIOUS
    <3> HIDE DEF new
    <3> QED
      BY <1>1, <3>1, <3>3, <3>4 DEF SessionTyped
  <2>8. \A d \in Devices : map_index[d] # 0 => map_index[d] \in Session!Index
    BY <1>1 DEF SessionTyped, Session!Index
  <2>9. \A d \in Devices \ {h} : map_index[d] # i
    BY <1>1, <1>9 DEF IndexOwned
  <2>10. SessionTyped'
    BY <1>1, <1>2, <1>5, <2>2, <2>3, <2>5, <2>7 DEF SessionTyped
  <2>11. IndexOwned'
    BY <1>1, <2>2, <2>6 DEF IndexOwned
  <2>12. SlotConfigured'
    BY <1>1, <1>6, <2>2, <2>6, <2>8 DEF SlotConfigured, Session!ParseEntry
  <2>13. SlotAcknowledged'
    <3>1. ASSUME NEW d \in Devices \ {h}
          PROVE  IF map_index'[d] = 0 THEN \A s \in Session!Settings : commands'[d][s] = 0
                 ELSE LET l == lidars'[map_index'[d]] IN
                      /\ (\E s \in Session!Settings : commands'[d][s] > 0) =>
                           Session!Given(l.config) \subseteq l.set_bits \union acked'[d]
                      /\ l.state = "Sampling" => Session!Given(l.config) \subseteq acked'[d]
      <4>1. commands'[d] = commands[d] /\ acked'[d] = acked[d] /\ map_index'[d] = map_index[d]
        BY <1>2, <2>2, <2>3
      <4>2. map_index[d] # 0 => lidars'[map_index[d]] = lidars[map_index[d]]
        BY <2>5, <2>8, <2>9
      <4> QED
        BY <1>1, <4>1, <4>2 DEF SlotAcknowledged
    <3>2. /\ Session!Given(lidars'[i].config) \subseteq lidars'[i].set_bits \union acked'[h]
          /\ lidars'[i].state = "Sampling" => Session!Given(lidars'[i].config) \subseteq acked'[h]
      BY <1>1, <1>2, <1>9, <2>5 DEF SlotAcknowledged
    <3> QED
      BY <1>9, <2>2, <3>1, <3>2 DEF SlotAcknowledged, Session!Given
  <2>14. SlotSent'
    <3>1. ASSUME NEW d \in Devices, NEW s \in Session!Settings, set'[d][s] # Session!Absent
          PROVE  /\ map_index'[d] # 0 /\ phase' = "running"
                 /\ s \in Session!Given(lidars'[map_index'[d]].config)
                 /\ set'[d][s] = lidars'[map_index'[d]].config[s]
      <4>1. CASE d # h \/ s \notin Session!Given(lidars[i].config)
        <5>1. set'[d][s] = set[d][s]
          BY <2>7, <4>1
        <5> QED
          BY <1>1, <1>2, <2>2, <2>6, <2>8, <3>1, <5>1 DEF SlotSent
      <4>2. CASE d = h /\ s \in Session!Given(lidars[i].config)
        BY <1>2, <1>9, <2>1, <2>2, <2>6, <2>7, <4>2
      <4> QED
        BY <4>1, <4>2
    <3> QED
      BY <3>1 DEF SlotSent, Session!Given, Session!Absent
  <2> QED
    BY <1>4, <2>10, <2>11, <2>12, <2>13, <2>14 DEF SessionInv
<1> QED
  BY <1>8, <1>9

(* A command that is answered, or has failed, is pending once less.        *)
LEMMA AnsweredFacts ==
  ASSUME commands \in [Devices -> [Session!Commands -> Nat]], NEW h \in Devices,
         NEW c \in Session!Commands, commands[h][c] > 0, Session!Answered(h, c)
  PROVE  /\ commands' \in [Devices -> [Session!Commands -> Nat]]
         /\ \A d \in Devices, b \in Session!Commands : commands'[d][b] <= commands[d][b]
<1>1. commands' = [commands EXCEPT ![h] = [commands[h] EXCEPT ![c] = commands[h][c] - 1]]
  BY DEF Session!Answered
<1>2. commands[h] \in [Session!Commands -> Nat] /\ commands[h][c] - 1 \in Nat
  OBVIOUS
<1> DEFINE new == [commands[h] EXCEPT ![c] = commands[h][c] - 1]
<1>3. new \in [Session!Commands -> Nat] /\ \A b \in Session!Commands : new[b] <= commands[h][b]
  BY <1>2
<1> HIDE DEF new
<1> QED
  BY <1>1, <1>3 DEF new

(* Fewer commands wait, and all else stays.                                *)
LEMMA FewerKeep ==
  ASSUME SessionInv, UNCHANGED <<phase, entry, map_index, lidars, set, acked, infos>>,
         commands' \in [Devices -> [Session!Commands -> Nat]],
         \A d \in Devices, b \in Session!Commands : commands'[d][b] <= commands[d][b]
  PROVE  SessionInv'
<1>1. /\ SessionTyped /\ IndexOwned /\ BeforeRunning
      /\ SlotConfigured /\ SlotAcknowledged /\ SlotSent
  BY DEF SessionInv
<1>2. \A d \in Devices, b \in Session!Commands :
        /\ commands[d][b] \in Nat /\ commands'[d][b] \in Nat /\ infos[d] \in Nat
        /\ commands[d][b] <= infos[d]
  BY <1>1, SessionFacts DEF SessionTyped
<1>3. \A d \in Devices, b \in Session!Commands : commands'[d][b] <= infos'[d]
  BY <1>2
<1>4. SessionTyped'
  BY <1>1, <1>3 DEF SessionTyped
<1>5. IndexOwned'
  BY <1>1 DEF IndexOwned
<1>6. BeforeRunning'
  BY <1>1 DEF BeforeRunning, Session!HasLivoxLidar, Past, Listed
<1>7. SlotConfigured'
  BY <1>1 DEF SlotConfigured, LastPast, Past, Listed, Session!ParseEntry
<1>8. SlotAcknowledged'
  <2>1. \A d \in Devices, s \in Session!Settings :
          /\ commands[d][s] = 0 => commands'[d][s] = 0
          /\ commands'[d][s] > 0 => commands[d][s] > 0
    BY <1>2 DEF Session!Commands
  <2> QED
    BY <1>1, <2>1 DEF SlotAcknowledged, Session!Given
<1>9. SlotSent'
  BY <1>1 DEF SlotSent, Session!Given
<1> QED
  BY <1>4, <1>5, <1>6, <1>7, <1>8, <1>9 DEF SessionInv

LEMMA SettingSucceedsKeeps ==
  ASSUME SessionInv, NEW h \in Devices, NEW s \in Session!Settings, Session!SettingSucceeds(h, s)
  PROVE  SessionInv'
<1> USE SessionFacts
<1> DEFINE i == map_index[h]
<1>1. /\ SessionTyped /\ IndexOwned /\ BeforeRunning
      /\ SlotConfigured /\ SlotAcknowledged /\ SlotSent
  BY DEF SessionInv
<1>2. /\ commands[h][s] > 0 /\ i # 0 /\ s \in Session!Commands
      /\ lidars' = [lidars EXCEPT ![i] = Session!Acknowledge(@, s)]
      /\ acked' = [acked EXCEPT ![h] = @ \union {s}]
      /\ Session!Answered(h, s)
      /\ UNCHANGED <<phase, entry, map_index, set, infos, failures>>
  BY DEF Session!SettingSucceeds, Session!Commands
<1>3. i \in Session!Index /\ lidars[i] \in Device
  BY <1>1, <1>2 DEF SessionTyped, Session!Index
<1>4. /\ commands' \in [Devices -> [Session!Commands -> Nat]]
      /\ \A d \in Devices, b \in Session!Commands : commands'[d][b] <= commands[d][b]
  BY <1>1, <1>2, AnsweredFacts DEF SessionTyped
<1>5. /\ lidars' \in [Session!Index -> Device]
      /\ \A j \in Session!Index \ {i} : lidars'[j] = lidars[j]
      /\ lidars'[i].handle = lidars[i].handle /\ lidars'[i].config = lidars[i].config
      /\ lidars'[i].set_bits = lidars[i].set_bits \ {s}
      /\ lidars'[i].state = IF lidars[i].set_bits \ {s} = {} THEN "Sampling" ELSE lidars[i].state
  <2> DEFINE b == lidars[i].set_bits \ {s}
             t == IF lidars[i].set_bits \ {s} = {} THEN "Sampling" ELSE lidars[i].state
             new == [handle |-> lidars[i].handle, config |-> lidars[i].config,
                     set_bits |-> b, state |-> t]
  <2>1. b \in SUBSET Session!Settings /\ t \in {"Off", "Sampling"}
    BY <1>3 DEF Device
  <2>2. Session!Acknowledge(lidars[i], s) = [[lidars[i] EXCEPT !.set_bits = b] EXCEPT !.state = t]
    BY <1>3 DEF Session!Acknowledge, Device
  <2> HIDE DEF b, t
  <2>3. [lidars[i] EXCEPT !.set_bits = b]
          = [handle |-> lidars[i].handle, config |-> lidars[i].config,
             set_bits |-> b, state |-> lidars[i].state]
    BY <1>3 DEF Device
  <2>4. ASSUME NEW x, x = [handle |-> lidars[i].handle, config |-> lidars[i].config,
                           set_bits |-> b, state |-> lidars[i].state]
        PROVE  [x EXCEPT !.state = t] = new
    BY <2>4
  <2>5. Session!Acknowledge(lidars[i], s) = new
    BY <2>2, <2>3, <2>4, Zenon
  <2>6. new \in Device
    BY <1>3, <2>1 DEF Device
  <2>7. lidars' = [lidars EXCEPT ![i] = new]
    BY <1>1, <1>2, <1>3, <2>5 DEF SessionTyped
  <2>8. lidars' \in [Session!Index -> Device] /\ lidars'[i] = new
        /\ \A j \in Session!Index \ {i} : lidars'[j] = lidars[j]
    BY <1>1, <1>3, <2>6, <2>7 DEF SessionTyped
  <2> QED
    BY <2>8 DEF b, t
<1>6. \A j \in Session!Index :
        lidars'[j].config = lidars[j].config /\ lidars'[j].handle = lidars[j].handle
  BY <1>5
<1>7. /\ acked' \in [Devices -> SUBSET Session!Settings] /\ acked'[h] = acked[h] \union {s}
      /\ \A d \in Devices \ {h} : acked'[d] = acked[d]
  <2>1. acked \in [Devices -> SUBSET Session!Settings]
    BY <1>1 DEF SessionTyped
  <2>2. acked[h] \union {s} \in SUBSET Session!Settings
    BY <2>1
  <2> QED
    BY <1>2, <2>1, <2>2
<1>8. \A d \in Devices : map_index[d] # 0 => map_index[d] \in Session!Index
  BY <1>1 DEF SessionTyped, Session!Index
<1>9. \A d \in Devices \ {h} : map_index[d] # i
  BY <1>1, <1>2 DEF IndexOwned
<1>10. \A d \in Devices, b \in Session!Commands :
         /\ commands[d][b] \in Nat /\ commands'[d][b] \in Nat /\ infos[d] \in Nat
         /\ commands[d][b] <= infos[d] /\ commands'[d][b] <= commands[d][b]
  BY <1>1, <1>4 DEF SessionTyped
<1>11. SessionTyped'
  <2>1. \A d \in Devices, b \in Session!Commands : commands'[d][b] <= infos'[d]
    BY <1>2, <1>10
  <2> QED
    BY <1>1, <1>2, <1>4, <1>5, <1>7, <2>1 DEF SessionTyped
<1>12. IndexOwned'
  <2>1. ASSUME NEW j \in Session!Index, \A d \in Devices : map_index'[d] # j
        PROVE  lidars'[j].state = "Off"
    BY <1>1, <1>2, <1>5, <2>1 DEF IndexOwned
  <2> QED
    BY <1>1, <1>2, <2>1 DEF IndexOwned
<1>13. infos[h] # 0
  <2>1. s \in Session!Commands
    BY <1>2
  <2> QED
    BY <1>2, <1>10, <2>1
<1>14. phase = "running"
  BY <1>1, <1>13 DEF BeforeRunning
<1>15. BeforeRunning'
  BY <1>1, <1>2, <1>14 DEF BeforeRunning, Session!HasLivoxLidar
<1>16. SlotConfigured'
  <2>1. \A d \in Devices : Past(d)' = Past(d) /\ \A m : LastPast(d, m)' <=> LastPast(d, m)
    BY <1>2 DEF LastPast, Past, Listed
  <2> QED
    BY <1>1, <1>2, <1>6, <1>8, <2>1 DEF SlotConfigured, Session!ParseEntry
<1>17. SlotAcknowledged'
  <2>1. ASSUME NEW d \in Devices \ {h}
        PROVE  IF map_index'[d] = 0 THEN \A c \in Session!Settings : commands'[d][c] = 0
               ELSE LET l == lidars'[map_index'[d]] IN
                    /\ (\E c \in Session!Settings : commands'[d][c] > 0) =>
                         Session!Given(l.config) \subseteq l.set_bits \union acked'[d]
                    /\ l.state = "Sampling" => Session!Given(l.config) \subseteq acked'[d]
    <3>1. acked'[d] = acked[d] /\ map_index'[d] = map_index[d]
      BY <1>2, <1>7
    <3>2. map_index[d] # 0 => lidars'[map_index[d]] = lidars[map_index[d]]
      BY <1>5, <1>8, <1>9
    <3>3. \A c \in Session!Settings :
            /\ commands[d][c] = 0 => commands'[d][c] = 0
            /\ commands'[d][c] > 0 => commands[d][c] > 0
      BY <1>10 DEF Session!Commands
    <3> QED
      BY <1>1, <3>1, <3>2, <3>3 DEF SlotAcknowledged
  <2>2. Session!Given(lidars[i].config) \subseteq lidars[i].set_bits \union acked[h]
    BY <1>1, <1>2 DEF SlotAcknowledged
  <2>3. lidars[i].state = "Sampling" => Session!Given(lidars[i].config) \subseteq acked[h]
    BY <1>1, <1>2 DEF SlotAcknowledged
  <2>4. /\ Session!Given(lidars'[i].config) \subseteq lidars'[i].set_bits \union acked'[h]
        /\ lidars'[i].state = "Sampling" => Session!Given(lidars'[i].config) \subseteq acked'[h]
    BY <1>5, <1>7, <2>2, <2>3
  <2> QED
    BY <1>2, <2>1, <2>4 DEF SlotAcknowledged, Session!Given
<1>18. SlotSent'
  BY <1>1, <1>2, <1>6, <1>8 DEF SlotSent, Session!Given
<1> QED
  BY <1>11, <1>12, <1>15, <1>16, <1>17, <1>18 DEF SessionInv

LEMMA SessionKeeps ==
  ASSUME SessionInv, Session!Next
  PROVE  SessionInv'
<1>1. commands \in [Devices -> [Session!Commands -> Nat]]
  BY DEF SessionInv, SessionTyped
<1>2. ASSUME NEW h \in Devices, NEW c \in Session!Commands, Session!OtherSucceeds(h, c)
      PROVE  SessionInv'
  <2>1. commands[h][c] > 0 /\ Session!Answered(h, c)
        /\ UNCHANGED <<phase, entry, map_index, lidars, set, acked, infos>>
    BY <1>2 DEF Session!OtherSucceeds
  <2> QED
    BY <1>1, <2>1, AnsweredFacts, FewerKeep
<1>3. ASSUME UNCHANGED <<phase, entry, map_index, lidars, commands, set, acked, infos>>
      PROVE  SessionInv'
  <2>1. \A d \in Devices, b \in Session!Commands : commands[d][b] \in Nat
    BY <1>1
  <2>2. \A d \in Devices, b \in Session!Commands : commands'[d][b] <= commands[d][b]
    BY <1>3, <2>1
  <2> QED
    BY <1>1, <1>3, <2>2, FewerKeep
<1>4. ASSUME NEW h \in Devices, NEW c \in Session!Commands, Session!TimesOut(h, c)
      PROVE  SessionInv'
  BY <1>3, <1>4 DEF Session!TimesOut, Session!vars
<1>5. ASSUME NEW h \in Devices, NEW c \in Session!Commands, Session!Fails(h, c)
      PROVE  SessionInv'
  <2>1. commands[h][c] > 0 /\ UNCHANGED <<phase, entry, map_index, lidars, set, acked, infos>>
        /\ (UNCHANGED commands \/ Session!Answered(h, c))
    BY <1>5 DEF Session!Fails
  <2>2. CASE UNCHANGED commands
    BY <1>3, <2>1, <2>2
  <2>3. CASE Session!Answered(h, c)
    BY <1>1, <2>1, <2>3, AnsweredFacts, FewerKeep
  <2> QED
    BY <2>1, <2>2, <2>3
<1>6. ASSUME NEW h \in Devices, NEW c \in Session!Commands, Session!SettingSucceeds(h, c)
      PROVE  SessionInv'
  <2>1. c \in Session!Settings
    BY <1>6 DEF Session!SettingSucceeds
  <2> QED
    BY <1>6, <2>1, SettingSucceedsKeeps
<1> QED
  BY <1>2, <1>4, <1>5, <1>6, InitLdsLidarKeeps, AddConfiguredKeeps, InfoChangeKeeps DEF Session!Next

(* What the invariant says of the devices of the file: an index is theirs  *)
(* alone, and the slot there holds their last entry.                       *)
LEMMA SessionMeans ==
  ASSUME SessionInv
  PROVE  /\ Session!TypeOK /\ Session!IndexUnique
         /\ Session!SamplingConfigured /\ Session!SentAsConfigured
<1> USE SessionFacts
<1>1. /\ SessionTyped /\ IndexOwned /\ BeforeRunning
      /\ SlotConfigured /\ SlotAcknowledged /\ SlotSent
  BY DEF SessionInv
<1>2. Session!TypeOK
  <2>1. ASSUME NEW j \in Session!Index
        PROVE  lidars[j].set_bits \subseteq Session!Settings /\ lidars[j].state \in {"Off", "Sampling"}
    <3>1. lidars[j] \in Device
      BY <1>1 DEF SessionTyped
    <3> QED
      BY <3>1 DEF Device
  <2>2. ASSUME NEW h \in Devices, NEW c \in Session!Commands
        PROVE  commands[h][c] \in 0 .. MaxInfos
    <3>1. commands[h][c] \in Nat /\ infos[h] \in 0 .. MaxInfos /\ commands[h][c] <= infos[h]
      BY <1>1 DEF SessionTyped
    <3> QED
      BY <3>1
  <2> QED
    BY <1>1, <2>1, <2>2 DEF SessionTyped, Session!TypeOK
<1>3. \A h \in Devices : map_index[h] # 0 => map_index[h] \in Session!Index
  BY <1>1 DEF SessionTyped, Session!Index
<1>4. \A h \in Session!InFile : h \in Devices /\ Listed(h) # {} /\ Listed(h) \subseteq DOMAIN File.lidars
  <2>1. ASSUME NEW h \in Session!InFile PROVE h \in Devices /\ Listed(h) # {}
    <3>1. PICK e \in Session!Entries : e.handle = h
      BY DEF Session!InFile
    <3>2. PICK m \in DOMAIN File.lidars : File.lidars[m].ip /\ e = File.lidars[m]
      BY DEF Session!Entries
    <3>3. File.lidars[m] \in Session!Entry
      OBVIOUS
    <3> QED
      BY <3>1, <3>2, <3>3 DEF Listed, Session!Entry
  <2>2. \A h : Listed(h) \subseteq DOMAIN File.lidars
    BY DEF Listed
  <2> QED
    BY <2>1, <2>2
<1>5. ASSUME NEW h \in Devices, map_index[h] # 0, Listed(h) # {}
      PROVE  lidars[map_index[h]].handle = h
  <2>1. Past(h) # {}
    <3>1. CASE phase = "running"
      <4>1. entry = Len(File.lidars) + 1
        BY <1>1, <1>5, <3>1 DEF BeforeRunning
      <4> QED
        BY <1>5, <4>1 DEF Past, Listed
    <3>2. CASE phase # "running"
      BY <1>1, <1>5, <3>2 DEF BeforeRunning
    <3> QED
      BY <3>1, <3>2
  <2>2. PICK m \in Past(h) : \A k \in Past(h) : k <= m
    <3>1. Past(h) \in SUBSET (0 .. Len(File.lidars))
      BY DEF Past, Listed
    <3> QED
      BY <2>1, <3>1, LargestMember
  <2>3. m \in DOMAIN File.lidars
    BY DEF Past, Listed
  <2> QED
    BY <1>1, <1>5, <2>2, <2>3 DEF SlotConfigured, LastPast
<1>6. Session!IndexUnique
  BY <1>1, <1>4, <1>5 DEF IndexOwned, Session!IndexUnique
<1>7. ASSUME NEW h \in Session!InFile, map_index[h] # 0, phase = "running"
      PROVE  /\ Session!LastEntry(h) \in Session!Entry
             /\ lidars[map_index[h]].config = Session!ParseEntry(Session!LastEntry(h))
  <2>1. h \in Devices /\ Listed(h) # {} /\ Listed(h) \in SUBSET (0 .. Len(File.lidars))
    BY <1>4
  <2>2. entry = Len(File.lidars) + 1
    BY <1>1, <1>7, <2>1 DEF BeforeRunning
  <2>3. Past(h) = Listed(h)
    BY <2>1, <2>2 DEF Past, Listed
  <2>4. \E m \in Listed(h) : \A k \in Listed(h) : k <= m
    BY <2>1, LargestMember
  <2>5. PICK m \in Listed(h) : m = Session!Max(Listed(h)) /\ \A k \in Listed(h) : k <= m
    <3>1. \E m \in Listed(h) : \A k \in Listed(h) : m >= k
      BY <2>1, <2>4
    <3>2. Session!Max(Listed(h)) \in Listed(h) /\ \A k \in Listed(h) : Session!Max(Listed(h)) >= k
      BY <3>1 DEF Session!Max
    <3> QED
      BY <2>1, <3>2
  <2>6. Session!LastEntry(h) = File.lidars[m]
    BY <2>5 DEF Session!LastEntry, Listed
  <2>7. LastPast(h, m) /\ m \in DOMAIN File.lidars
    BY <1>4, <2>3, <2>5 DEF LastPast
  <2> QED
    BY <1>1, <1>7, <2>1, <2>6, <2>7 DEF SlotConfigured
<1>8. ASSUME NEW e \in Session!Entry, NEW s \in Session!Settings
      PROVE  IF e.fields[s] = Session!Absent THEN Session!ParseEntry(e)[s] = -1
             ELSE Session!ParseEntry(e)[s] = e.fields[s] /\ Session!ParseEntry(e)[s] # -1
  <2>1. e.fields \in [Session!Settings -> 0 .. 127 \union {Session!Absent}]
    BY DEF Session!Entry
  <2>2. e.fields[s] \in 0 .. 127 \/ e.fields[s] = Session!Absent
    BY <2>1, Zenon
  <2>3. \A n \in 0 .. 127 : Session!Int8(n) = n /\ n # -1
    BY DEF Session!Int8
  <2>4. e.fields[s] \in 0 .. 127 => Session!Int8(e.fields[s]) = e.fields[s] /\ e.fields[s] # -1
    BY <2>3, Zenon
  <2> QED
    BY <2>2, <2>4 DEF Session!ParseEntry
<1>9. Session!SamplingConfigured
  <2> SUFFICES ASSUME NEW h \in Session!InFile, Session!Samples(h), NEW s \in Session!Settings,
                      Session!LastEntry(h).fields[s] # Session!Absent
               PROVE  s \in acked[h]
    BY DEF Session!SamplingConfigured
  <2>1. map_index[h] # 0 /\ lidars[map_index[h]].state = "Sampling" /\ h \in Devices
    BY <1>4 DEF Session!Samples
  <2>2. phase = "running"
    BY <1>1, <1>3, <2>1 DEF BeforeRunning
  <2>3. s \in Session!Given(lidars[map_index[h]].config)
    BY <1>7, <1>8, <2>1, <2>2 DEF Session!Given
  <2> QED
    BY <1>1, <2>1, <2>3 DEF SlotAcknowledged
<1>10. Session!SentAsConfigured
  <2> SUFFICES ASSUME NEW h \in Session!InFile, NEW s \in Session!Settings,
                      set[h][s] # Session!Absent
               PROVE  set[h][s] = Session!LastEntry(h).fields[s]
    BY DEF Session!SentAsConfigured
  <2>1. /\ map_index[h] # 0 /\ phase = "running"
        /\ s \in Session!Given(lidars[map_index[h]].config)
        /\ set[h][s] = lidars[map_index[h]].config[s]
    BY <1>1, <1>4 DEF SlotSent
  <2> QED
    BY <1>7, <1>8, <2>1 DEF Session!Given
<1> QED
  BY <1>2, <1>6, <1>9, <1>10

(* LivoxLidarCallback, CacheIndex, LdsLidar::InitLdsLidar: for every file  *)
(* of the configuration, any number of devices and of announcements, any   *)
(* size of the table and any failures, a device that samples has           *)
(* acknowledged every setting that its last entry gives, with the values   *)
(* of that entry, at an index that is its own.                             *)
THEOREM SamplingIsConfigured == DriversSpec => []SamplingConfigured
<1>1. DriversInit => SessionKept
  BY SessionStarts DEF DriversInit, SessionKept
<1>2. SessionKept /\ [DriversNext]_allVars => SessionKept'
  <2> SUFFICES ASSUME SessionKept, [DriversNext]_allVars, part' = "session"
               PROVE  SessionInv'
    BY DEF SessionKept
  <2>1. part' = part
    BY DEF DriversNext, Only, Rests, allVars
  <2>2. SessionInv
    BY <2>1 DEF SessionKept
  <2>3. Session!Next \/ UNCHANGED sessionVars
    <3>1. ASSUME NEW g \in Groups \ {"session"}, Only(g) PROVE UNCHANGED sessionVars
      <4>1. Still("session")
        BY <3>1 DEF Only, Groups
      <4> QED
        BY <4>1 DEF Still
    <3>2. {"stamps", "frames", "queues", "parser", "crc", "can", "converters"}
            \subseteq Groups \ {"session"}
      BY DEF Groups
    <3>3. UNCHANGED allVars => UNCHANGED sessionVars
      BY DEF allVars
    <3> QED
      BY <3>1, <3>2, <3>3 DEF DriversNext, Rests
  <2>4. CASE UNCHANGED sessionVars
    <3>1. commands \in [Devices -> [Session!Commands -> Nat]]
      BY <2>2 DEF SessionInv, SessionTyped
    <3>2. \A d \in Devices, b \in Session!Commands : commands[d][b] \in Nat
      BY <3>1
    <3>3. UNCHANGED <<phase, entry, map_index, lidars, commands, set, acked, infos>>
      BY <2>4 DEF sessionVars
    <3>4. \A d \in Devices, b \in Session!Commands : commands'[d][b] <= commands[d][b]
      BY <3>2, <3>3
    <3> QED
      BY <2>2, <3>1, <3>3, <3>4, FewerKeep
  <2> QED
    BY <2>2, <2>3, <2>4, SessionKeeps
<1>3. SessionKept => SamplingConfigured
  BY SessionMeans DEF SessionKept, SamplingConfigured
<1> QED
  BY <1>1, <1>2, <1>3, PTL DEF DriversSpec

-----------------------------------------------------------------------------
(* Converters.  What each node has made of the cloud it received.          *)
TheCloud ==
  /\ points.layout \in Layouts /\ points.shape \in Shapes
  /\ points.stamp \in Stamps /\ points.times \in Times
Made ==
  /\ relative = <<>> \/ relative = [i \in 1 .. Convert!Points |->
       Convert!Double(points.times[i]) - Convert!Double(points.stamp)]
  /\ custom = <<>> \/ custom = [i \in 1 .. Convert!Points |->
       Convert!to_offset_time(Convert!Double(points.times[i]), Convert!Double(points.stamp))]
ConverterInv == TheCloud /\ Made /\ Convert!ReadsInside
ConvertersKept == part = "converters" => ConverterInv

LEMMA CloudFacts ==
  ASSUME TheCloud
  PROVE  /\ Ulp \in Nat \ {0} /\ MaxOffset \in Nat /\ points.stamp \in Int
         /\ points.layout.step \in Nat
         /\ \A f \in DOMAIN points.layout.offsets : points.layout.offsets[f] \in Nat
         /\ points.shape.width \in Nat /\ points.shape.height \in Nat
         /\ points.shape.row_step \in Nat /\ points.shape.size \in Nat
         /\ points.times \in Seq(Int)
         /\ \A i, j \in DOMAIN points.times : i < j => points.times[i] <= points.times[j]
         /\ points.shape.height * points.shape.width <= Len(points.times)
BY ReceiverAssumption DEF TheCloud, Convert!PointConverterAssumption

(* Rounding to the nearest double keeps the order of times.                *)
LEMMA DoubleRises ==
  ASSUME Ulp \in Nat \ {0}
  PROVE  /\ \A t \in Int : Convert!Double(t) \in Int
         /\ \A t, u \in Int : t <= u => Convert!Double(t) <= Convert!Double(u)
<1> DEFINE q(t) == t \div Ulp
           r(t) == t % Ulp
           n(t) == IF 2 * r(t) < Ulp \/ (2 * r(t) = Ulp /\ q(t) % 2 = 0) THEN q(t) ELSE q(t) + 1
<1>1. \A t \in Int : /\ q(t) \in Int /\ r(t) \in 0 .. Ulp - 1 /\ t = Ulp * q(t) + r(t)
  OBVIOUS
<1>2. \A t : Convert!Double(t) = Ulp * n(t)
  BY DEF Convert!Double
<1> HIDE DEF q, r
<1>3. \A t \in Int : n(t) \in Int /\ q(t) <= n(t) /\ n(t) <= q(t) + 1
  <2> TAKE t \in Int
  <2>1. n(t) = q(t) \/ n(t) = q(t) + 1
    OBVIOUS
  <2> HIDE DEF n
  <2> QED
    BY <1>1, <2>1
<1>7. \A m \in Int : Ulp * m \in Int
  OBVIOUS
<1>4. ASSUME NEW t \in Int, NEW u \in Int, t <= u PROVE n(t) <= n(u)
  <2>1. q(t) <= q(u)
    <3> SUFFICES ASSUME q(u) + 1 <= q(t) PROVE FALSE
      BY <1>1
    <3>1. Ulp * (q(u) + 1) <= Ulp * q(t)
      BY <1>1
    <3>2. Ulp * (q(u) + 1) = Ulp * q(u) + Ulp
      BY <1>1
    <3> DEFINE a == Ulp * q(u)
               b == Ulp * q(t)
    <3>5. a \in Int /\ b \in Int
      BY <1>1, <1>7
    <3>3. a + Ulp <= b
      BY <3>1, <3>2
    <3>4. t = b + r(t) /\ u = a + r(u) /\ r(t) \in 0 .. Ulp - 1 /\ r(u) \in 0 .. Ulp - 1
      BY <1>1
    <3> HIDE DEF a, b
    <3> QED
      BY <1>4, <3>3, <3>4, <3>5
  <2>2. CASE q(t) = q(u)
    <3>1. r(t) <= r(u)
      <4> DEFINE a == Ulp * q(u)
      <4>1. a \in Int /\ t = a + r(t) /\ u = a + r(u)
        BY <1>1, <2>2
      <4> HIDE DEF a
      <4>2. r(t) \in Int /\ r(u) \in Int
        BY <1>1
      <4> QED
        BY <1>4, <4>1, <4>2
    <3>2. r(t) \in Int /\ r(u) \in Int
      BY <1>1
    <3>3. CASE n(t) = q(t)
      BY <1>3, <2>2, <3>3
    <3>4. CASE n(t) = q(t) + 1 /\ n(t) # q(t)
      <4>1. ~(2 * r(t) < Ulp) /\ ~(2 * r(t) = Ulp /\ q(t) % 2 = 0)
        BY <3>4
      <4>2. ~(2 * r(u) < Ulp) /\ ~(2 * r(u) = Ulp /\ q(u) % 2 = 0)
        BY <2>2, <3>1, <3>2, <4>1
      <4>3. n(u) = q(u) + 1
        BY <4>2
      <4> QED
        BY <1>1, <2>2, <3>4, <4>3
    <3> QED
      BY <3>3, <3>4
  <2>3. CASE q(t) < q(u)
    <3>1. q(t) + 1 <= q(u)
      BY <1>1, <2>3
    <3> HIDE DEF n
    <3> QED
      BY <1>1, <1>3, <3>1
  <2> QED
    BY <1>1, <2>1, <2>2, <2>3
<1> HIDE DEF n
<1>5. \A m, k \in Int : m <= k => Ulp * m <= Ulp * k
  OBVIOUS
<1> QED
  BY <1>2, <1>3, <1>4, <1>5, <1>7

(* A point of a row and a column in a cloud that passed the checks is      *)
(* inside its data.                                                        *)
LEMMA InsideRows ==
  ASSUME NEW h \in Nat, NEW w \in Nat, NEW stride \in Nat, NEW step \in Nat, NEW size \in Nat,
         NEW row \in 0 .. h - 1, NEW col \in 0 .. w - 1, NEW last_byte \in Nat, last_byte <= step,
         h # 0 => (h - 1) * stride + w * step <= size
  PROVE  row * stride + col * step + last_byte <= size
<1>1. row \in Nat /\ col \in Nat /\ h # 0 /\ w # 0 /\ row <= h - 1 /\ col + 1 <= w
  OBVIOUS
<1>2. row * stride <= (h - 1) * stride
  BY <1>1
<1>3. (col + 1) * step <= w * step
  BY <1>1
<1>4. (col + 1) * step = col * step + step
  BY <1>1
<1> DEFINE a == row * stride
           b == (h - 1) * stride
           c == col * step
           d == w * step
<1>5. a \in Int /\ b \in Int /\ c \in Int /\ d \in Int
  BY <1>1
<1>6. a <= b /\ c + step <= d /\ b + d <= size
  BY <1>1, <1>2, <1>3, <1>4
<1> HIDE DEF a, b, c, d
<1>7. a + c + last_byte <= size
  BY <1>5, <1>6
<1> QED
  BY <1>7 DEF a, c

LEMMA WalkInside ==
  ASSUME TheCloud, NEW needed, Convert!Valid(needed), needed \subseteq DOMAIN Convert!Sizes
  PROVE  \A e \in Convert!Walk(needed) : e <= points.shape.size
<1> DEFINE shape == points.shape
           layout == points.layout
<1>1. /\ layout.step \in Nat /\ \A f \in DOMAIN layout.offsets : layout.offsets[f] \in Nat
      /\ shape.width \in Nat /\ shape.height \in Nat
      /\ shape.row_step \in Nat /\ shape.size \in Nat
  BY CloudFacts
<1>2. \A f \in needed : /\ layout.offsets[f] \in Nat /\ Convert!Sizes[f] \in Nat
                        /\ layout.offsets[f] + Convert!Sizes[f] <= layout.step
  <2>1. \A f \in DOMAIN Convert!Sizes : Convert!Sizes[f] \in Nat
    BY DEF Convert!Sizes
  <2> QED
    BY <1>1, <2>1 DEF Convert!Valid, Convert!FieldOk
<1>3. shape.height # 0 =>
        (shape.height - 1) * shape.row_step + shape.width * layout.step <= shape.size
  BY DEF Convert!Valid, Convert!RequiredSize
<1> SUFFICES ASSUME NEW row \in 0 .. shape.height - 1, NEW col \in 0 .. shape.width - 1,
                    NEW f \in needed
             PROVE  row * shape.row_step + col * layout.step + layout.offsets[f]
                      + Convert!Sizes[f] <= shape.size
  BY DEF Convert!Walk
<1> DEFINE last_byte == layout.offsets[f] + Convert!Sizes[f]
           base == row * shape.row_step + col * layout.step
<1>4. last_byte \in Nat /\ last_byte <= layout.step
  BY <1>2
<1>5. base \in Int /\ base + layout.offsets[f] + Convert!Sizes[f] = base + last_byte
  BY <1>1, <1>2
<1> HIDE DEF last_byte
<1>6. base + last_byte <= shape.size
  <2> HIDE DEF shape, layout
  <2> QED
    BY <1>1, <1>3, <1>4, InsideRows
<1> HIDE DEF base
<1>7. base + layout.offsets[f] + Convert!Sizes[f] <= shape.size
  BY <1>5, <1>6
<1> QED
  BY <1>7 DEF base

LEMMA ConvertersStart ==
  ASSUME Convert!Init
  PROVE  ConverterInv
BY DEF Convert!Init, ConverterInv, TheCloud, Made, Convert!ReadsInside

LEMMA ConvertKeeps ==
  ASSUME ConverterInv, Convert!Next
  PROVE  ConverterInv'
<1>1. points' = points
  BY DEF Convert!Next, Convert!convert, Convert!convert_custom
<1>2. TheCloud'
  BY <1>1 DEF ConverterInv, TheCloud
<1>3. /\ Convert!Points' = Convert!Points
      /\ \A t : Convert!Double(t)' = Convert!Double(t)
  BY <1>1 DEF Convert!Points
<1>4. \A e \in reads' : e <= points.shape.size
  <2>1. \A e \in reads : e <= points.shape.size
    BY DEF ConverterInv, Convert!ReadsInside
  <2>2. CASE Convert!convert
    <3>1. CASE UNCHANGED reads
      BY <2>1, <3>1
    <3>2. CASE Convert!validate_input /\ reads' = reads \union Convert!Walk(Convert!xyzitFields)
      <4>1. Convert!Valid(Convert!xyzitFields) /\ Convert!xyzitFields \subseteq DOMAIN Convert!Sizes
        BY <3>2 DEF Convert!validate_input, Convert!xyzitFields, Convert!Sizes
      <4>2. \A e \in Convert!Walk(Convert!xyzitFields) : e <= points.shape.size
        BY <4>1, WalkInside DEF ConverterInv
      <4> QED
        BY <2>1, <3>2, <4>2
    <3> QED
      BY <2>2, <3>1, <3>2 DEF Convert!convert
  <2>3. CASE Convert!convert_custom
    <3>1. CASE UNCHANGED reads
      BY <2>1, <3>1
    <3>2. CASE Convert!validate /\ reads' = reads \union Convert!Walk(DOMAIN Convert!Sizes)
      <4>1. Convert!Valid(DOMAIN Convert!Sizes)
        BY <3>2 DEF Convert!validate
      <4>2. \A e \in Convert!Walk(DOMAIN Convert!Sizes) : e <= points.shape.size
        BY <4>1, WalkInside DEF ConverterInv
      <4> QED
        BY <2>1, <3>2, <4>2
    <3> QED
      BY <2>3, <3>1, <3>2 DEF Convert!convert_custom
  <2> QED
    BY <2>2, <2>3 DEF Convert!Next
<1>5. Convert!ReadsInside'
  BY <1>1, <1>4 DEF Convert!ReadsInside
<1>6. Made'
  <2>1. Made
    BY DEF ConverterInv
  <2>2. CASE Convert!convert
    BY <1>1, <2>1, <2>2 DEF Made, Convert!convert, Convert!Points
  <2>3. CASE Convert!convert_custom
    BY <1>1, <2>1, <2>3 DEF Made, Convert!convert_custom, Convert!Points
  <2> QED
    BY <2>2, <2>3 DEF Convert!Next
<1> QED
  BY <1>2, <1>5, <1>6 DEF ConverterInv

LEMMA ConvertersMean ==
  ASSUME ConverterInv
  PROVE  Convert!ConvertersAgree /\ Convert!ReadsInside /\ Convert!OffsetsInOrder
<1> DEFINE n == Convert!Points
           D(t) == Convert!Double(t)
           times == points.times
           base == D(points.stamp)
<1>1. TheCloud /\ Made /\ Convert!ReadsInside
  BY DEF ConverterInv
<1>2. /\ Ulp \in Nat \ {0} /\ MaxOffset \in Nat /\ points.stamp \in Int
      /\ times \in Seq(Int) /\ n \in Nat /\ n <= Len(times)
      /\ \A i, j \in DOMAIN times : i < j => times[i] <= times[j]
  <2>1. /\ points.shape.width \in Nat /\ points.shape.height \in Nat
        /\ points.shape.height * points.shape.width <= Len(points.times)
    BY <1>1, CloudFacts
  <2>2. points.shape.height * points.shape.width \in Nat
    BY <2>1
  <2> QED
    BY <1>1, <2>1, <2>2, CloudFacts DEF Convert!Points
<1>3. \A i \in 1 .. n : i \in DOMAIN times /\ times[i] \in Int
  BY <1>2
<1>4. base \in Int /\ \A i \in 1 .. n : D(times[i]) \in Int
  BY <1>2, <1>3, DoubleRises
<1>5. \A i, j \in 1 .. n : i < j => D(times[i]) <= D(times[j])
  BY <1>2, <1>3, DoubleRises
<1> DEFINE off(i) == Convert!to_offset_time(D(times[i]), base)
<1>6. \A i : off(i) = IF D(times[i]) - base <= 0 THEN 0
                      ELSE IF D(times[i]) - base > MaxOffset THEN MaxOffset
                      ELSE D(times[i]) - base
  BY DEF Convert!to_offset_time
<1>7. /\ relative = <<>> \/ relative = [i \in 1 .. n |-> D(times[i]) - base]
      /\ custom = <<>> \/ custom = [i \in 1 .. n |-> off(i)]
  BY <1>1 DEF Made
<1> HIDE DEF n, D, times, base, off
<1>8. Convert!OffsetsInOrder
  <2> SUFFICES \A i, j \in 1 .. n : i < j => off(i) <= off(j)
    <3>1. CASE custom = <<>>
      BY <3>1 DEF Convert!OffsetsInOrder
    <3>2. CASE custom = [i \in 1 .. n |-> off(i)]
      BY <3>2 DEF Convert!OffsetsInOrder
    <3> QED
      BY <1>7, <3>1, <3>2
  <2> SUFFICES ASSUME NEW i \in 1 .. n, NEW j \in 1 .. n, i < j PROVE off(i) <= off(j)
    OBVIOUS
  <2> DEFINE x == D(times[i]) - base
             y == D(times[j]) - base
  <2>1. x \in Int /\ y \in Int /\ x <= y
    BY <1>4, <1>5
  <2>2. /\ off(i) = IF x <= 0 THEN 0 ELSE IF x > MaxOffset THEN MaxOffset ELSE x
        /\ off(j) = IF y <= 0 THEN 0 ELSE IF y > MaxOffset THEN MaxOffset ELSE y
    BY <1>6, Zenon
  <2> HIDE DEF x, y
  <2> QED
    BY <1>2, <2>1, <2>2
<1>9. Convert!ConvertersAgree
  <2> SUFFICES ASSUME custom = [i \in 1 .. n |-> off(i)],
                      relative = [i \in 1 .. n |-> D(times[i]) - base]
               PROVE  /\ DOMAIN custom = DOMAIN relative
                      /\ \A i \in DOMAIN custom :
                           relative[i] \in 0 .. MaxOffset => custom[i] = relative[i]
    BY <1>7 DEF Convert!ConvertersAgree
  <2>1. \A i \in 1 .. n : D(times[i]) - base \in 0 .. MaxOffset => off(i) = D(times[i]) - base
    <3> SUFFICES ASSUME NEW i \in 1 .. n, D(times[i]) - base \in 0 .. MaxOffset
                 PROVE  off(i) = D(times[i]) - base
      OBVIOUS
    <3> DEFINE x == D(times[i]) - base
    <3>1. x \in Int
      BY <1>4
    <3>2. off(i) = IF x <= 0 THEN 0 ELSE IF x > MaxOffset THEN MaxOffset ELSE x
      BY <1>6, Zenon
    <3>3. x \in 0 .. MaxOffset
      OBVIOUS
    <3> HIDE DEF x
    <3>4. off(i) = x
      BY <1>2, <3>1, <3>2, <3>3
    <3> QED
      BY <3>4 DEF x
  <2> QED
    BY <2>1
<1> QED
  BY <1>1, <1>8, <1>9

(* The two nodes, for any layouts and dimensions of clouds, any spacing of *)
(* the doubles and any limit of the offset: what they read lies inside the *)
(* data of the cloud, the offsets keep the order of the points, and the    *)
(* two agree on each time that the offset can hold.                        *)
THEOREM ConvertersDoAgree == DriversSpec => []ConvertersAgree
<1>1. DriversInit => ConvertersKept
  BY ConvertersStart DEF DriversInit, ConvertersKept
<1>2. ConvertersKept /\ [DriversNext]_allVars => ConvertersKept'
  <2> SUFFICES ASSUME ConvertersKept, [DriversNext]_allVars, part' = "converters"
               PROVE  ConverterInv'
    BY DEF ConvertersKept
  <2>1. part' = part
    BY DEF DriversNext, Only, Rests, allVars
  <2>2. ConverterInv
    BY <2>1 DEF ConvertersKept
  <2>3. Convert!Next \/ UNCHANGED converterVars
    <3>1. ASSUME NEW g \in Groups \ {"converters"}, Only(g) PROVE UNCHANGED converterVars
      <4>1. Still("converters")
        BY <3>1 DEF Only, Groups
      <4> QED
        BY <4>1 DEF Still
    <3>2. {"stamps", "frames", "queues", "session", "parser", "crc", "can"}
            \subseteq Groups \ {"converters"}
      BY DEF Groups
    <3>3. UNCHANGED allVars => UNCHANGED converterVars
      BY DEF allVars
    <3> QED
      BY <3>1, <3>2, <3>3 DEF DriversNext, Rests
  <2>4. CASE UNCHANGED converterVars
    BY <2>2, <2>4 DEF converterVars, ConverterInv, TheCloud, Made, Convert!ReadsInside, Convert!Points
  <2> QED
    BY <2>2, <2>3, <2>4, ConvertKeeps
<1>3. ConvertersKept => ConvertersAgree
  BY ConvertersMean DEF ConvertersKept, ConvertersAgree
<1> QED
  BY <1>1, <1>2, <1>3, PTL DEF DriversSpec

-----------------------------------------------------------------------------
(* Frames.  The types of the histories, too; at most one packet is taken.  *)
CloudPoint == [time : Nat, x : Int]
FramesTyped(p) ==
  LET Lidars == FrameSettings[p].lidars
  IN /\ Frames(p)!TypeOK
     /\ raw \in Seq(Frames(p)!Packet) /\ Len(raw) <= 1
     /\ cloud \in [Lidars -> Seq(CloudPoint)]
     /\ out \in [Lidars -> Seq(Nat)] /\ sent \in [Lidars -> Seq(Nat)]
     /\ frames \in [Lidars -> Nat] /\ unsynced \in BOOLEAN
     /\ packets \in [Lidars -> [count : Nat, stamp : Nat]]

(* The packets of a lidar under way are in the order of their stamps, none *)
(* before the first point that waits in the cloud or at time 0.            *)
Rising(l, ps, c, stamp) ==
  /\ \A j \in DOMAIN ps : ps[j].lidar = l =>
       /\ ps[j].stamp # 0 /\ ps[j].stamp <= stamp
       /\ c # <<>> => c[1].time < ps[j].stamp
       /\ \A k \in DOMAIN ps : ps[k].lidar = l /\ j < k => ps[j].stamp < ps[k].stamp
  /\ c # <<>> => c[1].time <= stamp
  /\ \A i \in DOMAIN c : c[i].time # 0

StampsRise(p) ==
  \A l \in FrameSettings[p].lidars : Rising(l, Frames(p)!UnderWay, cloud[l], packets[l].stamp)

(* With synchronised stamps throughout, a lidar has no axis until its      *)
(* first packet is processed, and then the boundary ahead is some number   *)
(* of periods after the first point, with fewer frames before it.          *)
OnAxis(p, s, published, boundary) ==
  /\ s # <<>>
  /\ \E k \in Nat : /\ boundary = s[1] + k * FrameSettings[p].interval
                    /\ published < k

Axis(p, s, o, c, boundary, published) ==
  /\ boundary = 0 => c = <<>> /\ o = <<>> /\ published = 0
  /\ boundary # 0 =>
       /\ OnAxis(p, s, published, boundary)
       /\ \A i \in DOMAIN c : c[i].time < boundary

AxisKept(p) ==
  ~unsynced =>
    /\ Frames(p)!UnderWay # <<>> => sync
    /\ \A l \in FrameSettings[p].lidars :
         Axis(p, sent[l], out[l], cloud[l], next_publish[l], frames[l])

(* A point is translated as a packet of some kind is.                      *)
Shifts(p, c) ==
  \A i \in DOMAIN c : \E kind \in FrameSettings[p].kinds \intersect Frames(p)!KnownKinds :
    c[i].x = Frames(p)!Compensate(kind)

Translated(p) == \A l \in FrameSettings[p].lidars : Shifts(p, cloud[l])

FramesInv(p) ==
  /\ FramesTyped(p) /\ Frames(p)!PointsConserved /\ StampsRise(p) /\ AxisKept(p)
  /\ Translated(p)
FramesKept == \A q \in Timers : part = q => FramesInv(q)

LEMMA FrameFacts ==
  ASSUME NEW p \in Timers
  PROVE  /\ FrameSettings[p].interval \in Nat \ {0} /\ FrameSettings[p].point_step \in Nat
         /\ FrameSettings[p].gaps \subseteq Nat \ {0} /\ FrameSettings[p].max_lag \in Nat
         /\ FrameSettings[p].sync \subseteq BOOLEAN
         /\ FrameSettings[p].translation \in Int /\ FrameSettings[p].position \in Int
         /\ \A S : Frames(p)!Cardinality(S) = Cardinality(S)
<1>1. Frames(p)!FrameTimerAssumption
  BY FramesAssumption
<1>2. \A S : Frames(p)!Cardinality(S) = Cardinality(S)
  BY DEF Frames!Cardinality, Cardinality
<1> QED
  BY <1>1, <1>2 DEF Frames!FrameTimerAssumption

(* The points that a packet brings.                                        *)
Brings(p, e, l) == e.lidar = l /\ e.kind \in Frames(p)!KnownKinds

LEMMA PointsOfFacts ==
  ASSUME NEW p \in Timers, NEW e \in Frames(p)!Packet
  PROVE  /\ Frames(p)!PointsOf(e) \in Seq(CloudPoint)
         /\ e.kind \notin Frames(p)!KnownKinds => Frames(p)!PointsOf(e) = <<>>
         /\ e.kind \in Frames(p)!KnownKinds =>
              /\ Len(Frames(p)!PointsOf(e)) = 2
              /\ Frames(p)!PointsOf(e)[1].time = e.stamp
              /\ Frames(p)!PointsOf(e)[2].time = e.stamp + FrameSettings[p].point_step
              /\ \A i \in 1 .. 2 : Frames(p)!PointsOf(e)[i].x = Frames(p)!Compensate(e.kind)
<1>1. e.stamp \in Nat /\ FrameSettings[p].point_step \in Nat
  BY FrameFacts DEF Frames!Packet
<1>2. ASSUME NEW t \in Int PROVE t \div 10 \in Int
  OBVIOUS
<1>3. Frames(p)!ExtParam \in Int
  BY <1>2, FrameFacts DEF Frames!ExtParam
<1>4. Frames(p)!RawUnit(e.kind) \in {1, 10}
  BY DEF Frames!RawUnit
<1>5. Frames(p)!Compensate(e.kind) \in Int
  <2>1. FrameSettings[p].position \div Frames(p)!RawUnit(e.kind) \in Int
    BY <1>4, FrameFacts
  <2> QED
    BY <1>3, <1>4, <2>1 DEF Frames!Compensate
<1>6. CASE e.kind \notin Frames(p)!KnownKinds
  BY <1>6 DEF Frames!PointsOf
<1>7. CASE e.kind \in Frames(p)!KnownKinds
  <2> DEFINE x == Frames(p)!Compensate(e.kind)
             two == [i \in 1 .. 2 |-> [time |-> e.stamp + (i - 1) * FrameSettings[p].point_step,
                                       x |-> x]]
  <2>1. Frames(p)!PointsOf(e) = two
    BY <1>7 DEF Frames!PointsOf
  <2>2. x \in Int
    BY <1>5
  <2> HIDE DEF x
  <2>3. /\ e.stamp + (1 - 1) * FrameSettings[p].point_step = e.stamp
        /\ e.stamp + (2 - 1) * FrameSettings[p].point_step = e.stamp + FrameSettings[p].point_step
    BY <1>1
  <2>4. two[1] = [time |-> e.stamp, x |-> x]
        /\ two[2] = [time |-> e.stamp + FrameSettings[p].point_step, x |-> x]
    BY <2>3
  <2>5. two \in Seq(CloudPoint) /\ Len(two) = 2
    <3>1. \A i \in 1 .. 2 : two[i] \in CloudPoint
      <4>1. two[1] \in CloudPoint /\ two[2] \in CloudPoint
        BY <1>1, <2>2, <2>4 DEF CloudPoint
      <4>2. \A i \in 1 .. 2 : i = 1 \/ i = 2
        OBVIOUS
      <4> QED
        BY <4>1, <4>2, Zenon
    <3> QED
      BY <3>1
  <2> QED
    BY <1>7, <2>1, <2>4, <2>5 DEF x
<1> QED
  BY <1>6, <1>7

(* How many packets bring points of a lidar, as packets come and go.       *)
LEMMA BringingFacts ==
  ASSUME NEW p \in Timers, NEW ps \in Seq(Frames(p)!Packet), NEW l
  PROVE  /\ Frames(p)!Bringing(ps, l) \subseteq 1 .. Len(ps)
         /\ IsFiniteSet(Frames(p)!Bringing(ps, l))
         /\ Cardinality(Frames(p)!Bringing(ps, l)) \in Nat
         /\ \A k \in Nat : /\ IsFiniteSet({j \in Frames(p)!Bringing(ps, l) : j < k})
                           /\ Frames(p)!PointsBefore(ps, l, k) \in Nat
<1>1. Frames(p)!Bringing(ps, l) \subseteq 1 .. Len(ps) /\ IsFiniteSet(1 .. Len(ps))
  BY FS_Interval DEF Frames!Bringing
<1>2. ASSUME NEW T, T \subseteq 1 .. Len(ps)
      PROVE  IsFiniteSet(T) /\ Cardinality(T) \in Nat
  BY <1>1, <1>2, FS_Subset, FS_CardinalityType
<1>3. ASSUME NEW k \in Nat
      PROVE  /\ IsFiniteSet({j \in Frames(p)!Bringing(ps, l) : j < k})
             /\ Frames(p)!PointsBefore(ps, l, k) \in Nat
  <2>1. {j \in Frames(p)!Bringing(ps, l) : j < k} \subseteq 1 .. Len(ps)
    BY <1>1
  <2> QED
    BY <1>2, <2>1, FrameFacts DEF Frames!PointsBefore
<1> QED
  BY <1>1, <1>2, <1>3

LEMMA BringingAppend ==
  ASSUME NEW p \in Timers, NEW ps \in Seq(Frames(p)!Packet), NEW e \in Frames(p)!Packet, NEW l
  PROVE  LET B == Frames(p)!Bringing(ps, l)
             C == Frames(p)!Bringing(Append(ps, e), l)
         IN  /\ C = B \union (IF Brings(p, e, l) THEN {Len(ps) + 1} ELSE {})
             /\ Cardinality(C) = Cardinality(B) + (IF Brings(p, e, l) THEN 1 ELSE 0)
             /\ \A k \in B : Frames(p)!PointsBefore(Append(ps, e), l, k)
                               = Frames(p)!PointsBefore(ps, l, k)
             /\ Brings(p, e, l) =>
                  Frames(p)!PointsBefore(Append(ps, e), l, Len(ps) + 1) = 2 * Cardinality(B)
<1> DEFINE B == Frames(p)!Bringing(ps, l)
           C == Frames(p)!Bringing(Append(ps, e), l)
<1>1. Append(ps, e) \in Seq(Frames(p)!Packet) /\ Len(Append(ps, e)) = Len(ps) + 1
      /\ Append(ps, e)[Len(ps) + 1] = e /\ \A k \in 1 .. Len(ps) : Append(ps, e)[k] = ps[k]
      /\ Len(ps) \in Nat
  OBVIOUS
<1>2. C = B \union (IF Brings(p, e, l) THEN {Len(ps) + 1} ELSE {})
  <2>1. \A k \in 1 .. Len(ps) : k \in C <=> k \in B
    BY <1>1 DEF Frames!Bringing
  <2>2. Len(ps) + 1 \in C <=> Brings(p, e, l)
    BY <1>1 DEF Frames!Bringing, Brings
  <2>3. C \subseteq 1 .. (Len(ps) + 1) /\ B \subseteq 1 .. Len(ps)
    BY <1>1, BringingFacts
  <2> HIDE DEF B, C
  <2>4. \A k \in 1 .. (Len(ps) + 1) : k \in 1 .. Len(ps) \/ k = Len(ps) + 1
    BY <1>1
  <2>5. Len(ps) + 1 \notin 1 .. Len(ps) /\ 1 .. Len(ps) \subseteq 1 .. (Len(ps) + 1)
    BY <1>1
  <2>6. CASE Brings(p, e, l)
    BY <2>1, <2>2, <2>3, <2>4, <2>5, <2>6
  <2>7. CASE ~Brings(p, e, l)
    BY <2>1, <2>2, <2>3, <2>4, <2>5, <2>7
  <2> QED
    BY <2>6, <2>7
<1>3. B \subseteq 1 .. Len(ps) /\ IsFiniteSet(B) /\ Cardinality(B) \in Nat
  BY BringingFacts
<1> HIDE DEF B, C
<1>4. Cardinality(C) = Cardinality(B) + (IF Brings(p, e, l) THEN 1 ELSE 0)
  <2>1. CASE Brings(p, e, l)
    <3>1. Len(ps) + 1 \notin B
      BY <1>1, <1>3
    <3> QED
      BY <1>2, <1>3, <2>1, <3>1, FS_AddElement
  <2>2. CASE ~Brings(p, e, l)
    BY <1>2, <1>3, <2>2
  <2> QED
    BY <2>1, <2>2
<1>5. ASSUME NEW k \in B
      PROVE  Frames(p)!PointsBefore(Append(ps, e), l, k) = Frames(p)!PointsBefore(ps, l, k)
  <2>1. {j \in C : j < k} = {j \in B : j < k}
    BY <1>1, <1>2, <1>3
  <2> QED
    BY <2>1 DEF Frames!PointsBefore, B, C
<1>6. ASSUME Brings(p, e, l)
      PROVE  Frames(p)!PointsBefore(Append(ps, e), l, Len(ps) + 1) = 2 * Cardinality(B)
  <2>1. {j \in C : j < Len(ps) + 1} = B
    BY <1>1, <1>2, <1>3
  <2> QED
    BY <2>1, FrameFacts DEF Frames!PointsBefore, C
<1> QED
  BY <1>2, <1>4, <1>5, <1>6 DEF B, C

LEMMA Shifted ==
  ASSUME NEW S \in SUBSET (Nat \ {0}), IsFiniteSet(S)
  PROVE  LET T == {k \in Nat \ {0} : k + 1 \in S}
         IN  IsFiniteSet(T) /\ Cardinality(T) = Cardinality(S) - (IF 1 \in S THEN 1 ELSE 0)
<1> DEFINE T == {k \in Nat \ {0} : k + 1 \in S}
           R == S \ {1}
           f == [k \in R |-> k - 1]
<1>1. f \in Bijection(R, T)
  <2>1. f \in [R -> T]
    OBVIOUS
  <2>2. \A a, b \in R : f[a] = f[b] => a = b
    OBVIOUS
  <2>3. \A k \in T : k + 1 \in R /\ f[k + 1] = k
    OBVIOUS
  <2> HIDE DEF f, R, T
  <2> QED
    BY <2>1, <2>2, <2>3, Zenon DEF Bijection, Injection, Surjection, IsInjective
<1>2. IsFiniteSet(R) /\ Cardinality(R) = Cardinality(S) - (IF 1 \in S THEN 1 ELSE 0)
  <2>1. CASE 1 \in S
    BY <2>1, FS_RemoveElement
  <2>2. CASE 1 \notin S
    <3>1. R = S
      BY <2>2
    <3>2. Cardinality(S) \in Nat
      BY FS_CardinalityType
    <3> HIDE DEF R
    <3> QED
      BY <2>2, <3>1, <3>2
  <2> QED
    BY <2>1, <2>2
<1>3. IsFiniteSet(T) /\ Cardinality(T) = Cardinality(R)
  <2>1. ExistsBijection(R, T)
    BY <1>1 DEF ExistsBijection
  <2> HIDE DEF f, R, T
  <2> QED
    BY <1>2, <2>1, FS_Bijection
<1> QED
  BY <1>2, <1>3

LEMMA BringingTail ==
  ASSUME NEW p \in Timers, NEW ps \in Seq(Frames(p)!Packet), ps # <<>>, NEW l
  PROVE  LET B == Frames(p)!Bringing(ps, l)
             C == Frames(p)!Bringing(Tail(ps), l)
             one == IF Brings(p, ps[1], l) THEN 1 ELSE 0
         IN  /\ \A k \in Nat \ {0} : k \in C <=> k + 1 \in B
             /\ 1 \in B <=> Brings(p, ps[1], l)
             /\ Cardinality(C) = Cardinality(B) - one
             /\ \A k \in C : Frames(p)!PointsBefore(Tail(ps), l, k)
                               = Frames(p)!PointsBefore(ps, l, k + 1) - 2 * one
<1> DEFINE B == Frames(p)!Bringing(ps, l)
           C == Frames(p)!Bringing(Tail(ps), l)
           one == IF Brings(p, ps[1], l) THEN 1 ELSE 0
<1>1. /\ Tail(ps) \in Seq(Frames(p)!Packet) /\ Len(Tail(ps)) = Len(ps) - 1 /\ Len(ps) \in Nat \ {0}
      /\ \A k \in 1 .. Len(ps) - 1 : Tail(ps)[k] = ps[k + 1]
  OBVIOUS
<1>2. \A k \in Nat \ {0} : k \in C <=> k + 1 \in B
  <2>1. ASSUME NEW k \in 1 .. Len(ps) - 1 PROVE k \in C <=> k + 1 \in B
    <3>1. k \in DOMAIN Tail(ps) /\ k + 1 \in DOMAIN ps /\ Tail(ps)[k] = ps[k + 1]
      BY <1>1
    <3> QED
      BY <3>1 DEF Frames!Bringing
  <2>2. C \subseteq 1 .. Len(ps) - 1 /\ B \subseteq 1 .. Len(ps)
    BY <1>1, BringingFacts
  <2> HIDE DEF B, C
  <2> QED
    BY <1>1, <2>1, <2>2
<1>3. 1 \in B <=> Brings(p, ps[1], l)
  BY <1>1 DEF Frames!Bringing, Brings
<1>4. B \subseteq Nat \ {0} /\ C \subseteq Nat \ {0} /\ IsFiniteSet(B) /\ Cardinality(B) \in Nat
  <2>1. B \subseteq 1 .. Len(ps) /\ IsFiniteSet(B) /\ Cardinality(B) \in Nat
    BY BringingFacts
  <2>2. C \subseteq 1 .. Len(Tail(ps))
    BY <1>1, BringingFacts
  <2>3. \A n \in Nat : 1 .. n \subseteq Nat \ {0}
    OBVIOUS
  <2> HIDE DEF B, C
  <2> QED
    BY <1>1, <2>1, <2>2, <2>3
<1> HIDE DEF B, C
<1>5. Cardinality(C) = Cardinality(B) - one
  <2>1. C = {k \in Nat \ {0} : k + 1 \in B}
    BY <1>2, <1>4
  <2>2. B \in SUBSET (Nat \ {0})
    BY <1>4
  <2> QED
    BY <1>3, <1>4, <2>1, <2>2, Shifted
<1>6. ASSUME NEW k \in C
      PROVE  Frames(p)!PointsBefore(Tail(ps), l, k)
               = Frames(p)!PointsBefore(ps, l, k + 1) - 2 * one
  <2> DEFINE S == {j \in B : j < k + 1}
             T == {j \in C : j < k}
  <2>1. T = {j \in Nat \ {0} : j + 1 \in S}
    <3>1. ASSUME NEW j \in Nat \ {0} PROVE j \in T <=> j + 1 \in S
      <4>1. j < k <=> j + 1 < k + 1
        BY <1>4
      <4>2. j \in C <=> j + 1 \in B
        BY <1>2
      <4> QED
        BY <4>1, <4>2, Zenon
    <3>2. T \subseteq Nat \ {0}
      BY <1>4
    <3> HIDE DEF T, S
    <3> QED
      BY <3>1, <3>2
  <2>2. S \in SUBSET (Nat \ {0}) /\ IsFiniteSet(S) /\ (1 \in S <=> 1 \in B)
    <3>1. k + 1 \in Nat /\ 1 < k + 1
      BY <1>4
    <3>2. IsFiniteSet(S)
      <4>1. S \subseteq B
        OBVIOUS
      <4> HIDE DEF S
      <4> QED
        BY <1>4, <4>1, FS_Subset
    <3> QED
      BY <1>4, <3>1, <3>2
  <2>3. Cardinality(T) = Cardinality(S) - one /\ Cardinality(S) \in Nat
    <3> HIDE DEF S, T
    <3> QED
      BY <1>3, <2>1, <2>2, Shifted, FS_CardinalityType
  <2> HIDE DEF S, T
  <2>4. /\ Frames(p)!PointsBefore(Tail(ps), l, k) = 2 * Cardinality(T)
        /\ Frames(p)!PointsBefore(ps, l, k + 1) = 2 * Cardinality(S)
    BY FrameFacts DEF Frames!PointsBefore, S, T, B, C
  <2> QED
    BY <2>3, <2>4
<1> QED
  BY <1>2, <1>3, <1>5, <1>6 DEF B, C

(* Where the points received are: published, in the cloud, or to come.     *)
Conserved(p, l, s, o, c, ps) ==
  LET done == Len(o) + Len(c)
  IN /\ Len(s) = done + 2 * Cardinality(Frames(p)!Bringing(ps, l))
     /\ \A i \in DOMAIN o : s[i] = o[i]
     /\ \A i \in DOMAIN c : s[Len(o) + i] = c[i].time
     /\ \A k \in Frames(p)!Bringing(ps, l), i \in 1 .. 2 :
          s[done + Frames(p)!PointsBefore(ps, l, k) + i] = Frames(p)!PointsOf(ps[k])[i].time

LEMMA ConservedFacts ==
  ASSUME NEW p \in Timers
  PROVE  Frames(p)!PointsConserved <=>
           \A l \in FrameSettings[p].lidars :
             Conserved(p, l, sent[l], out[l], cloud[l], Frames(p)!UnderWay)
<1> DEFINE Body(l) ==
      LET done == Len(out[l]) + Len(cloud[l])
          ps == Frames(p)!UnderWay
      IN /\ Len(sent[l]) = done + 2 * Frames(p)!Cardinality(Frames(p)!Bringing(ps, l))
         /\ \A i \in DOMAIN out[l] : sent[l][i] = out[l][i]
         /\ \A i \in DOMAIN cloud[l] : sent[l][Len(out[l]) + i] = cloud[l][i].time
         /\ \A k \in Frames(p)!Bringing(ps, l), i \in 1 .. 2 :
              sent[l][done + Frames(p)!PointsBefore(ps, l, k) + i]
                = Frames(p)!PointsOf(ps[k])[i].time
<1>1. Frames(p)!PointsConserved <=> \A l \in FrameSettings[p].lidars : Body(l)
  BY DEF Frames!PointsConserved
<1>2. ASSUME NEW l
      PROVE  Body(l) <=> Conserved(p, l, sent[l], out[l], cloud[l], Frames(p)!UnderWay)
  <2>1. Frames(p)!Cardinality(Frames(p)!Bringing(Frames(p)!UnderWay, l))
          = Cardinality(Frames(p)!Bringing(Frames(p)!UnderWay, l))
    BY FrameFacts
  <2> QED
    BY <2>1 DEF Conserved
<1> HIDE DEF Body
<1> QED
  BY <1>1, <1>2

LEMMA ConservedPrimed ==
  ASSUME NEW p \in Timers
  PROVE  Frames(p)!PointsConserved' <=>
           \A l \in FrameSettings[p].lidars :
             Conserved(p, l, sent'[l], out'[l], cloud'[l], Frames(p)!UnderWay')
<1>1. (Frames(p)!PointsConserved <=>
         \A l \in FrameSettings[p].lidars :
           Conserved(p, l, sent[l], out[l], cloud[l], Frames(p)!UnderWay))'
  BY ConservedFacts, PTL
<1> QED
  BY <1>1

LEMMA StampConcat ==
  ASSUME NEW a \in Seq(Nat), NEW b \in Seq(Nat)
  PROVE  /\ Len(a \o b) = Len(a) + Len(b) /\ DOMAIN (a \o b) = 1 .. Len(a \o b)
         /\ \A i \in 1 .. Len(a) : (a \o b)[i] = a[i]
         /\ \A i \in 1 .. Len(b) : (a \o b)[Len(a) + i] = b[i]
OBVIOUS

LEMMA PointConcat ==
  ASSUME NEW a \in Seq(CloudPoint), NEW b \in Seq(CloudPoint)
  PROVE  /\ Len(a \o b) = Len(a) + Len(b) /\ DOMAIN (a \o b) = 1 .. Len(a \o b)
         /\ \A i \in 1 .. Len(a) : (a \o b)[i] = a[i]
         /\ \A i \in 1 .. Len(b) : (a \o b)[Len(a) + i] = b[i]
OBVIOUS

LEMMA StampsFacts ==
  ASSUME NEW p \in Timers, NEW c \in Seq(CloudPoint)
  PROVE  /\ Frames(p)!StampsOf(c) \in Seq(Nat) /\ Len(Frames(p)!StampsOf(c)) = Len(c)
         /\ \A i \in DOMAIN c : Frames(p)!StampsOf(c)[i] = c[i].time
<1>1. ASSUME NEW i \in DOMAIN c PROVE c[i].time \in Nat
  <2>1. c[i] \in CloudPoint
    BY ElementOfSeq
  <2> QED
    BY <2>1 DEF CloudPoint
<1>2. Frames(p)!StampsOf(c) = [i \in 1 .. Len(c) |-> c[i].time] /\ DOMAIN c = 1 .. Len(c)
  BY DEF Frames!StampsOf
<1> QED
  BY <1>1, <1>2

(* A packet that brings points leaves room for them.                       *)
LEMMA BeforeFits ==
  ASSUME NEW p \in Timers, NEW ps \in Seq(Frames(p)!Packet), NEW l,
         NEW k \in Frames(p)!Bringing(ps, l)
  PROVE  /\ k \in Nat \ {0} /\ Frames(p)!PointsBefore(ps, l, k) \in Nat
         /\ Frames(p)!PointsBefore(ps, l, k) + 2 <= 2 * Cardinality(Frames(p)!Bringing(ps, l))
         /\ k = 1 => Frames(p)!PointsBefore(ps, l, k) = 0
<1> DEFINE B == Frames(p)!Bringing(ps, l)
           S == {j \in B : j < k}
<1>1. /\ B \subseteq 1 .. Len(ps) /\ IsFiniteSet(B) /\ Cardinality(B) \in Nat
      /\ \A n \in Nat : Frames(p)!PointsBefore(ps, l, n) \in Nat
  BY BringingFacts
<1>2. k \in B
  OBVIOUS
<1> HIDE DEF B
<1>3. k \in Nat \ {0} /\ \A j \in B : j \in Nat \ {0}
  <2>1. Len(ps) \in Nat /\ \A n \in Nat : 1 .. n \subseteq Nat \ {0}
    OBVIOUS
  <2> QED
    BY <1>1, <1>2, <2>1
<1>4. S \subseteq B \ {k} /\ (k = 1 => S = {})
  BY <1>3
<1> HIDE DEF S
<1>5. IsFiniteSet(B \ {k}) /\ Cardinality(B \ {k}) = Cardinality(B) - 1
  <2>1. IsFiniteSet(B)
    BY <1>1
  <2> QED
    BY <1>2, <2>1, FS_RemoveElement
<1>6. Cardinality(S) <= Cardinality(B) - 1 /\ Cardinality(S) \in Nat
  <2>1. IsFiniteSet(S) /\ Cardinality(S) <= Cardinality(B \ {k})
    BY <1>4, <1>5, FS_Subset
  <2> QED
    BY <1>5, <2>1, FS_CardinalityType
<1>7. Frames(p)!PointsBefore(ps, l, k) = 2 * Cardinality(S)
  BY FrameFacts DEF Frames!PointsBefore, S, B
<1>8. k = 1 => Cardinality(S) = 0
  BY <1>4, FS_EmptySet
<1>9. k \in Nat /\ Frames(p)!PointsBefore(ps, l, k) \in Nat
  BY <1>1, <1>3
<1>10. Cardinality(B) \in Nat
  BY <1>1
<1>11. 2 * Cardinality(S) + 2 <= 2 * Cardinality(B) /\ (k = 1 => 2 * Cardinality(S) = 0)
  BY <1>6, <1>8, <1>10
<1> QED
  BY <1>3, <1>7, <1>9, <1>11 DEF B

LEMMA ReceivedConserved ==
  ASSUME NEW p \in Timers, NEW l, NEW ps \in Seq(Frames(p)!Packet), NEW e \in Frames(p)!Packet,
         NEW s \in Seq(Nat), NEW o \in Seq(Nat), NEW c \in Seq(CloudPoint),
         Conserved(p, l, s, o, c, ps)
  PROVE  Conserved(p, l, s \o (IF e.lidar = l THEN Frames(p)!StampsOf(Frames(p)!PointsOf(e))
                               ELSE <<>>), o, c, Append(ps, e))
<1> DEFINE B == Frames(p)!Bringing(ps, l)
           C == Frames(p)!Bringing(Append(ps, e), l)
           new == IF e.lidar = l THEN Frames(p)!StampsOf(Frames(p)!PointsOf(e)) ELSE <<>>
           t == s \o new
           done == Len(o) + Len(c)
           one == IF Brings(p, e, l) THEN 1 ELSE 0
<1>1. /\ C = B \union (IF Brings(p, e, l) THEN {Len(ps) + 1} ELSE {})
      /\ Cardinality(C) = Cardinality(B) + one
      /\ \A k \in B : Frames(p)!PointsBefore(Append(ps, e), l, k)
                        = Frames(p)!PointsBefore(ps, l, k)
      /\ Brings(p, e, l) =>
           Frames(p)!PointsBefore(Append(ps, e), l, Len(ps) + 1) = 2 * Cardinality(B)
  BY BringingAppend
<1>2. /\ new \in Seq(Nat) /\ Len(new) = 2 * one
      /\ Brings(p, e, l) => \A i \in 1 .. 2 : new[i] = Frames(p)!PointsOf(e)[i].time
  <2> DEFINE pts == Frames(p)!PointsOf(e)
  <2>1. /\ pts \in Seq(CloudPoint)
        /\ e.kind \notin Frames(p)!KnownKinds => pts = <<>>
        /\ e.kind \in Frames(p)!KnownKinds => Len(pts) = 2
    BY PointsOfFacts
  <2>2. /\ Frames(p)!StampsOf(pts) \in Seq(Nat)
        /\ Len(Frames(p)!StampsOf(pts)) = Len(pts)
        /\ \A i \in DOMAIN pts : Frames(p)!StampsOf(pts)[i] = pts[i].time
    BY <2>1, StampsFacts
  <2> HIDE DEF pts
  <2>3. CASE e.lidar # l
    BY <2>3 DEF Brings
  <2>4. CASE e.lidar = l /\ e.kind \notin Frames(p)!KnownKinds
    BY <2>1, <2>2, <2>4 DEF Brings, pts
  <2>5. CASE e.lidar = l /\ e.kind \in Frames(p)!KnownKinds
    <3>1. DOMAIN pts = 1 .. 2 /\ Brings(p, e, l) /\ new = Frames(p)!StampsOf(pts)
      BY <2>1, <2>5 DEF Brings, pts
    <3> HIDE DEF new
    <3> QED
      BY <2>1, <2>2, <2>5, <3>1 DEF pts
  <2> QED
    BY <2>3, <2>4, <2>5
<1>3. /\ Len(s) = done + 2 * Cardinality(B)
      /\ \A i \in DOMAIN o : s[i] = o[i]
      /\ \A i \in DOMAIN c : s[Len(o) + i] = c[i].time
      /\ \A k \in B, i \in 1 .. 2 :
           s[done + Frames(p)!PointsBefore(ps, l, k) + i] = Frames(p)!PointsOf(ps[k])[i].time
  BY DEF Conserved
<1>4. /\ Cardinality(B) \in Nat /\ B \subseteq 1 .. Len(ps)
      /\ \A k \in B : Frames(p)!PointsBefore(ps, l, k) \in Nat
                      /\ Frames(p)!PointsBefore(ps, l, k) + 2 <= 2 * Cardinality(B)
  BY BringingFacts, BeforeFits
<1>5. /\ Len(o) \in Nat /\ Len(c) \in Nat /\ Len(ps) \in Nat /\ done = Len(o) + Len(c)
      /\ DOMAIN o = 1 .. Len(o) /\ DOMAIN c = 1 .. Len(c)
      /\ Append(ps, e)[Len(ps) + 1] = e /\ \A k \in 1 .. Len(ps) : Append(ps, e)[k] = ps[k]
  OBVIOUS
<1> HIDE DEF new, B, C, done
<1>6. /\ Len(t) = Len(s) + 2 * one
      /\ \A i \in 1 .. Len(s) : t[i] = s[i]
      /\ \A i \in 1 .. 2 * one : t[Len(s) + i] = new[i]
  <2>1. s \in Seq(Nat) /\ new \in Seq(Nat) /\ Len(new) = 2 * one
    BY <1>2
  <2> HIDE DEF one, t
  <2>2. /\ Len(t) = Len(s) + Len(new) /\ \A i \in 1 .. Len(s) : t[i] = s[i]
        /\ \A i \in 1 .. Len(new) : t[Len(s) + i] = new[i]
    <3>1. /\ Len(s \o new) = Len(s) + Len(new) /\ DOMAIN (s \o new) = 1 .. Len(s \o new)
          /\ \A i \in 1 .. Len(s) : (s \o new)[i] = s[i]
          /\ \A i \in 1 .. Len(new) : (s \o new)[Len(s) + i] = new[i]
      BY <2>1, StampConcat
    <3> QED
      BY <3>1, Zenon DEF t
  <2> QED
    BY <2>1, <2>2
<1> HIDE DEF t
<1>7. Len(t) = done + 2 * Cardinality(C)
  <2> DEFINE nb == Cardinality(B)
  <2>1. nb \in Int /\ done \in Int
    BY <1>4, <1>5
  <2>2. one \in Int
    OBVIOUS
  <2> HIDE DEF one
  <2>3. Len(s) = done + 2 * nb /\ Len(t) = Len(s) + 2 * one /\ Cardinality(C) = nb + one
    BY <1>1, <1>3, <1>6
  <2> HIDE DEF nb
  <2>4. (done + 2 * nb) + 2 * one = done + 2 * (nb + one)
    BY <2>1, <2>2
  <2> QED
    BY <2>3, <2>4, Zenon
<1>8. /\ \A i \in DOMAIN o : t[i] = o[i]
      /\ \A i \in DOMAIN c : t[Len(o) + i] = c[i].time
  <2> DEFINE nb == Cardinality(B)
             lo == Len(o)
             lc == Len(c)
  <2>0. /\ nb \in Nat /\ lo \in Nat /\ lc \in Nat /\ Len(s) = lo + lc + 2 * nb
    BY <1>3, <1>4, <1>5
  <2> HIDE DEF nb, lo, lc
  <2>1. \A i \in 1 .. Len(o) : i \in 1 .. Len(s)
    <3>1. \A i \in 1 .. lo : i \in 1 .. lo + lc + 2 * nb
      BY <2>0
    <3> QED
      BY <2>0, <3>1, Zenon DEF lo
  <2>2. \A i \in 1 .. Len(c) : Len(o) + i \in 1 .. Len(s)
    <3>1. \A i \in 1 .. lc : lo + i \in 1 .. lo + lc + 2 * nb
      BY <2>0
    <3> QED
      BY <2>0, <3>1, Zenon DEF lo, lc
  <2> QED
    BY <1>3, <1>5, <1>6, <2>1, <2>2
<1>9. ASSUME NEW k \in C, NEW i \in 1 .. 2
      PROVE  t[done + Frames(p)!PointsBefore(Append(ps, e), l, k) + i]
               = Frames(p)!PointsOf(Append(ps, e)[k])[i].time
  <2>1. CASE k \in B
    <3> DEFINE n == Frames(p)!PointsBefore(ps, l, k)
    <3>1. n \in Nat /\ n + 2 <= 2 * Cardinality(B)
      BY <1>4, <2>1
    <3>2. Frames(p)!PointsBefore(Append(ps, e), l, k) = n /\ Append(ps, e)[k] = ps[k]
      BY <1>1, <1>4, <1>5, <2>1
    <3>3. s[done + n + i] = Frames(p)!PointsOf(ps[k])[i].time
      BY <1>3, <2>1
    <3> HIDE DEF n
    <3>4. done \in Nat /\ Len(s) = done + 2 * Cardinality(B) /\ Cardinality(B) \in Nat
      BY <1>3, <1>4, <1>5
    <3>5. done + n + i \in 1 .. Len(s)
      <4> DEFINE nb == Cardinality(B)
      <4> HIDE DEF nb
      <4>1. n \in Nat /\ n + 2 <= 2 * nb /\ done \in Nat /\ nb \in Nat
        BY <3>1, <3>4 DEF nb
      <4>2. done + n + i \in 1 .. done + 2 * nb
        BY <4>1
      <4> QED
        BY <3>4, <4>2, Zenon DEF nb
    <3> QED
      BY <1>6, <3>2, <3>3, <3>5
  <2>2. CASE k \notin B
    <3>1. Brings(p, e, l) /\ k = Len(ps) + 1
      BY <1>1, <2>2
    <3>2. done + Frames(p)!PointsBefore(Append(ps, e), l, k) + i = Len(s) + i
      BY <1>1, <1>3, <3>1
    <3>3. t[Len(s) + i] = new[i]
      BY <1>6, <3>1
    <3> QED
      BY <1>2, <1>5, <3>1, <3>2, <3>3
  <2> QED
    BY <2>1, <2>2
<1> QED
  BY <1>7, <1>8, <1>9 DEF Conserved, t, new, C, done

LEMMA ConvertedConserved ==
  ASSUME NEW p \in Timers, NEW l, NEW ps \in Seq(Frames(p)!Packet), ps # <<>>,
         NEW s \in Seq(Nat), NEW o \in Seq(Nat), NEW c \in Seq(CloudPoint),
         Conserved(p, l, s, o, c, ps)
  PROVE  Conserved(p, l, s, o, c \o (IF ps[1].lidar = l THEN Frames(p)!PointsOf(ps[1])
                                     ELSE <<>>), Tail(ps))
<1> DEFINE B == Frames(p)!Bringing(ps, l)
           C == Frames(p)!Bringing(Tail(ps), l)
           new == IF ps[1].lidar = l THEN Frames(p)!PointsOf(ps[1]) ELSE <<>>
           d == c \o new
           one == IF Brings(p, ps[1], l) THEN 1 ELSE 0
<1>1. /\ \A k \in Nat \ {0} : k \in C <=> k + 1 \in B
      /\ 1 \in B <=> Brings(p, ps[1], l)
      /\ Cardinality(C) = Cardinality(B) - one
      /\ \A k \in C : Frames(p)!PointsBefore(Tail(ps), l, k)
                        = Frames(p)!PointsBefore(ps, l, k + 1) - 2 * one
  BY BringingTail
<1>2. /\ new \in Seq(CloudPoint) /\ Len(new) = 2 * one
      /\ Brings(p, ps[1], l) => new = Frames(p)!PointsOf(ps[1])
  <2> DEFINE pts == Frames(p)!PointsOf(ps[1])
  <2>1. ps[1] \in Frames(p)!Packet
    OBVIOUS
  <2>2. /\ pts \in Seq(CloudPoint)
        /\ ps[1].kind \notin Frames(p)!KnownKinds => pts = <<>>
        /\ ps[1].kind \in Frames(p)!KnownKinds => Len(pts) = 2
    BY <2>1, PointsOfFacts
  <2> HIDE DEF pts
  <2>3. CASE Brings(p, ps[1], l)
    BY <2>2, <2>3 DEF Brings, pts
  <2>4. CASE ~Brings(p, ps[1], l)
    BY <2>2, <2>4 DEF Brings, pts
  <2> QED
    BY <2>3, <2>4
<1>3. /\ Len(s) = Len(o) + Len(c) + 2 * Cardinality(B)
      /\ \A i \in DOMAIN o : s[i] = o[i]
      /\ \A i \in DOMAIN c : s[Len(o) + i] = c[i].time
      /\ \A k \in B, i \in 1 .. 2 :
           s[Len(o) + Len(c) + Frames(p)!PointsBefore(ps, l, k) + i]
             = Frames(p)!PointsOf(ps[k])[i].time
  BY DEF Conserved
<1>4. /\ Cardinality(B) \in Nat /\ C \subseteq 1 .. Len(Tail(ps))
      /\ \A k \in B : Frames(p)!PointsBefore(ps, l, k) \in Nat
      /\ 1 \in B => Frames(p)!PointsBefore(ps, l, 1) = 0
  <2>1. Tail(ps) \in Seq(Frames(p)!Packet)
    OBVIOUS
  <2> QED
    BY <2>1, BringingFacts, BeforeFits
<1>5. /\ Len(o) \in Nat /\ Len(c) \in Nat /\ DOMAIN c = 1 .. Len(c)
      /\ \A k \in 1 .. Len(Tail(ps)) : Tail(ps)[k] = ps[k + 1] /\ k \in Nat \ {0}
  OBVIOUS
<1> HIDE DEF new, B, C
<1>6. /\ Len(d) = Len(c) + 2 * one /\ DOMAIN d = 1 .. Len(d)
      /\ \A i \in 1 .. Len(c) : d[i] = c[i]
      /\ \A i \in 1 .. 2 * one : d[Len(c) + i] = new[i]
  <2>1. c \in Seq(CloudPoint) /\ new \in Seq(CloudPoint) /\ Len(new) = 2 * one
    BY <1>2
  <2> HIDE DEF one, d
  <2>2. /\ Len(d) = Len(c) + Len(new) /\ DOMAIN d = 1 .. Len(d)
        /\ \A i \in 1 .. Len(c) : d[i] = c[i]
        /\ \A i \in 1 .. Len(new) : d[Len(c) + i] = new[i]
    <3>1. /\ Len(c \o new) = Len(c) + Len(new) /\ DOMAIN (c \o new) = 1 .. Len(c \o new)
          /\ \A i \in 1 .. Len(c) : (c \o new)[i] = c[i]
          /\ \A i \in 1 .. Len(new) : (c \o new)[Len(c) + i] = new[i]
      BY <2>1, PointConcat
    <3> QED
      BY <3>1, Zenon DEF d
  <2> QED
    BY <2>1, <2>2
<1> HIDE DEF d
<1>7. Len(s) = Len(o) + Len(d) + 2 * Cardinality(C)
  <2> DEFINE nb == Cardinality(B)
             lo == Len(o)
             lc == Len(c)
  <2>1. nb \in Int /\ lo \in Int /\ lc \in Int
    BY <1>4, <1>5
  <2>2. one \in Int
    OBVIOUS
  <2> HIDE DEF one
  <2>3. Len(s) = lo + lc + 2 * nb /\ Len(d) = lc + 2 * one /\ Cardinality(C) = nb - one
    BY <1>1, <1>3, <1>6
  <2> HIDE DEF nb, lo, lc
  <2>4. lo + lc + 2 * nb = lo + (lc + 2 * one) + 2 * (nb - one)
    BY <2>1, <2>2
  <2>5. Len(s) = lo + Len(d) + 2 * Cardinality(C)
    BY <2>3, <2>4, Zenon
  <2> QED
    BY <2>5 DEF lo
<1>8. ASSUME NEW i \in DOMAIN d PROVE s[Len(o) + i] = d[i].time
  <2>1. CASE i <= Len(c)
    <3>1. i \in 1 .. Len(c)
      BY <1>5, <1>6, <2>1
    <3> QED
      BY <1>3, <1>5, <1>6, <3>1
  <2>2. CASE ~(i <= Len(c))
    <3> DEFINE m == i - Len(c)
    <3>1. m \in 1 .. 2 /\ i = Len(c) + m /\ one = 1 /\ Len(o) + i = Len(o) + Len(c) + 0 + m
      <4>1. one \in {0, 1}
        OBVIOUS
      <4>2. i \in 1 .. Len(c) + 2 * one
        BY <1>6
      <4> HIDE DEF one
      <4>3. i \in Int /\ i > Len(c) /\ i <= Len(c) + 2 * one
        BY <1>5, <2>2, <4>1, <4>2
      <4>4. CASE one = 0
        BY <1>5, <4>3, <4>4
      <4>5. CASE one = 1
        <5>1. \A a, b \in Nat, j \in Int :
                j > a /\ j <= a + 2 => /\ j - a \in 1 .. 2 /\ j = a + (j - a)
                                       /\ b + j = b + a + 0 + (j - a)
          OBVIOUS
        <5>2. Len(o) \in Nat /\ Len(c) \in Nat /\ i \in Int /\ i > Len(c) /\ i <= Len(c) + 2
          BY <1>5, <4>3, <4>5
        <5> QED
          BY <4>5, <5>1, <5>2
      <4> QED
        BY <4>1, <4>4, <4>5
    <3> HIDE DEF m
    <3>2. Brings(p, ps[1], l) /\ 1 \in B /\ Frames(p)!PointsBefore(ps, l, 1) = 0
      BY <1>1, <1>4, <3>1
    <3>3. d[i] = Frames(p)!PointsOf(ps[1])[m]
      BY <1>2, <1>6, <3>1, <3>2
    <3>4. s[Len(o) + Len(c) + 0 + m] = Frames(p)!PointsOf(ps[1])[m].time
      BY <1>3, <3>1, <3>2, ZenonT(30)
    <3> QED
      BY <3>1, <3>3, <3>4
  <2> QED
    BY <2>1, <2>2
<1>9. ASSUME NEW k \in C, NEW i \in 1 .. 2
      PROVE  s[Len(o) + Len(d) + Frames(p)!PointsBefore(Tail(ps), l, k) + i]
               = Frames(p)!PointsOf(Tail(ps)[k])[i].time
  <2>1. k \in Nat \ {0} /\ k + 1 \in B /\ Tail(ps)[k] = ps[k + 1]
    BY <1>1, <1>4, <1>5
  <2> DEFINE n == Frames(p)!PointsBefore(ps, l, k + 1)
  <2>2. n \in Nat /\ Frames(p)!PointsBefore(Tail(ps), l, k) = n - 2 * one
    BY <1>1, <1>4, <2>1
  <2>3. s[Len(o) + Len(c) + n + i] = Frames(p)!PointsOf(ps[k + 1])[i].time
    BY <1>3, <2>1
  <2> HIDE DEF n
  <2>4. Len(o) + Len(d) + (n - 2 * one) + i = Len(o) + Len(c) + n + i
    <3>1. one \in Int /\ Len(d) = Len(c) + 2 * one
      BY <1>6
    <3> HIDE DEF one
    <3> QED
      BY <1>5, <2>2, <3>1
  <2> QED
    BY <2>1, <2>2, <2>3, <2>4
<1> QED
  BY <1>3, <1>7, <1>8, <1>9 DEF Conserved, d, new, C

LEMMA PublishedConserved ==
  ASSUME NEW p \in Timers, NEW l, NEW ps \in Seq(Frames(p)!Packet),
         NEW s \in Seq(Nat), NEW o \in Seq(Nat), NEW c \in Seq(CloudPoint),
         Conserved(p, l, s, o, c, ps)
  PROVE  Conserved(p, l, s, o \o Frames(p)!StampsOf(c), <<>>, ps)
<1> DEFINE q == Frames(p)!StampsOf(c)
           r == o \o q
<1>1. q \in Seq(Nat) /\ Len(q) = Len(c) /\ \A i \in DOMAIN c : q[i] = c[i].time
  BY StampsFacts
<1> HIDE DEF q
<1>2. /\ Len(r) = Len(o) + Len(c) /\ DOMAIN r = 1 .. Len(r) /\ DOMAIN c = 1 .. Len(c)
      /\ DOMAIN o = 1 .. Len(o) /\ Len(o) \in Nat /\ Len(c) \in Nat
      /\ \A i \in 1 .. Len(o) : r[i] = o[i]
      /\ \A i \in 1 .. Len(c) : r[Len(o) + i] = q[i]
  <2>1. o \in Seq(Nat) /\ q \in Seq(Nat) /\ Len(q) = Len(c)
    BY <1>1
  <2>2. DOMAIN c = 1 .. Len(c) /\ DOMAIN o = 1 .. Len(o) /\ Len(o) \in Nat /\ Len(c) \in Nat
    OBVIOUS
  <2> HIDE DEF r
  <2>3. /\ Len(r) = Len(o) + Len(q) /\ DOMAIN r = 1 .. Len(r)
        /\ \A i \in 1 .. Len(o) : r[i] = o[i]
        /\ \A i \in 1 .. Len(q) : r[Len(o) + i] = q[i]
    <3>1. /\ Len(o \o q) = Len(o) + Len(q) /\ DOMAIN (o \o q) = 1 .. Len(o \o q)
          /\ \A i \in 1 .. Len(o) : (o \o q)[i] = o[i]
          /\ \A i \in 1 .. Len(q) : (o \o q)[Len(o) + i] = q[i]
      BY <2>1, StampConcat
    <3> QED
      BY <3>1, Zenon DEF r
  <2> QED
    BY <2>1, <2>2, <2>3
<1> HIDE DEF r
<1>3. \A i \in DOMAIN r : s[i] = r[i]
  <2> TAKE i \in DOMAIN r
  <2>1. CASE i <= Len(o)
    <3>1. i \in 1 .. Len(o)
      BY <1>2, <2>1
    <3> QED
      BY <1>2, <3>1 DEF Conserved
  <2>2. CASE ~(i <= Len(o))
    <3>1. i - Len(o) \in 1 .. Len(c) /\ i = Len(o) + (i - Len(o))
      BY <1>2, <2>2
    <3>2. r[i] = q[i - Len(o)] /\ q[i - Len(o)] = c[i - Len(o)].time
      BY <1>1, <1>2, <3>1
    <3>3. s[Len(o) + (i - Len(o))] = c[i - Len(o)].time
      BY <1>2, <3>1 DEF Conserved
    <3> QED
      BY <3>1, <3>2, <3>3
  <2> QED
    BY <2>1, <2>2
<1>4. Len(r) + Len(<<>>) = Len(o) + Len(c)
  BY <1>2
<1> QED
  BY <1>3, <1>4 DEF Conserved, r, q

(* The cloud of a lidar once the packet at the head is converted.          *)
NewCloud(p, c, e, l) == c \o (IF e.lidar = l THEN Frames(p)!PointsOf(e) ELSE <<>>)

LEMMA NewCloudFacts ==
  ASSUME NEW p \in Timers, NEW l, NEW c \in Seq(CloudPoint), NEW e \in Frames(p)!Packet
  PROVE  LET d == NewCloud(p, c, e, l)
         IN  /\ d \in Seq(CloudPoint) /\ DOMAIN d = 1 .. Len(d) /\ Len(d) \in Nat
             /\ ~Brings(p, e, l) => d = c
             /\ Brings(p, e, l) =>
                  /\ Len(d) = Len(c) + 2
                  /\ \A i \in 1 .. Len(c) : d[i] = c[i]
                  /\ d[Len(c) + 1].time = e.stamp
                  /\ d[Len(c) + 2].time = e.stamp + FrameSettings[p].point_step
                  /\ \A i \in 1 .. 2 : d[Len(c) + i].x = Frames(p)!Compensate(e.kind)
<1> DEFINE d == NewCloud(p, c, e, l)
           pts == Frames(p)!PointsOf(e)
<1>1. /\ pts \in Seq(CloudPoint)
      /\ e.kind \notin Frames(p)!KnownKinds => pts = <<>>
      /\ e.kind \in Frames(p)!KnownKinds =>
           /\ Len(pts) = 2 /\ pts[1].time = e.stamp
           /\ pts[2].time = e.stamp + FrameSettings[p].point_step
           /\ \A i \in 1 .. 2 : pts[i].x = Frames(p)!Compensate(e.kind)
  BY PointsOfFacts
<1> HIDE DEF pts
<1>2. CASE Brings(p, e, l)
  <2>1. d = c \o pts /\ Len(pts) = 2
    BY <1>1, <1>2 DEF NewCloud, Brings, pts
  <2>2. /\ Len(d) = Len(c) + 2 /\ DOMAIN d = 1 .. Len(d)
        /\ \A i \in 1 .. Len(c) : d[i] = c[i]
        /\ \A i \in 1 .. 2 : d[Len(c) + i] = pts[i]
    <3>1. /\ Len(c \o pts) = Len(c) + Len(pts)
          /\ DOMAIN (c \o pts) = 1 .. Len(c \o pts)
          /\ \A i \in 1 .. Len(c) : (c \o pts)[i] = c[i]
          /\ \A i \in 1 .. Len(pts) : (c \o pts)[Len(c) + i] = pts[i]
      BY <1>1, PointConcat
    <3> HIDE DEF d
    <3> QED
      BY <2>1, <3>1
  <2>3. d \in Seq(CloudPoint)
    BY <1>1, <2>1
  <2>4. d[Len(c) + 1] = pts[1] /\ d[Len(c) + 2] = pts[2]
    BY <2>2
  <2> HIDE DEF d
  <2>5. Len(d) \in Nat
    BY <2>3
  <2>6. /\ pts[1].time = e.stamp
        /\ pts[2].time = e.stamp + FrameSettings[p].point_step
        /\ \A i \in 1 .. 2 : pts[i].x = Frames(p)!Compensate(e.kind)
    BY <1>1, <1>2 DEF Brings
  <2> QED
    BY <1>2, <2>2, <2>3, <2>4, <2>5, <2>6, Zenon DEF d
<1>3. CASE ~Brings(p, e, l)
  <2>1. d = c
    BY <1>1, <1>3 DEF NewCloud, Brings, pts
  <2> HIDE DEF d
  <2> QED
    BY <1>3, <2>1 DEF d
<1> QED
  BY <1>2, <1>3

LEMMA NewCloudRises ==
  ASSUME NEW p \in Timers, NEW l, NEW c \in Seq(CloudPoint), NEW ps \in Seq(Frames(p)!Packet),
         ps # <<>>, NEW stamp \in Nat, Rising(l, ps, c, stamp)
  PROVE  LET d == NewCloud(p, c, ps[1], l)
         IN  /\ Rising(l, Tail(ps), d, stamp) /\ Rising(l, Tail(ps), <<>>, stamp)
             /\ d # <<>> => d[1].time # 0
             /\ Brings(p, ps[1], l) =>
                  d # <<>> /\ d[Len(d)].time >= d[1].time /\ d[Len(d)].time # 0
<1> DEFINE e == ps[1]
           d == NewCloud(p, c, e, l)
           qs == Tail(ps)
<1>1. /\ e \in Frames(p)!Packet /\ 1 \in DOMAIN ps
      /\ \A k \in DOMAIN qs : k + 1 \in DOMAIN ps /\ k \in Nat /\ 1 < k + 1 /\ qs[k] = ps[k + 1]
  OBVIOUS
<1>2. /\ e.stamp \in Nat /\ FrameSettings[p].point_step \in Nat
      /\ \A i \in DOMAIN c : c[i].time \in Nat
  <2>1. e.stamp \in Nat /\ FrameSettings[p].point_step \in Nat
    BY <1>1, FrameFacts DEF Frames!Packet
  <2>2. ASSUME NEW i \in DOMAIN c PROVE c[i].time \in Nat
    <3>1. c[i] \in CloudPoint
      BY ElementOfSeq
    <3> QED
      BY <3>1 DEF CloudPoint
  <2> QED
    BY <2>1, <2>2
<1>3. /\ d \in Seq(CloudPoint) /\ DOMAIN d = 1 .. Len(d) /\ Len(d) \in Nat
      /\ ~Brings(p, e, l) => d = c
      /\ Brings(p, e, l) =>
           /\ Len(d) = Len(c) + 2
           /\ \A i \in 1 .. Len(c) : d[i] = c[i]
           /\ d[Len(c) + 1].time = e.stamp
           /\ d[Len(c) + 2].time = e.stamp + FrameSettings[p].point_step
  BY <1>1, NewCloudFacts
<1>4. /\ \A j \in DOMAIN ps : ps[j].lidar = l =>
           /\ ps[j].stamp # 0 /\ ps[j].stamp <= stamp
           /\ c # <<>> => c[1].time < ps[j].stamp
           /\ \A k \in DOMAIN ps : ps[k].lidar = l /\ j < k => ps[j].stamp < ps[k].stamp
      /\ c # <<>> => c[1].time <= stamp
      /\ \A i \in DOMAIN c : c[i].time # 0
  BY DEF Rising
<1>5. DOMAIN c = 1 .. Len(c) /\ Len(c) \in Nat /\ (c = <<>> <=> Len(c) = 0)
  OBVIOUS
<1> HIDE DEF e, d, qs
<1>6. \A j \in DOMAIN qs : qs[j].lidar = l =>
        /\ qs[j].stamp # 0 /\ qs[j].stamp <= stamp
        /\ c # <<>> => c[1].time < qs[j].stamp
        /\ e.lidar = l => e.stamp < qs[j].stamp
        /\ \A k \in DOMAIN qs : qs[k].lidar = l /\ j < k => qs[j].stamp < qs[k].stamp
  <2> TAKE j \in DOMAIN qs
  <2> HAVE qs[j].lidar = l
  <2>1. /\ qs[j].stamp # 0 /\ qs[j].stamp <= stamp
        /\ c # <<>> => c[1].time < qs[j].stamp
        /\ e.lidar = l => e.stamp < qs[j].stamp
    BY <1>1, <1>4 DEF e
  <2>2. ASSUME NEW k \in DOMAIN qs, qs[k].lidar = l, j < k
        PROVE  qs[j].stamp < qs[k].stamp
    <3>1. j + 1 < k + 1
      BY <1>1, <2>2
    <3> QED
      BY <1>1, <1>4, <2>2, <3>1
  <2> QED
    BY <2>1, <2>2
<1>7. CASE Brings(p, e, l)
  <2>1. e.lidar = l /\ e.stamp # 0 /\ e.stamp <= stamp /\ (c # <<>> => c[1].time < e.stamp)
    BY <1>1, <1>4, <1>7 DEF Brings, e
  <2>2. /\ d # <<>> /\ d[1].time <= e.stamp /\ d[1].time \in Nat /\ d[1].time # 0
        /\ c # <<>> => d[1].time = c[1].time
        /\ c = <<>> => d[1].time = e.stamp
    <3>1. CASE c = <<>>
      BY <1>2, <1>3, <1>5, <1>7, <2>1, <3>1
    <3>2. CASE c # <<>>
      <4>1. 1 \in DOMAIN c /\ 1 \in 1 .. Len(c)
        BY <1>5, <3>2
      <4>2. d[1] = c[1] /\ c[1].time \in Nat /\ c[1].time # 0
        BY <1>2, <1>3, <1>4, <1>7, <4>1
      <4>3. d # <<>>
        BY <1>3, <1>5, <1>7
      <4> QED
        BY <1>2, <2>1, <3>2, <4>2, <4>3
    <3> QED
      BY <3>1, <3>2
  <2>3. \A i \in DOMAIN d : d[i].time # 0
    <3> TAKE i \in DOMAIN d
    <3>1. i \in 1 .. Len(c) \/ i = Len(c) + 1 \/ i = Len(c) + 2
      BY <1>3, <1>5, <1>7
    <3>2. CASE i \in 1 .. Len(c)
      BY <1>3, <1>4, <1>5, <1>7, <3>2
    <3>3. CASE i = Len(c) + 1 \/ i = Len(c) + 2
      BY <1>2, <1>3, <1>7, <2>1, <3>3
    <3> QED
      BY <3>1, <3>2, <3>3
  <2>4. d[Len(d)].time = e.stamp + FrameSettings[p].point_step
    BY <1>3, <1>7
  <2>5. \A j \in DOMAIN qs : qs[j].lidar = l => d[1].time < qs[j].stamp
    BY <1>6, <2>1, <2>2
  <2>6. Rising(l, qs, d, stamp)
    BY <1>2, <1>6, <2>1, <2>2, <2>3, <2>5 DEF Rising
  <2>7. Rising(l, qs, <<>>, stamp)
    BY <1>6 DEF Rising
  <2>8. d[Len(d)].time >= d[1].time /\ d[Len(d)].time # 0
    BY <1>2, <2>1, <2>2, <2>4, SMTT(30)
  <2> QED
    BY <2>2, <2>6, <2>7, <2>8 DEF d, e, qs
<1>8. CASE ~Brings(p, e, l)
  <2>1. Rising(l, qs, c, stamp) /\ Rising(l, qs, <<>>, stamp) /\ (c # <<>> => c[1].time # 0)
    BY <1>4, <1>5, <1>6 DEF Rising
  <2> QED
    BY <1>3, <1>8, <2>1 DEF d, e, qs
<1> QED
  BY <1>7, <1>8

LEMMA NewCloudShifts ==
  ASSUME NEW p \in Timers, NEW l, NEW c \in Seq(CloudPoint), NEW e \in Frames(p)!Packet,
         Shifts(p, c)
  PROVE  Shifts(p, NewCloud(p, c, e, l)) /\ Shifts(p, <<>>)
<1> DEFINE d == NewCloud(p, c, e, l)
<1>1. /\ DOMAIN d = 1 .. Len(d)
      /\ ~Brings(p, e, l) => d = c
      /\ Brings(p, e, l) =>
           /\ Len(d) = Len(c) + 2 /\ \A i \in 1 .. Len(c) : d[i] = c[i]
           /\ \A i \in 1 .. 2 : d[Len(c) + i].x = Frames(p)!Compensate(e.kind)
  BY NewCloudFacts
<1>2. Len(c) \in Nat /\ DOMAIN c = 1 .. Len(c)
  OBVIOUS
<1> HIDE DEF d
<1>3. ASSUME Brings(p, e, l), NEW i \in DOMAIN d
      PROVE  \E kind \in FrameSettings[p].kinds \intersect Frames(p)!KnownKinds :
               d[i].x = Frames(p)!Compensate(kind)
  <2>1. e.kind \in FrameSettings[p].kinds \intersect Frames(p)!KnownKinds
    BY <1>3 DEF Brings, Frames!Packet
  <2>2. i \in 1 .. Len(c) \/ i = Len(c) + 1 \/ i = Len(c) + 2
    BY <1>1, <1>2, <1>3
  <2>3. CASE i \in 1 .. Len(c)
    BY <1>1, <1>2, <1>3, <2>3 DEF Shifts
  <2>4. CASE i = Len(c) + 1 \/ i = Len(c) + 2
    <3>1. d[i].x = Frames(p)!Compensate(e.kind)
      BY <1>1, <1>3, <2>4
    <3> QED
      BY <2>1, <3>1
  <2> QED
    BY <2>2, <2>3, <2>4
<1>4. Shifts(p, <<>>)
  BY DEF Shifts
<1>5. CASE Brings(p, e, l)
  <2>1. Shifts(p, d)
    BY <1>3, <1>5, Zenon DEF Shifts
  <2> QED
    BY <1>4, <2>1 DEF d
<1>6. CASE ~Brings(p, e, l)
  <2>1. d = c
    BY <1>1, <1>6, ZenonT(30)
  <2> QED
    BY <1>4, <2>1 DEF d
<1> QED
  BY <1>5, <1>6

(* The arithmetic of the axis.                                             *)
LEMMA BoundaryAhead ==
  ASSUME NEW p \in Timers, NEW from \in Nat, NEW time \in Nat, from <= time
  PROVE  \E n \in Nat : Frames(p)!Boundary(from, time)
                          = from + (n + 1) * FrameSettings[p].interval
<1> DEFINE d == FrameSettings[p].interval
           q == (time - from) \div d
<1>1. d \in Nat \ {0} /\ time - from \in Nat
  BY FrameFacts
<1>2. Frames(p)!Boundary(from, time) = from + d * (q + 1)
  BY DEF Frames!Boundary
<1> HIDE DEF d
<1>3. q \in Int /\ time - from = (d * q) + ((time - from) % d)
      /\ (time - from) % d \in 0 .. (d - 1)
  <2>1. time - from \in Int
    OBVIOUS
  <2> QED
    BY <1>1, <2>1, Division, Zenon
<1> HIDE DEF q
<1>4. q \in Nat
  <2>1. \A a \in Nat \ {0}, b \in Int : b < 0 => a * b <= -a
    OBVIOUS
  <2>2. d * q > -d
    BY <1>1, <1>3
  <2>3. ~(q < 0)
    BY <1>1, <1>3, <2>1, <2>2
  <2> QED
    BY <1>3, <2>3
<1>5. d * (q + 1) = (q + 1) * d
  BY <1>1, <1>4
<1> QED
  BY <1>2, <1>4, <1>5 DEF d

LEMMA AxisAdvances ==
  ASSUME NEW p \in Timers, NEW s \in Seq(Nat), NEW published \in Nat, NEW boundary \in Nat,
         OnAxis(p, s, published, boundary), NEW n \in Nat
  PROVE  OnAxis(p, s, published + 1, boundary + (n + 1) * FrameSettings[p].interval)
<1> DEFINE d == FrameSettings[p].interval
<1>1. d \in Nat
  BY FrameFacts
<1>2. PICK k \in Nat : boundary = s[1] + k * d /\ published < k
  BY DEF OnAxis
<1>3. s # <<>> /\ s[1] \in Nat
  BY DEF OnAxis
<1> HIDE DEF d
<1>4. boundary + (n + 1) * d = s[1] + (k + n + 1) * d /\ published + 1 < k + n + 1
      /\ k + n + 1 \in Nat
  BY <1>1, <1>2, <1>3, SMTT(30)
<1> QED
  BY <1>3, <1>4 DEF OnAxis, d

LEMMA AxisFixed ==
  ASSUME NEW p \in Timers, NEW s \in Seq(Nat), NEW published \in Nat, NEW boundary \in Nat,
         OnAxis(p, s, published, boundary)
  PROVE  /\ (boundary - Head(s)) % FrameSettings[p].interval = 0
         /\ published * FrameSettings[p].interval < boundary - Head(s)
<1> DEFINE d == FrameSettings[p].interval
<1>1. d \in Nat \ {0}
  BY FrameFacts
<1>2. PICK k \in Nat : boundary = s[1] + k * d /\ published < k
  BY DEF OnAxis
<1>3. s # <<>> /\ s[1] \in Nat /\ Head(s) = s[1]
  BY DEF OnAxis
<1> HIDE DEF d
<1>4. boundary - Head(s) = (d * k) + 0
  BY <1>1, <1>2, <1>3
<1>5. ((d * k) + 0) % d = 0
  BY <1>1, Remainder
<1>6. published * d < d * k
  BY <1>1, <1>2
<1> QED
  BY <1>1, <1>4, <1>5, <1>6 DEF d

(* A raw coordinate and a translation rounded to centimetres.              *)
LEMMA TranslationNear ==
  ASSUME NEW p \in Timers
  PROVE  LET off == Frames(p)!Compensate(FrameSettings[p].configured)
                      - (FrameSettings[p].position + FrameSettings[p].translation)
         IN  -20 < off /\ off < 20
<1> DEFINE t == FrameSettings[p].translation
           x == FrameSettings[p].position
<1>1. t \in Int /\ x \in Int
  BY FrameFacts
<1>2. CASE FrameSettings[p].configured = "Low"
  <2> DEFINE ext == IF t >= 0 THEN t \div 10 ELSE -((-t) \div 10)
  <2>1. Frames(p)!Compensate(FrameSettings[p].configured) = (x \div 10 + ext) * 10
    BY <1>2 DEF Frames!Compensate, Frames!ExtParam, Frames!RawUnit
  <2> HIDE DEF t, x
  <2>2. x \div 10 \in Int /\ x - 10 < (x \div 10) * 10 /\ (x \div 10) * 10 <= x
    BY <1>1
  <2>3. ext \in Int /\ t - 10 < ext * 10 /\ ext * 10 < t + 10
    <3>1. CASE t >= 0
      BY <1>1, <3>1
    <3>2. CASE ~(t >= 0)
      <4>1. -t \in Nat
        BY <1>1, <3>2
      <4>2. \A n \in Nat : n \div 10 \in Nat /\ n - 10 < (n \div 10) * 10
                           /\ (n \div 10) * 10 <= n
        OBVIOUS
      <4>3. (-t) \div 10 \in Nat /\ -t - 10 < ((-t) \div 10) * 10 /\ ((-t) \div 10) * 10 <= -t
        BY <4>1, <4>2
      <4> QED
        BY <1>1, <3>2, <4>3
    <3> QED
      BY <3>1, <3>2
  <2> HIDE DEF ext
  <2> QED
    BY <1>1, <2>1, <2>2, <2>3 DEF t, x
<1>3. CASE FrameSettings[p].configured # "Low"
  <2>1. Frames(p)!Compensate(FrameSettings[p].configured) = (x \div 1 + t) * 1
    BY <1>3 DEF Frames!Compensate, Frames!ExtParam, Frames!RawUnit
  <2> HIDE DEF t, x
  <2>2. x \div 1 = x
    BY <1>1
  <2> QED
    BY <1>1, <2>1, <2>2 DEF t, x
<1> QED
  BY <1>2, <1>3

(* What the callbacks and the tests of the thread do to the packets.       *)
LEMMA UnderWayFacts ==
  ASSUME NEW p \in Timers, FramesTyped(p)
  PROVE  /\ Frames(p)!UnderWay \in Seq(Frames(p)!Packet)
         /\ raw = <<>> => Frames(p)!UnderWay = queue
         /\ raw # <<>> => /\ raw[1] \in Frames(p)!Packet /\ Frames(p)!UnderWay # <<>>
                          /\ Frames(p)!UnderWay[1] = raw[1]
                          /\ Tail(Frames(p)!UnderWay) = queue
<1>1. raw \in Seq(Frames(p)!Packet) /\ Len(raw) <= 1 /\ queue \in Seq(Frames(p)!Packet)
  BY DEF FramesTyped, Frames!TypeOK
<1> DEFINE P == Frames(p)!Packet
<1>2. raw = <<>> \/ \E e \in P : raw = <<e>>
  <2>1. CASE raw # <<>>
    <3>1. Len(raw) = 1 /\ raw[1] \in P /\ raw = <<raw[1]>>
      BY <1>1, <2>1, SMTT(30)
    <3> QED
      BY <3>1
  <2> QED
    BY <2>1
<1>3. CASE raw = <<>>
  BY <1>1, <1>3 DEF Frames!UnderWay
<1>4. ASSUME NEW e \in P, raw = <<e>>
      PROVE  /\ raw[1] \in P /\ raw # <<>>
             /\ <<e>> \o queue \in Seq(P) /\ <<e>> \o queue # <<>>
             /\ (<<e>> \o queue)[1] = e /\ Tail(<<e>> \o queue) = queue
  BY <1>1, <1>4
<1>5. CASE raw # <<>>
  <2>1. PICK e \in P : raw = <<e>>
    BY <1>2, <1>5
  <2>2. Frames(p)!UnderWay = <<e>> \o queue /\ raw[1] = e
    BY <2>1 DEF Frames!UnderWay
  <2> QED
    BY <1>4, <2>1, <2>2, Zenon
<1> QED
  BY <1>3, <1>5

LEMMA CallbackFrames ==
  ASSUME NEW p \in Timers, FramesInv(p), NEW l0 \in FrameSettings[p].lidars,
         NEW gap \in FrameSettings[p].gaps, NEW kind \in FrameSettings[p].kinds,
         NEW synced \in FrameSettings[p].sync, Frames(p)!OnPointCloud(l0, gap, kind, synced)
  PROVE  FramesInv(p)'
<1> DEFINE lids == FrameSettings[p].lidars
           e == [lidar |-> l0, stamp |-> packets[l0].stamp + gap, kind |-> kind]
           ps == Frames(p)!UnderWay
<1>1. FramesTyped(p) /\ Frames(p)!PointsConserved /\ StampsRise(p) /\ AxisKept(p)
      /\ Translated(p)
  BY DEF FramesInv
<1>2. /\ gap \in Nat \ {0} /\ synced \in BOOLEAN
      /\ packets[l0].stamp \in Nat
  BY <1>1, FrameFacts DEF FramesTyped
<1>3. /\ sync' = synced /\ queue' = Append(queue, e)
      /\ packets' = [packets EXCEPT ![l0] = [count |-> packets[l0].count + 1, stamp |-> e.stamp]]
      /\ sent' = [sent EXCEPT ![l0] = sent[l0] \o Frames(p)!StampsOf(Frames(p)!PointsOf(e))]
      /\ unsynced' = (unsynced \/ ~synced)
      /\ UNCHANGED <<pc, raw, cloud, next_publish, first, lag, quit, frames, out>>
  BY DEF Frames!OnPointCloud, Frames!timer, Frames!history
<1>4. e \in Frames(p)!Packet /\ e.lidar = l0 /\ e.stamp \in Nat /\ e.stamp > packets[l0].stamp
  BY <1>2 DEF Frames!Packet
<1> HIDE DEF e
<1>5. Frames(p)!StampsOf(Frames(p)!PointsOf(e)) \in Seq(Nat)
  BY <1>4, PointsOfFacts, StampsFacts
<1>6. \A l \in lids : sent'[l] = sent[l] \o (IF e.lidar = l
                                   THEN Frames(p)!StampsOf(Frames(p)!PointsOf(e)) ELSE <<>>)
  <2>1. sent \in [lids -> Seq(Nat)]
    BY <1>1 DEF FramesTyped
  <2>2. \A a \in Seq(Nat) : a \o <<>> = a
    OBVIOUS
  <2> TAKE l \in lids
  <2>3. CASE l = l0
    BY <1>3, <1>4, <2>1, <2>3
  <2>4. CASE l # l0
    BY <1>3, <1>4, <2>1, <2>2, <2>4
  <2> QED
    BY <2>3, <2>4
<1>7. FramesTyped(p)'
  <2>1. sent' \in [lids -> Seq(Nat)]
    BY <1>1, <1>3, <1>5 DEF FramesTyped
  <2>2. packets' \in [lids -> [count : Nat, stamp : Nat]]
    BY <1>1, <1>3, <1>4 DEF FramesTyped
  <2>3. queue' \in Seq(Frames(p)!Packet)
    BY <1>1, <1>3, <1>4 DEF FramesTyped, Frames!TypeOK
  <2>4. sync' \in BOOLEAN /\ unsynced' \in BOOLEAN
    BY <1>1, <1>2, <1>3 DEF FramesTyped
  <2>5. Frames(p)!TypeOK'
    BY <1>1, <1>3, <2>3, <2>4 DEF FramesTyped, Frames!TypeOK
  <2> QED
    BY <1>1, <1>3, <2>1, <2>2, <2>4, <2>5 DEF FramesTyped
<1>8. ps \in Seq(Frames(p)!Packet) /\ ps' = Append(ps, e)
  <2>1. raw \in Seq(Frames(p)!Packet) /\ queue \in Seq(Frames(p)!Packet)
    BY <1>1 DEF FramesTyped, Frames!TypeOK
  <2>2. raw \o Append(queue, e) = Append(raw \o queue, e) /\ raw \o queue \in Seq(Frames(p)!Packet)
    BY <1>4, <2>1, SMTT(30)
  <2> QED
    BY <1>3, <2>2 DEF Frames!UnderWay
<1>9. \A l \in lids : /\ sent[l] \in Seq(Nat) /\ out[l] \in Seq(Nat) /\ cloud[l] \in Seq(CloudPoint)
                      /\ packets[l].stamp \in Nat
                      /\ packets'[l].stamp = IF l = l0 THEN e.stamp ELSE packets[l].stamp
  BY <1>1, <1>3 DEF FramesTyped
<1>10. Frames(p)!PointsConserved'
  <2>1. ASSUME NEW l \in lids
        PROVE  Conserved(p, l, sent'[l], out'[l], cloud'[l], ps')
    <3>1. Conserved(p, l, sent[l], out[l], cloud[l], ps)
      BY <1>1, ConservedFacts
    <3>2. Conserved(p, l, sent[l] \o (IF e.lidar = l
                                     THEN Frames(p)!StampsOf(Frames(p)!PointsOf(e)) ELSE <<>>),
                    out[l], cloud[l], Append(ps, e))
      BY <1>4, <1>8, <1>9, <3>1, ReceivedConserved
    <3> QED
      BY <1>3, <1>6, <1>8, <3>2
  <2> QED
    BY <2>1, ConservedPrimed
<1>11. StampsRise(p)'
  <2>1. ASSUME NEW l \in lids
        PROVE  Rising(l, ps', cloud'[l], packets'[l].stamp)
    <3> DEFINE c == cloud[l]
               qs == Append(ps, e)
    <3>1. Rising(l, ps, c, packets[l].stamp)
      BY <1>1 DEF StampsRise
    <3>2. /\ DOMAIN qs = 1 .. Len(ps) + 1 /\ DOMAIN ps = 1 .. Len(ps) /\ Len(ps) \in Nat
          /\ qs[Len(ps) + 1] = e /\ \A j \in 1 .. Len(ps) : qs[j] = ps[j]
          /\ \A j \in 1 .. Len(ps) : ps[j].stamp \in Nat
          /\ \A j \in 1 .. Len(ps) + 1 : j \in 1 .. Len(ps) \/ j = Len(ps) + 1
      <4>1. \A j \in 1 .. Len(ps) : ps[j] \in Frames(p)!Packet
        BY <1>8
      <4>2. /\ DOMAIN qs = 1 .. Len(ps) + 1 /\ DOMAIN ps = 1 .. Len(ps) /\ Len(ps) \in Nat
            /\ qs[Len(ps) + 1] = e /\ \A j \in 1 .. Len(ps) : qs[j] = ps[j]
        BY <1>4, <1>8
      <4>3. \A n \in Nat : \A j \in 1 .. n + 1 : j \in 1 .. n \/ j = n + 1
        OBVIOUS
      <4> QED
        BY <4>1, <4>2, <4>3 DEF Frames!Packet
    <3>3. c # <<>> => c[1].time \in Nat
      <4>1. \A s \in Seq(CloudPoint) : s # <<>> => s[1] \in CloudPoint
        OBVIOUS
      <4> QED
        BY <1>9, <4>1 DEF CloudPoint
    <3>4. cloud' = cloud /\ ps' = qs
      BY <1>3, <1>8
    <3> HIDE DEF c, qs, ps
    <3>5. CASE l = l0
      <4>1. packets'[l].stamp = e.stamp /\ e.stamp > packets[l].stamp /\ packets[l].stamp \in Nat
        BY <1>4, <1>9, <3>5
      <4>2. ASSUME NEW j \in 1 .. Len(ps) + 1, qs[j].lidar = l
            PROVE  /\ qs[j].stamp # 0 /\ qs[j].stamp <= e.stamp
                   /\ c # <<>> => c[1].time < qs[j].stamp
                   /\ \A k \in 1 .. Len(ps) + 1 :
                        qs[k].lidar = l /\ j < k => qs[j].stamp < qs[k].stamp
        <5>1. CASE j \in 1 .. Len(ps)
          <6>1. ps[j].lidar = l /\ qs[j] = ps[j] /\ ps[j].stamp \in Nat /\ j \in DOMAIN ps
            BY <3>2, <4>2, <5>1
          <6>2. /\ ps[j].stamp # 0 /\ ps[j].stamp <= packets[l].stamp
                /\ c # <<>> => c[1].time < ps[j].stamp
                /\ \A k \in DOMAIN ps : ps[k].lidar = l /\ j < k => ps[j].stamp < ps[k].stamp
            BY <3>1, <6>1 DEF Rising
          <6>3. ps[j].stamp < e.stamp
            BY <1>4, <4>1, <6>1, <6>2
          <6>4. \A k \in 1 .. Len(ps) + 1 :
                  qs[k].lidar = l /\ j < k => qs[j].stamp < qs[k].stamp
            BY <3>2, <6>1, <6>2, <6>3
          <6> QED
            BY <1>4, <6>1, <6>2, <6>3, <6>4
        <5>2. CASE j = Len(ps) + 1
          <6>1. qs[j] = e /\ \A k \in 1 .. Len(ps) + 1 : ~(j < k)
            BY <3>2, <5>2
          <6>2. e.stamp # 0 /\ (c # <<>> => c[1].time < e.stamp)
            BY <1>4, <3>1, <3>3, <4>1 DEF Rising
          <6> QED
            BY <1>4, <6>1, <6>2
        <5> QED
          BY <3>2, <5>1, <5>2
      <4>3. /\ c # <<>> => c[1].time <= e.stamp
            /\ \A i \in DOMAIN c : c[i].time # 0
        BY <1>4, <3>1, <3>3, <4>1 DEF Rising
      <4>4. Rising(l, qs, c, e.stamp)
        BY <3>2, <4>2, <4>3 DEF Rising
      <4> QED
        BY <3>4, <4>1, <4>4 DEF c
    <3>6. CASE l # l0
      <4>1. packets'[l].stamp = packets[l].stamp
        BY <1>9, <3>6
      <4>2. \A j \in 1 .. Len(ps) + 1 : qs[j].lidar = l => j \in 1 .. Len(ps) /\ qs[j] = ps[j]
        BY <1>4, <3>2, <3>6
      <4>3. Rising(l, qs, c, packets[l].stamp)
        BY <3>1, <3>2, <4>2 DEF Rising
      <4> QED
        BY <3>4, <4>1, <4>3 DEF c
    <3> QED
      BY <3>5, <3>6
  <2> QED
    BY <2>1 DEF StampsRise
<1>12. AxisKept(p)'
  <2> SUFFICES ASSUME ~unsynced'
               PROVE  /\ sync'
                      /\ \A l \in lids : Axis(p, sent'[l], out'[l], cloud'[l],
                                              next_publish'[l], frames'[l])
    BY DEF AxisKept
  <2>1. ~unsynced /\ sync'
    BY <1>2, <1>3
  <2>2. ASSUME NEW l \in lids
        PROVE  Axis(p, sent'[l], out'[l], cloud'[l], next_publish'[l], frames'[l])
    <3> DEFINE s == sent[l]
               t == sent'[l]
    <3>1. Axis(p, s, out[l], cloud[l], next_publish[l], frames[l])
      BY <1>1, <2>1 DEF AxisKept
    <3>2. s # <<>> => t # <<>> /\ t[1] = s[1]
      <4>1. \A a, b \in Seq(Nat) : a # <<>> => a \o b # <<>> /\ (a \o b)[1] = a[1]
        OBVIOUS
      <4>2. <<>> \in Seq(Nat)
        OBVIOUS
      <4> QED
        <5>1. s \in Seq(Nat)
          BY <1>9
        <5>2. PICK b \in Seq(Nat) : t = s \o b
          BY <1>5, <1>6, <4>2
        <5> HIDE DEF s, t
        <5> QED
          BY <4>1, <5>1, <5>2
    <3> HIDE DEF s, t
    <3>3. OnAxis(p, s, frames[l], next_publish[l]) => OnAxis(p, t, frames[l], next_publish[l])
      BY <3>2 DEF OnAxis
    <3>4. Axis(p, t, out[l], cloud[l], next_publish[l], frames[l])
      BY <3>1, <3>3 DEF Axis
    <3> QED
      BY <1>3, <3>4 DEF t
  <2> QED
    BY <2>1, <2>2
<1>13. Translated(p)'
  BY <1>1, <1>3 DEF Translated
<1> QED
  BY <1>7, <1>10, <1>11, <1>12, <1>13 DEF FramesInv

LEMMA QuietFrames ==
  ASSUME NEW p \in Timers, FramesInv(p), FramesTyped(p)',
         Frames(p)!UnderWay' = Frames(p)!UnderWay,
         UNCHANGED <<cloud, next_publish, frames, out, sent, packets>>,
         ~unsynced' => ~unsynced /\ (sync => sync')
  PROVE  FramesInv(p)'
<1>1. Frames(p)!PointsConserved /\ StampsRise(p) /\ AxisKept(p) /\ Translated(p)
  BY DEF FramesInv
<1>2. Frames(p)!PointsConserved'
  BY <1>1, ConservedFacts, ConservedPrimed
<1>3. StampsRise(p)'
  BY <1>1 DEF StampsRise
<1>4. AxisKept(p)'
  BY <1>1 DEF AxisKept
<1>5. Translated(p)'
  BY <1>1 DEF Translated
<1> QED
  BY <1>2, <1>3, <1>4, <1>5 DEF FramesInv

LEMMA OtherFrames ==
  ASSUME NEW p \in Timers, FramesInv(p),
         \/ \E synced \in FrameSettings[p].sync : Frames(p)!OnImuData(synced)
         \/ Frames(p)!RequestExit \/ Frames(p)!LoopTest \/ Frames(p)!WaitFor
         \/ UNCHANGED frameVars
  PROVE  FramesInv(p)'
<1>1. FramesTyped(p)
  BY DEF FramesInv
<1>2. CASE \E synced \in FrameSettings[p].sync : Frames(p)!OnImuData(synced)
  <2>1. PICK synced \in FrameSettings[p].sync : Frames(p)!OnImuData(synced)
    BY <1>2
  <2>2. /\ synced \in BOOLEAN /\ sync' = synced /\ unsynced' = (unsynced \/ ~synced)
        /\ UNCHANGED <<queue, pc, raw, cloud, next_publish, first, lag, quit, frames, out, sent,
                       packets>>
    BY <2>1, FrameFacts DEF Frames!OnImuData, Frames!timer, Frames!history
  <2>3. FramesTyped(p)' /\ Frames(p)!UnderWay' = Frames(p)!UnderWay
    BY <1>1, <2>2 DEF FramesTyped, Frames!TypeOK, Frames!UnderWay
  <2> QED
    BY <2>2, <2>3, QuietFrames
<1>3. CASE Frames(p)!RequestExit
  <2>1. /\ quit' = TRUE
        /\ UNCHANGED <<sync, queue, pc, raw, cloud, next_publish, first, lag, frames, out, sent,
                       packets, unsynced>>
    BY <1>3 DEF Frames!RequestExit, Frames!timer, Frames!history
  <2>2. FramesTyped(p)' /\ Frames(p)!UnderWay' = Frames(p)!UnderWay
    BY <1>1, <2>1 DEF FramesTyped, Frames!TypeOK, Frames!UnderWay
  <2> QED
    BY <2>1, <2>2, QuietFrames
<1>4. CASE UNCHANGED frameVars
  <2>1. UNCHANGED <<sync, queue, pc, raw, cloud, next_publish, first, lag, quit, frames, out, sent,
                    packets, unsynced>>
    BY <1>4 DEF frameVars
  <2>2. FramesTyped(p)' /\ Frames(p)!UnderWay' = Frames(p)!UnderWay
    BY <1>1, <2>1 DEF FramesTyped, Frames!TypeOK, Frames!UnderWay
  <2> QED
    BY <2>1, <2>2, QuietFrames
<1>5. CASE Frames(p)!LoopTest \/ Frames(p)!WaitFor
  <2>1. UNCHANGED <<sync, cloud, next_publish, first, lag, quit, frames, out, sent, packets,
                    unsynced>>
    BY <1>5 DEF Frames!LoopTest, Frames!WaitFor, Frames!Idle, Frames!timer, Frames!history
  <2>2. raw = <<>> /\ pc # "process"
    BY <1>1, <1>5 DEF Frames!LoopTest, Frames!WaitFor, FramesTyped, Frames!TypeOK
  <2>3. \/ UNCHANGED <<raw, queue>> /\ pc' \in {"loop", "waiting", "done"}
        \/ queue # <<>> /\ raw' = <<Head(queue)>> /\ queue' = Tail(queue) /\ pc' = "process"
    BY <1>5 DEF Frames!LoopTest, Frames!WaitFor, Frames!Take
  <2>4. queue \in Seq(Frames(p)!Packet) /\ Frames(p)!UnderWay = queue
    BY <1>1, <2>2, UnderWayFacts DEF FramesTyped, Frames!TypeOK
  <2>5. CASE UNCHANGED <<raw, queue>> /\ pc' \in {"loop", "waiting", "done"}
    <3>1. FramesTyped(p)' /\ Frames(p)!UnderWay' = Frames(p)!UnderWay
      BY <1>1, <2>1, <2>2, <2>5 DEF FramesTyped, Frames!TypeOK, Frames!UnderWay
    <3> QED
      BY <2>1, <3>1, QuietFrames
  <2>6. CASE queue # <<>> /\ raw' = <<Head(queue)>> /\ queue' = Tail(queue) /\ pc' = "process"
    <3>1. /\ <<Head(queue)>> \in Seq(Frames(p)!Packet) /\ Len(<<Head(queue)>>) <= 1
          /\ Tail(queue) \in Seq(Frames(p)!Packet) /\ <<Head(queue)>> \o Tail(queue) = queue
          /\ <<Head(queue)>> # <<>>
      BY <2>4, <2>6
    <3>2. FramesTyped(p)'
      <4>1. Frames(p)!TypeOK'
        BY <1>1, <2>1, <2>6, <3>1 DEF FramesTyped, Frames!TypeOK
      <4> QED
        BY <1>1, <2>1, <2>6, <3>1, <4>1 DEF FramesTyped
    <3>3. Frames(p)!UnderWay' = Frames(p)!UnderWay
      BY <2>4, <2>6, <3>1 DEF Frames!UnderWay
    <3> QED
      BY <2>1, <3>2, <3>3, QuietFrames
  <2> QED
    BY <2>3, <2>5, <2>6
<1> QED
  BY <1>2, <1>3, <1>4, <1>5

(* What a call of CheckTimer does to a lidar, either way.                  *)
LEMMA ProcessShape ==
  ASSUME NEW p \in Timers, FramesTyped(p), NEW elapsed \in 0 .. FrameSettings[p].max_lag,
         Frames(p)!Process(elapsed)
  PROVE  LET r == raw[1]
             New(l) == NewCloud(p, cloud[l], r, l)
             lids == FrameSettings[p].lidars
         IN  /\ raw # <<>> /\ raw' = <<>> /\ pc' = "loop" /\ r \in Frames(p)!Packet
             /\ UNCHANGED <<sync, queue, quit, sent, packets, unsynced>>
             /\ \A l \in lids :
                  \/ cloud'[l] = New(l) /\ out'[l] = out[l]
                  \/ cloud'[l] = <<>> /\ out'[l] = out[l] \o Frames(p)!StampsOf(New(l))
             /\ cloud' \in [lids -> Seq(CloudPoint)] /\ frames' \in [lids -> Nat]
             /\ out' \in [lids -> Seq(Nat)]
             /\ first' \in BOOLEAN /\ lag' \in 0 .. FrameSettings[p].max_lag
             /\ sync => Frames(p)!CheckTimerSynced(r.lidar, [l \in lids |-> New(l)])
             /\ ~sync => next_publish' = next_publish
<1> DEFINE r == raw[1]
           New(l) == NewCloud(p, cloud[l], r, l)
           lids == FrameSettings[p].lidars
           clouds == [l \in lids |-> New(l)]
<1>1. /\ pc = "process" /\ raw # <<>> /\ raw' = <<>> /\ pc' = "loop"
      /\ UNCHANGED <<sync, queue, quit, sent, packets, unsynced>>
  BY DEF Frames!Process, FramesTyped, Frames!TypeOK
<1>2. r \in Frames(p)!Packet /\ r.lidar \in lids
  BY <1>1, UnderWayFacts DEF Frames!Packet
<1>3. \A l \in lids : cloud[l] \in Seq(CloudPoint) /\ New(l) \in Seq(CloudPoint)
                      /\ out[l] \in Seq(Nat) /\ frames[l] \in Nat
  BY <1>2, NewCloudFacts DEF FramesTyped
<1>4. [cloud EXCEPT ![r.lidar] = cloud[r.lidar] \o Frames(p)!PointsOf(r)] = clouds
  <2>1. cloud \in [lids -> Seq(CloudPoint)]
    BY DEF FramesTyped
  <2>2. \A a \in Seq(CloudPoint) : a \o <<>> = a
    OBVIOUS
  <2>3. \A l \in lids : l # r.lidar => New(l) = cloud[l]
    BY <1>3, <2>2 DEF NewCloud
  <2>4. New(r.lidar) = cloud[r.lidar] \o Frames(p)!PointsOf(r)
    BY DEF NewCloud
  <2> HIDE DEF New
  <2> QED
    BY <1>2, <2>1, <2>3, <2>4
<1>5. /\ sync => Frames(p)!CheckTimerSynced(r.lidar, clouds) /\ UNCHANGED <<first, lag>>
      /\ ~sync => lag + elapsed <= FrameSettings[p].max_lag
                  /\ Frames(p)!CheckTimerUnsynced(clouds, elapsed)
  BY <1>4 DEF Frames!Process
<1> HIDE DEF New, r
<1>6. clouds \in [lids -> Seq(CloudPoint)] /\ \A l \in lids : clouds[l] = New(l)
  BY <1>3
<1>7. ASSUME NEW ready \in SUBSET lids, Frames(p)!Publish(ready, clouds)
      PROVE  /\ \A l \in lids :
                  \/ cloud'[l] = New(l) /\ out'[l] = out[l]
                  \/ cloud'[l] = <<>> /\ out'[l] = out[l] \o Frames(p)!StampsOf(New(l))
             /\ cloud' \in [lids -> Seq(CloudPoint)] /\ frames' \in [lids -> Nat]
             /\ out' \in [lids -> Seq(Nat)]
  <2> DEFINE full == {l \in ready : clouds[l] # <<>>}
  <2>1. /\ frames' = [l \in lids |-> frames[l] + IF l \in full THEN 1 ELSE 0]
        /\ out' = [l \in lids |-> out[l] \o IF l \in full THEN Frames(p)!StampsOf(clouds[l])
                                            ELSE <<>>]
        /\ cloud' = [l \in lids |-> IF l \in ready THEN <<>> ELSE clouds[l]]
    BY <1>7 DEF Frames!Publish
  <2>2. \A a \in Seq(Nat) : a \o <<>> = a
    OBVIOUS
  <2> HIDE DEF clouds
  <2>3. ASSUME NEW l \in lids
        PROVE  \/ cloud'[l] = New(l) /\ out'[l] = out[l]
               \/ cloud'[l] = <<>> /\ out'[l] = out[l] \o Frames(p)!StampsOf(New(l))
    <3>1. CASE l \in full
      BY <1>6, <2>1, <3>1
    <3>2. CASE l \notin full
      <4>1. out'[l] = out[l]
        BY <1>3, <2>1, <2>2, <3>2
      <4>2. l \in ready => New(l) = <<>>
        BY <1>6, <3>2
      <4> QED
        BY <1>6, <2>1, <4>1, <4>2, ZenonT(30)
    <3> QED
      BY <3>1, <3>2
  <2>4. cloud' \in [lids -> Seq(CloudPoint)]
    BY <1>6, <2>1
  <2>5. frames' \in [lids -> Nat]
    BY <1>3, <2>1
  <2>6. out' \in [lids -> Seq(Nat)]
    <3>1. \A l \in lids : out[l] \in Seq(Nat) /\ Frames(p)!StampsOf(New(l)) \in Seq(Nat)
                          /\ <<>> \in Seq(Nat)
      BY <1>3, StampsFacts
    <3>2. \A a, b \in Seq(Nat) : a \o b \in Seq(Nat)
      OBVIOUS
    <3>3. \A l \in lids : out[l] \o (IF l \in full THEN Frames(p)!StampsOf(clouds[l]) ELSE <<>>)
                            \in Seq(Nat)
      BY <1>6, <3>1, <3>2
    <3> QED
      BY <2>1, <3>3
  <2> QED
    BY <2>3, <2>4, <2>5, <2>6
<1>8. ASSUME cloud' = clouds, UNCHANGED <<frames, out>>
      PROVE  /\ \A l \in lids : cloud'[l] = New(l) /\ out'[l] = out[l]
             /\ cloud' \in [lids -> Seq(CloudPoint)] /\ frames' \in [lids -> Nat]
             /\ out' \in [lids -> Seq(Nat)]
  <2>1. frames \in [lids -> Nat] /\ out \in [lids -> Seq(Nat)]
    BY DEF FramesTyped
  <2> HIDE DEF clouds
  <2> QED
    BY <1>6, <1>8, <2>1
<1>9. CASE sync
  <2>1. Frames(p)!CheckTimerSynced(r.lidar, clouds) /\ UNCHANGED <<first, lag>>
    BY <1>5, <1>9
  <2>2. \/ cloud' = clouds /\ UNCHANGED <<frames, out>>
        \/ Frames(p)!Publish({r.lidar}, clouds)
    BY <2>1 DEF Frames!CheckTimerSynced, Frames!history
  <2>3. {r.lidar} \in SUBSET lids
    BY <1>2 DEF r
  <2>4. first' \in BOOLEAN /\ lag' \in 0 .. FrameSettings[p].max_lag
    BY <2>1 DEF FramesTyped, Frames!TypeOK
  <2> HIDE DEF clouds
  <2>5. /\ \A l \in lids :
             \/ cloud'[l] = New(l) /\ out'[l] = out[l]
             \/ cloud'[l] = <<>> /\ out'[l] = out[l] \o Frames(p)!StampsOf(New(l))
        /\ cloud' \in [lids -> Seq(CloudPoint)] /\ frames' \in [lids -> Nat]
        /\ out' \in [lids -> Seq(Nat)]
    BY <1>7, <1>8, <2>2, <2>3
  <2> QED
    BY <1>1, <1>2, <1>9, <2>1, <2>4, <2>5, Zenon DEF New, r, clouds
<1>10. CASE ~sync
  <2>1. lag + elapsed <= FrameSettings[p].max_lag /\ Frames(p)!CheckTimerUnsynced(clouds, elapsed)
    BY <1>5, <1>10
  <2>2. \/ cloud' = clouds /\ UNCHANGED <<frames, out>>
        \/ Frames(p)!Publish(lids, clouds)
    BY <2>1 DEF Frames!CheckTimerUnsynced, Frames!history
  <2>3. lids \in SUBSET lids
    OBVIOUS
  <2>4. first' \in BOOLEAN /\ next_publish' = next_publish
    BY <2>1 DEF Frames!CheckTimerUnsynced
  <2>5. lag' \in 0 .. FrameSettings[p].max_lag
    <3>1. lag \in 0 .. FrameSettings[p].max_lag
      BY DEF FramesTyped, Frames!TypeOK
    <3>2. FrameSettings[p].interval \in Nat \ {0} /\ FrameSettings[p].max_lag \in Nat
      BY FrameFacts
    <3>3. lag' = IF first THEN 0
                 ELSE IF lag + elapsed < FrameSettings[p].interval THEN lag + elapsed
                 ELSE lag + elapsed - FrameSettings[p].interval
      BY <2>1 DEF Frames!CheckTimerUnsynced
    <3> QED
      BY <2>1, <3>1, <3>2, <3>3
  <2> HIDE DEF clouds
  <2>6. /\ \A l \in lids :
             \/ cloud'[l] = New(l) /\ out'[l] = out[l]
             \/ cloud'[l] = <<>> /\ out'[l] = out[l] \o Frames(p)!StampsOf(New(l))
        /\ cloud' \in [lids -> Seq(CloudPoint)] /\ frames' \in [lids -> Nat]
        /\ out' \in [lids -> Seq(Nat)]
    BY <1>7, <1>8, <2>2, <2>3
  <2> QED
    BY <1>1, <1>2, <1>10, <2>4, <2>5, <2>6, Zenon DEF New, r, clouds
<1> QED
  BY <1>9, <1>10

(* CheckTimer with synchronisation: nothing but the lidar at hand, and     *)
(* that one waits, goes on towards its boundary, or publishes.             *)
LEMMA SyncedShape ==
  ASSUME NEW p \in Timers, FramesTyped(p), NEW l \in FrameSettings[p].lidars,
         NEW clouds \in [FrameSettings[p].lidars -> Seq(CloudPoint)],
         Frames(p)!CheckTimerSynced(l, clouds)
  PROVE  LET lids == FrameSettings[p].lidars
             d == clouds[l]
             axis == IF next_publish[l] = 0 THEN d[1].time + FrameSettings[p].interval
                     ELSE next_publish[l]
         IN  /\ next_publish' \in [lids -> Nat]
             /\ \A m \in lids \ {l} : /\ cloud'[m] = clouds[m] /\ out'[m] = out[m]
                                      /\ next_publish'[m] = next_publish[m]
                                      /\ frames'[m] = frames[m]
             /\ \/ /\ UNCHANGED <<next_publish, frames, out>> /\ cloud'[l] = d
                   /\ d = <<>> \/ d[Len(d)].time = 0 \/ d[1].time = 0
                               \/ d[Len(d)].time < d[1].time
                \/ /\ UNCHANGED <<frames, out>> /\ cloud'[l] = d /\ d # <<>>
                   /\ next_publish'[l] = axis /\ axis \in Nat \ {0} /\ d[Len(d)].time < axis
                \/ /\ cloud'[l] = <<>> /\ frames'[l] = frames[l] + 1 /\ d # <<>>
                   /\ axis \in Nat \ {0}
                   /\ \E n \in Nat :
                        next_publish'[l] = axis + (n + 1) * FrameSettings[p].interval
<1> DEFINE lids == FrameSettings[p].lidars
           d == clouds[l]
           I == FrameSettings[p].interval
           axis == IF next_publish[l] = 0 THEN d[1].time + I ELSE next_publish[l]
           recent == IF d = <<>> THEN 0 ELSE d[Len(d)].time
           base == IF d = <<>> THEN 0 ELSE d[1].time
           wait == recent = 0 \/ base = 0 \/ recent < base
           realAxis == IF next_publish[l] = 0 THEN base + I ELSE next_publish[l]
<1>1. /\ next_publish \in [lids -> Nat] /\ frames \in [lids -> Nat] /\ out \in [lids -> Seq(Nat)]
      /\ I \in Nat \ {0}
  BY FrameFacts DEF FramesTyped, Frames!TypeOK
<1>2. IF wait
      THEN /\ cloud' = clouds /\ UNCHANGED <<next_publish, frames, out>>
      ELSE IF recent < realAxis
      THEN /\ next_publish' = [next_publish EXCEPT ![l] = realAxis]
           /\ cloud' = clouds /\ UNCHANGED <<frames, out>>
      ELSE /\ Frames(p)!Publish({l}, clouds)
           /\ next_publish' = [next_publish EXCEPT ![l] = Frames(p)!Boundary(realAxis, recent)]
  BY DEF Frames!CheckTimerSynced, Frames!RecentTime, Frames!BaseTime, Frames!AxisOf, Frames!history
<1>3. d # <<>> => d[1].time \in Nat /\ d[Len(d)].time \in Nat
  <2>1. \A s \in Seq(CloudPoint) : s # <<>> => s[1] \in CloudPoint /\ s[Len(s)] \in CloudPoint
    OBVIOUS
  <2>2. d \in Seq(CloudPoint)
    OBVIOUS
  <2> HIDE DEF d
  <2> QED
    BY <2>1, <2>2 DEF CloudPoint
<1> HIDE DEF d, I
<1>4. CASE wait
  <2>1. cloud' = clouds /\ UNCHANGED <<next_publish, frames, out>>
    BY <1>2, <1>4
  <2>2. d = <<>> \/ d[Len(d)].time = 0 \/ d[1].time = 0 \/ d[Len(d)].time < d[1].time
    BY <1>4
  <2> HIDE DEF wait, recent, base
  <2> QED
    BY <1>1, <2>1, <2>2 DEF d
<1>5. CASE ~wait
  <2>1. d # <<>> /\ recent = d[Len(d)].time /\ base = d[1].time /\ realAxis = axis
    BY <1>5
  <2>2. axis \in Nat \ {0} /\ recent \in Nat
    <3>1. next_publish[l] \in Nat
      BY <1>1
    <3> QED
      BY <1>1, <1>3, <2>1, <3>1
  <2>3. IF recent < axis
        THEN /\ next_publish' = [next_publish EXCEPT ![l] = axis]
             /\ cloud' = clouds /\ UNCHANGED <<frames, out>>
        ELSE /\ Frames(p)!Publish({l}, clouds)
             /\ next_publish' = [next_publish EXCEPT ![l] = Frames(p)!Boundary(axis, recent)]
    BY <1>2, <1>5, <2>1
  <2> HIDE DEF wait, recent, base, realAxis, axis
  <2>4. CASE recent < axis
    <3>1. /\ next_publish' = [next_publish EXCEPT ![l] = axis]
          /\ cloud' = clouds /\ UNCHANGED <<frames, out>>
      BY <2>3, <2>4
    <3> QED
      BY <1>1, <2>1, <2>2, <2>4, <3>1 DEF d, axis, I
  <2>5. CASE ~(recent < axis)
    <3>1. /\ Frames(p)!Publish({l}, clouds)
          /\ next_publish' = [next_publish EXCEPT ![l] = Frames(p)!Boundary(axis, recent)]
      BY <2>3, <2>5
    <3>2. PICK n \in Nat : Frames(p)!Boundary(axis, recent) = axis + (n + 1) * I
      <4>1. axis <= recent /\ axis \in Nat
        BY <2>2, <2>5
      <4> QED
        BY <2>2, <4>1, BoundaryAhead, Zenon DEF I
    <3>3. axis + (n + 1) * I \in Nat
      <4>1. \A a, b \in Nat : a * b \in Nat /\ a + b \in Nat
        OBVIOUS
      <4>2. axis \in Nat /\ I \in Nat /\ n + 1 \in Nat
        BY <1>1, <2>2
      <4>3. (n + 1) * I \in Nat
        BY <4>1, <4>2
      <4> QED
        BY <4>1, <4>2, <4>3
    <3>4. next_publish' \in [lids -> Nat] /\ next_publish'[l] = axis + (n + 1) * I
          /\ \A m \in lids \ {l} : next_publish'[m] = next_publish[m]
      BY <1>1, <3>1, <3>2, <3>3
    <3> DEFINE full == {m \in {l} : clouds[m] # <<>>}
    <3>5. /\ frames' = [m \in lids |-> frames[m] + IF m \in full THEN 1 ELSE 0]
          /\ out' = [m \in lids |-> out[m] \o IF m \in full THEN Frames(p)!StampsOf(clouds[m])
                                              ELSE <<>>]
          /\ cloud' = [m \in lids |-> IF m \in {l} THEN <<>> ELSE clouds[m]]
      BY <3>1 DEF Frames!Publish
    <3>6. full = {l}
      BY <2>1 DEF d
    <3> HIDE DEF full
    <3>7. cloud'[l] = <<>> /\ frames'[l] = frames[l] + 1
      BY <3>5, <3>6
    <3>8. ASSUME NEW m \in lids \ {l}
          PROVE  cloud'[m] = clouds[m] /\ out'[m] = out[m] /\ frames'[m] = frames[m]
      <4>1. m \in lids /\ m \notin full /\ frames[m] \in Nat /\ out[m] \in Seq(Nat)
        BY <1>1, <3>6
      <4>2. \A a \in Seq(Nat) : a \o <<>> = a
        OBVIOUS
      <4> QED
        BY <3>5, <4>1, <4>2
    <3> QED
      BY <2>1, <2>2, <3>4, <3>7, <3>8 DEF d, axis, I
  <2> QED
    BY <2>4, <2>5
<1> QED
  BY <1>4, <1>5

LEMMA ProcessFrames ==
  ASSUME NEW p \in Timers, FramesInv(p), NEW elapsed \in 0 .. FrameSettings[p].max_lag,
         Frames(p)!Process(elapsed)
  PROVE  FramesInv(p)'
<1> DEFINE lids == FrameSettings[p].lidars
           e == raw[1]
           ps == Frames(p)!UnderWay
           qs == Tail(ps)
           New(l) == NewCloud(p, cloud[l], e, l)
<1>1. FramesTyped(p) /\ Frames(p)!PointsConserved /\ StampsRise(p) /\ AxisKept(p)
      /\ Translated(p)
  BY DEF FramesInv
<1>2. /\ raw # <<>> /\ raw' = <<>> /\ pc' = "loop" /\ e \in Frames(p)!Packet
      /\ UNCHANGED <<sync, queue, quit, sent, packets, unsynced>>
      /\ \A l \in lids :
           \/ cloud'[l] = New(l) /\ out'[l] = out[l]
           \/ cloud'[l] = <<>> /\ out'[l] = out[l] \o Frames(p)!StampsOf(New(l))
      /\ cloud' \in [lids -> Seq(CloudPoint)] /\ frames' \in [lids -> Nat]
      /\ out' \in [lids -> Seq(Nat)]
      /\ first' \in BOOLEAN /\ lag' \in 0 .. FrameSettings[p].max_lag
      /\ sync => Frames(p)!CheckTimerSynced(e.lidar, [l \in lids |-> New(l)])
      /\ ~sync => next_publish' = next_publish
  BY <1>1, ProcessShape
<1>3. /\ ps \in Seq(Frames(p)!Packet) /\ ps # <<>> /\ ps[1] = e /\ qs = queue
      /\ qs \in Seq(Frames(p)!Packet)
  <2>1. queue \in Seq(Frames(p)!Packet)
    BY <1>1 DEF FramesTyped, Frames!TypeOK
  <2> QED
    BY <1>1, <1>2, <2>1, UnderWayFacts
<1>4. ps' = qs
  <2>1. queue \in Seq(Frames(p)!Packet)
    BY <1>1 DEF FramesTyped, Frames!TypeOK
  <2>2. <<>> \o queue = queue
    BY <2>1
  <2> QED
    BY <1>2, <1>3, <2>2 DEF Frames!UnderWay
<1>5. \A l \in lids : /\ sent[l] \in Seq(Nat) /\ out[l] \in Seq(Nat)
                      /\ cloud[l] \in Seq(CloudPoint) /\ packets[l].stamp \in Nat
                      /\ New(l) \in Seq(CloudPoint)
                      /\ next_publish[l] \in Nat /\ frames[l] \in Nat
  <2>1. \A l \in lids : /\ sent[l] \in Seq(Nat) /\ out[l] \in Seq(Nat)
                        /\ cloud[l] \in Seq(CloudPoint) /\ packets[l].stamp \in Nat
                        /\ next_publish[l] \in Nat /\ frames[l] \in Nat
    BY <1>1 DEF FramesTyped, Frames!TypeOK
  <2> QED
    BY <1>2, <2>1, NewCloudFacts
<1>6. e.lidar \in lids
  BY <1>2 DEF Frames!Packet
<1>7. [l \in lids |-> New(l)] \in [lids -> Seq(CloudPoint)]
  BY <1>5
<1>8. \A l \in lids : Conserved(p, l, sent[l], out[l], New(l), qs)
  <2> TAKE l \in lids
  <2>1. Conserved(p, l, sent[l], out[l], cloud[l], ps)
    BY <1>1, ConservedFacts
  <2> QED
    BY <1>3, <1>5, <2>1, ConvertedConserved DEF NewCloud
<1>9. \A l \in lids : /\ Rising(l, qs, New(l), packets[l].stamp)
                      /\ Rising(l, qs, <<>>, packets[l].stamp)
                      /\ New(l) # <<>> => New(l)[1].time # 0
                      /\ Brings(p, e, l) => /\ New(l) # <<>>
                                            /\ New(l)[Len(New(l))].time >= New(l)[1].time
                                            /\ New(l)[Len(New(l))].time # 0
  <2> TAKE l \in lids
  <2>1. Rising(l, ps, cloud[l], packets[l].stamp)
    BY <1>1 DEF StampsRise
  <2> QED
    BY <1>3, <1>5, <2>1, NewCloudRises
<1>10. \A l \in lids : Shifts(p, New(l)) /\ Shifts(p, <<>>)
  BY <1>1, <1>2, <1>5, NewCloudShifts DEF Translated
<1>11. \A l \in lids :
         LET c == cloud[l]
             d == New(l)
         IN  /\ DOMAIN d = 1 .. Len(d) /\ ~Brings(p, e, l) => d = c
             /\ Brings(p, e, l) =>
                  /\ Len(d) = Len(c) + 2 /\ \A i \in 1 .. Len(c) : d[i] = c[i]
                  /\ d[Len(c) + 1].time = e.stamp
                  /\ d[Len(c) + 2].time = e.stamp + FrameSettings[p].point_step
  BY <1>2, <1>5, NewCloudFacts, SMTT(30)
<1> HIDE DEF New, ps, qs, e
<1>12. FramesTyped(p)'
  <2>1. next_publish' \in [lids -> Nat]
    <3>1. CASE sync
      BY <1>1, <1>2, <1>6, <1>7, <3>1, SyncedShape
    <3>2. CASE ~sync
      BY <1>1, <1>2, <3>2 DEF FramesTyped, Frames!TypeOK
    <3> QED
      BY <3>1, <3>2
  <2>2. Frames(p)!TypeOK'
    BY <1>1, <1>2, <2>1 DEF FramesTyped, Frames!TypeOK
  <2>3. raw' \in Seq(Frames(p)!Packet) /\ Len(raw') <= 1
    BY <1>2
  <2> QED
    BY <1>1, <1>2, <2>2, <2>3 DEF FramesTyped
<1>13. Frames(p)!PointsConserved'
  <2>1. ASSUME NEW l \in lids
        PROVE  Conserved(p, l, sent'[l], out'[l], cloud'[l], ps')
    <3>1. Conserved(p, l, sent[l], out[l] \o Frames(p)!StampsOf(New(l)), <<>>, qs)
      BY <1>3, <1>5, <1>8, PublishedConserved
    <3>2. CASE cloud'[l] = New(l) /\ out'[l] = out[l]
      BY <1>2, <1>4, <1>8, <3>2
    <3>3. CASE cloud'[l] = <<>> /\ out'[l] = out[l] \o Frames(p)!StampsOf(New(l))
      BY <1>2, <1>4, <3>1, <3>3
    <3> QED
      BY <1>2, <3>2, <3>3
  <2> QED
    BY <2>1, ConservedPrimed DEF ps
<1>14. StampsRise(p)'
  <2>1. \A l \in lids : Rising(l, ps', cloud'[l], packets'[l].stamp)
    BY <1>2, <1>4, <1>9
  <2> QED
    BY <2>1 DEF StampsRise, ps
<1>15. Translated(p)'
  BY <1>2, <1>10 DEF Translated
<1>16. AxisKept(p)'
  <2> SUFFICES ASSUME ~unsynced'
               PROVE  /\ sync'
                      /\ \A l \in lids : Axis(p, sent'[l], out'[l], cloud'[l],
                                              next_publish'[l], frames'[l])
    BY DEF AxisKept
  <2>1. ~unsynced /\ sync /\ sync'
    BY <1>1, <1>2, <1>3 DEF AxisKept, ps
  <2> DEFINE d == New(e.lidar)
             c == cloud[e.lidar]
             n == next_publish[e.lidar]
             s == sent[e.lidar]
             I == FrameSettings[p].interval
             axis == IF n = 0 THEN d[1].time + I ELSE n
  <2>2. /\ \A m \in lids \ {e.lidar} : /\ cloud'[m] = New(m) /\ out'[m] = out[m]
                                       /\ next_publish'[m] = next_publish[m]
                                       /\ frames'[m] = frames[m]
        /\ \/ /\ UNCHANGED <<next_publish, frames, out>> /\ cloud'[e.lidar] = d
              /\ d = <<>> \/ d[Len(d)].time = 0 \/ d[1].time = 0 \/ d[Len(d)].time < d[1].time
           \/ /\ UNCHANGED <<frames, out>> /\ cloud'[e.lidar] = d /\ d # <<>>
              /\ next_publish'[e.lidar] = axis /\ axis \in Nat \ {0} /\ d[Len(d)].time < axis
           \/ /\ cloud'[e.lidar] = <<>> /\ frames'[e.lidar] = frames[e.lidar] + 1 /\ d # <<>>
              /\ axis \in Nat \ {0}
              /\ \E k \in Nat : next_publish'[e.lidar] = axis + (k + 1) * I
    <3> DEFINE clouds == [l \in lids |-> New(l)]
    <3>1. Frames(p)!CheckTimerSynced(e.lidar, clouds)
      BY <1>2, <2>1
    <3>2. clouds[e.lidar] = d /\ \A m \in lids : clouds[m] = New(m)
      BY <1>6
    <3> HIDE DEF clouds
    <3>3. clouds \in [lids -> Seq(CloudPoint)]
      BY <1>7 DEF clouds
    <3> QED
      BY <1>1, <1>6, <3>1, <3>2, <3>3, SyncedShape
  <2>3. ASSUME NEW l \in lids
        PROVE  Axis(p, sent[l], out[l], cloud[l], next_publish[l], frames[l])
    BY <1>1, <2>1 DEF AxisKept
  <2>4. \A l \in lids : l # e.lidar => New(l) = cloud[l]
    BY <1>11 DEF Brings
  <2>5. ASSUME NEW l \in lids \ {e.lidar}
        PROVE  Axis(p, sent'[l], out'[l], cloud'[l], next_publish'[l], frames'[l])
    BY <1>2, <2>2, <2>3, <2>4
  <2>6. Axis(p, s, out[e.lidar], c, n, frames[e.lidar])
    BY <1>6, <2>3
  <2>7. d # <<>> /\ axis \in Nat => OnAxis(p, s, frames[e.lidar], axis)
    <3> HAVE d # <<>> /\ axis \in Nat
    <3>1. CASE n # 0
      BY <2>6, <3>1 DEF Axis
    <3>2. CASE n = 0
      <4>1. out[e.lidar] = <<>> /\ frames[e.lidar] = 0
        BY <2>6, <3>2 DEF Axis
      <4>2. Conserved(p, e.lidar, s, <<>>, d, qs)
        BY <1>6, <1>8, <4>1
      <4>3. d \in Seq(CloudPoint) /\ s \in Seq(Nat)
        BY <1>5, <1>6
      <4>4. Cardinality(Frames(p)!Bringing(qs, e.lidar)) \in Nat
        BY <1>3, BringingFacts
      <4> HIDE DEF d, s
      <4>5. Len(d) \in Nat \ {0} /\ 1 \in DOMAIN d
        BY <4>3
      <4>6. s[Len(<<>>) + 1] = d[1].time
        BY <4>2, <4>5 DEF Conserved
      <4>7. Len(s) = Len(<<>>) + Len(d) + 2 * Cardinality(Frames(p)!Bringing(qs, e.lidar))
        BY <4>2 DEF Conserved
      <4>8. s # <<>> /\ s[1] = d[1].time
        BY <4>3, <4>4, <4>5, <4>6, <4>7
      <4>9. I \in Nat \ {0}
        BY FrameFacts
      <4>10. s[1] \in Nat
        BY <4>3, <4>8
      <4>11. axis = s[1] + 1 * I /\ 0 < 1 /\ 1 \in Nat
        BY <3>2, <4>8, <4>9, <4>10
      <4> QED
        BY <4>1, <4>8, <4>11 DEF OnAxis
    <3> QED
      BY <3>1, <3>2
  <2>8. Axis(p, s, out'[e.lidar], cloud'[e.lidar], next_publish'[e.lidar], frames'[e.lidar])
    <3>1. CASE /\ UNCHANGED <<next_publish, frames, out>> /\ cloud'[e.lidar] = d
               /\ d = <<>> \/ d[Len(d)].time = 0 \/ d[1].time = 0 \/ d[Len(d)].time < d[1].time
      <4>1. ~Brings(p, e, e.lidar)
        <5>1. ASSUME d # <<>> PROVE d[1].time \in Nat /\ d[Len(d)].time \in Nat
          <6>1. \A a \in Seq(CloudPoint) : a # <<>> => a[1] \in CloudPoint /\ a[Len(a)] \in CloudPoint
            OBVIOUS
          <6>2. d \in Seq(CloudPoint)
            BY <1>5, <1>6
          <6> HIDE DEF d
          <6> QED
            BY <5>1, <6>1, <6>2 DEF CloudPoint
        <5>2. /\ d # <<>> => d[1].time # 0
              /\ Brings(p, e, e.lidar) => /\ d # <<>> /\ d[Len(d)].time >= d[1].time
                                          /\ d[Len(d)].time # 0
          BY <1>6, <1>9
        <5> HIDE DEF d
        <5> QED
          BY <3>1, <5>1, <5>2
      <4>2. d = c
        BY <1>6, <1>11, <4>1
      <4> QED
        BY <2>6, <3>1, <4>2
    <3>2. CASE /\ UNCHANGED <<frames, out>> /\ cloud'[e.lidar] = d /\ d # <<>>
               /\ next_publish'[e.lidar] = axis /\ axis \in Nat \ {0} /\ d[Len(d)].time < axis
      <4>1. OnAxis(p, s, frames[e.lidar], axis)
        BY <2>7, <3>2
      <4>2. \A i \in DOMAIN c : n # 0 /\ c[i].time < axis
        BY <2>6 DEF Axis
      <4>3. \A i \in DOMAIN d : d[i].time < axis
        <5>1. CASE ~Brings(p, e, e.lidar)
          <6>1. d = c
            BY <1>6, <1>11, <5>1
          <6> QED
            BY <4>2, <6>1
        <5>2. CASE Brings(p, e, e.lidar)
          <6>1. /\ DOMAIN d = 1 .. Len(d) /\ Len(d) = Len(c) + 2
                /\ \A i \in 1 .. Len(c) : d[i] = c[i]
                /\ d[Len(c) + 1].time = e.stamp
                /\ d[Len(c) + 2].time = e.stamp + FrameSettings[p].point_step
            BY <1>6, <1>11, <5>2
          <6>2. Len(c) \in Nat /\ DOMAIN c = 1 .. Len(c)
            BY <1>5, <1>6
          <6>3. e.stamp \in Nat /\ FrameSettings[p].point_step \in Nat
            BY <1>2, FrameFacts DEF Frames!Packet
          <6>4. axis \in Nat /\ d[Len(d)].time < axis
            BY <3>2
          <6> HIDE DEF c, d, axis
          <6>5. d[Len(d)].time = e.stamp + FrameSettings[p].point_step
            BY <6>1
          <6>6. e.stamp < axis /\ e.stamp + FrameSettings[p].point_step < axis
            BY <6>3, <6>4, <6>5
          <6> TAKE i \in DOMAIN d
          <6>7. i \in 1 .. Len(c) \/ i = Len(c) + 1 \/ i = Len(c) + 2
            BY <6>1, <6>2
          <6>8. CASE i \in 1 .. Len(c)
            BY <4>2, <6>1, <6>2, <6>8
          <6>9. CASE i = Len(c) + 1 \/ i = Len(c) + 2
            BY <6>1, <6>6, <6>9
          <6> QED
            BY <6>7, <6>8, <6>9
        <5> QED
          BY <5>1, <5>2
      <4> HIDE DEF d, c, n, s, axis
      <4> QED
        BY <3>2, <4>1, <4>3 DEF Axis
    <3>3. CASE /\ cloud'[e.lidar] = <<>> /\ frames'[e.lidar] = frames[e.lidar] + 1 /\ d # <<>>
               /\ axis \in Nat \ {0}
               /\ \E k \in Nat : next_publish'[e.lidar] = axis + (k + 1) * I
      <4>1. PICK k \in Nat : next_publish'[e.lidar] = axis + (k + 1) * I
        BY <3>3
      <4>2. OnAxis(p, s, frames[e.lidar], axis) /\ axis \in Nat \ {0}
        BY <2>7, <3>3
      <4>3. s \in Seq(Nat) /\ frames[e.lidar] \in Nat /\ I \in Nat
        BY <1>5, <1>6, FrameFacts
      <4> HIDE DEF d, c, n, s, axis
      <4>4. OnAxis(p, s, frames[e.lidar] + 1, axis + (k + 1) * I)
        BY <4>2, <4>3, AxisAdvances
      <4>5. axis + (k + 1) * I # 0
        BY <4>2, <4>3
      <4> QED
        BY <3>3, <4>1, <4>4, <4>5 DEF Axis
    <3> QED
      BY <2>2, <3>1, <3>2, <3>3
  <2>9. ASSUME NEW l \in lids
        PROVE  Axis(p, sent'[l], out'[l], cloud'[l], next_publish'[l], frames'[l])
    <3>1. CASE l = e.lidar
      BY <1>2, <2>8, <3>1
    <3>2. CASE l # e.lidar
      BY <2>5, <3>2
    <3> QED
      BY <3>1, <3>2
  <2> QED
    BY <2>1, <2>9
<1> QED
  BY <1>12, <1>13, <1>14, <1>15, <1>16 DEF FramesInv

LEMMA FramesStart ==
  ASSUME DriversInit PROVE FramesKept
<1> SUFFICES ASSUME NEW p \in Timers, part = p PROVE FramesInv(p)
  BY DEF FramesKept
<1>1. Frames(p)!Init
  BY DEF DriversInit, OneOf
<1>2. /\ sync = FALSE /\ queue = <<>> /\ pc = "loop" /\ raw = <<>>
      /\ cloud = [l \in FrameSettings[p].lidars |-> <<>>]
      /\ next_publish = [l \in FrameSettings[p].lidars |-> 0]
      /\ first = TRUE /\ lag = 0 /\ quit = FALSE
      /\ frames = [l \in FrameSettings[p].lidars |-> 0]
      /\ out = [l \in FrameSettings[p].lidars |-> <<>>]
      /\ sent = [l \in FrameSettings[p].lidars |-> <<>>]
      /\ packets = [l \in FrameSettings[p].lidars |-> [count |-> 0, stamp |-> 0]]
      /\ unsynced = FALSE
  BY <1>1 DEF Frames!Init
<1>3. FramesTyped(p) /\ Frames(p)!UnderWay = <<>>
  <2>1. 0 \in 0 .. FrameSettings[p].max_lag
    BY FrameFacts
  <2>2. /\ <<>> \in Seq(Frames(p)!Packet) /\ <<>> \in Seq(CloudPoint) /\ <<>> \in Seq(Nat)
        /\ Len(<<>>) <= 1 /\ <<>> \o <<>> = <<>> /\ DOMAIN <<>> = {}
    OBVIOUS
  <2>3. Frames(p)!TypeOK
    BY <1>2, <2>1, <2>2 DEF Frames!TypeOK
  <2>4. Frames(p)!UnderWay = <<>>
    BY <1>2, <2>2 DEF Frames!UnderWay
  <2> QED
    BY <1>2, <2>2, <2>3, <2>4 DEF FramesTyped
<1>4. Frames(p)!PointsConserved
  <2>1. ASSUME NEW l \in FrameSettings[p].lidars
        PROVE  Conserved(p, l, sent[l], out[l], cloud[l], Frames(p)!UnderWay)
    <3>1. Frames(p)!Bringing(<<>>, l) = {}
      BY DEF Frames!Bringing
    <3>2. sent[l] = <<>> /\ out[l] = <<>> /\ cloud[l] = <<>>
      BY <1>2
    <3>3. Cardinality({}) = 0
      BY FS_EmptySet
    <3>4. Len(<<>>) = 0 /\ DOMAIN <<>> = {}
      OBVIOUS
    <3>5. \A e : Len(e) = 0 /\ DOMAIN e = {} /\ Frames(p)!Bringing(e, l) = {}
                 => Conserved(p, l, e, e, e, e)
      BY <3>3 DEF Conserved
    <3>6. Conserved(p, l, <<>>, <<>>, <<>>, <<>>)
      BY <3>1, <3>4, <3>5, Zenon
    <3> QED
      BY <1>3, <3>2, <3>6
  <2> QED
    BY <2>1, ConservedFacts
<1>5. StampsRise(p)
  BY <1>2, <1>3 DEF StampsRise, Rising
<1>6. AxisKept(p)
  BY <1>2, <1>3 DEF AxisKept, Axis
<1>7. Translated(p)
  BY <1>2 DEF Translated, Shifts
<1> QED
  BY <1>3, <1>4, <1>5, <1>6, <1>7 DEF FramesInv

LEMMA FramesStep == FramesKept /\ [DriversNext]_allVars => FramesKept'
<1> SUFFICES ASSUME FramesKept, [DriversNext]_allVars, NEW p \in Timers, part' = p
             PROVE  FramesInv(p)'
  BY DEF FramesKept
<1>1. part' = part
  BY DEF DriversNext, Only, Rests, allVars
<1>2. FramesInv(p)
  BY <1>1 DEF FramesKept
<1>3. (\E q \in Timers : part = q /\ Frames(q)!Next) \/ UNCHANGED frameVars
  BY DEF DriversNext, Only, Still, Groups, Rests, allVars
<1>4. CASE UNCHANGED frameVars
  BY <1>2, <1>4, OtherFrames
<1>5. CASE Frames(p)!Next
  <2>1. CASE \E l \in FrameSettings[p].lidars, gap \in FrameSettings[p].gaps,
                kind \in FrameSettings[p].kinds, synced \in FrameSettings[p].sync :
               Frames(p)!OnPointCloud(l, gap, kind, synced)
    BY <1>2, <2>1, CallbackFrames
  <2>2. CASE \/ \E synced \in FrameSettings[p].sync : Frames(p)!OnImuData(synced)
             \/ Frames(p)!RequestExit \/ Frames(p)!LoopTest \/ Frames(p)!WaitFor
    BY <1>2, <2>2, OtherFrames
  <2>3. CASE \E elapsed \in 0 .. FrameSettings[p].max_lag : Frames(p)!Process(elapsed)
    BY <1>2, <2>3, ProcessFrames
  <2> QED
    BY <1>5, <2>1, <2>2, <2>3 DEF Frames!Next, Frames!Thread
<1> QED
  BY <1>1, <1>3, <1>4, <1>5

(* PubHandler: for any number of lidars, any period, stamps and kinds of   *)
(* packets and any length of the queue, no point is lost or put out of     *)
(* order between the callback and the frames; with synchronised stamps     *)
(* throughout the frames are cut on a fixed axis; and a translation is     *)
(* applied in the unit of the points, to the centimetre.                   *)
THEOREM FramesAreOnAxis == DriversSpec => []FramesOnAxis
<1>1. ASSUME FramesKept PROVE FramesOnAxis
  <2> SUFFICES ASSUME NEW p \in Timers, part = p
               PROVE  /\ Frames(p)!TypeOK /\ Frames(p)!PointsConserved
                      /\ Frames(p)!FixedAxis /\ Frames(p)!TranslationInUnit
    BY DEF FramesOnAxis
  <2>1. FramesTyped(p) /\ Frames(p)!PointsConserved /\ AxisKept(p) /\ Translated(p)
    BY <1>1 DEF FramesKept, FramesInv
  <2>2. Frames(p)!TypeOK
    BY <2>1 DEF FramesTyped
  <2>3. Frames(p)!FixedAxis
    <3> SUFFICES ASSUME ~unsynced, NEW l \in FrameSettings[p].lidars, next_publish[l] # 0
                 PROVE  /\ (next_publish[l] - Head(sent[l])) % FrameSettings[p].interval = 0
                        /\ \A i \in DOMAIN cloud[l] : cloud[l][i].time < next_publish[l]
                        /\ frames[l] * FrameSettings[p].interval
                             < next_publish[l] - Head(sent[l])
      BY DEF Frames!FixedAxis
    <3>1. /\ OnAxis(p, sent[l], frames[l], next_publish[l])
          /\ \A i \in DOMAIN cloud[l] : cloud[l][i].time < next_publish[l]
      BY <2>1 DEF AxisKept, Axis
    <3>2. sent[l] \in Seq(Nat) /\ frames[l] \in Nat /\ next_publish[l] \in Nat
      BY <2>1 DEF FramesTyped, Frames!TypeOK
    <3> QED
      BY <3>1, <3>2, AxisFixed
  <2>4. Frames(p)!TranslationInUnit
    <3> SUFFICES ASSUME FrameSettings[p].kinds \intersect Frames(p)!KnownKinds
                          \subseteq {FrameSettings[p].configured},
                        NEW l \in FrameSettings[p].lidars, NEW i \in DOMAIN cloud[l]
                 PROVE  LET off == cloud[l][i].x
                                     - (FrameSettings[p].position + FrameSettings[p].translation)
                        IN -20 < off /\ off < 20
      BY DEF Frames!TranslationInUnit
    <3>1. cloud[l][i].x = Frames(p)!Compensate(FrameSettings[p].configured)
      BY <2>1 DEF Translated, Shifts
    <3> QED
      BY <3>1, TranslationNear
  <2> QED
    BY <2>1, <2>2, <2>3, <2>4
<1> QED
  BY <1>1, FramesStart, FramesStep, PTL DEF DriversSpec

=============================================================================
