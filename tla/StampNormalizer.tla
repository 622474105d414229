--------------------------- MODULE StampNormalizer ----------------------------
(***************************************************************************)
(* PubHandler::NormalizeTimestamp of the Livox driver: the clock of a      *)
(* device may jump, run fast or slow, and deliver packets out of order;    *)
(* the stamps given to its LiDAR and IMU packets must not.  Both streams   *)
(* are tied to one timeline, the time since the first packet of the device *)
(* on the host's steady clock.  One device; the mutex makes a call a step. *)
(***************************************************************************)
EXTENDS Integers

CONSTANTS
  Streams,          (* the packet streams of the device: LiDAR and IMU     *)
  Threshold,        (* kTimestampJumpThresholdNs                           *)
  RawTimes,         (* what the clock of the device may show               *)
  MaxWait,          (* longest time between two packets (bound)            *)
  MaxTime           (* end of the steady clock (bound)                     *)

ASSUME NormalizerAssumption ==
  /\ Threshold \in Nat \ {0}
  /\ RawTimes \subseteq Nat
  /\ MaxWait \in Nat /\ MaxTime \in Nat

VARIABLES
  now,              (* the steady clock                                    *)
  device,           (* origin of the timeline                              *)
  stream,           (* StreamTimestampState of each stream                 *)
  jumped            (* history: the last packet had a raw jump             *)

vars == <<now, device, stream, jumped>>

Uninitialized ==
  [initialized |-> FALSE, correction |-> 0, last_raw |-> 0, last_normalized |-> 0,
   last_arrival |-> 0]

Init ==
  /\ now = 0
  /\ device = [initialized |-> FALSE, origin_timestamp |-> 0, origin_arrival |-> 0]
  /\ stream = [s \in Streams |-> Uninitialized]
  /\ jumped = [s \in Streams |-> FALSE]

Abs(n) == IF n < 0 THEN -n ELSE n
AtLeastOne(n) == IF n > 1 THEN n ELSE 1

(* ApplyTimestampCorrection: never zero or negative.                       *)
ApplyCorrection(raw, correction) == AtLeastOne(raw + correction)

(* The device with its origin set by this packet if it is the first.       *)
WithOrigin(d, raw, t) ==
  IF d.initialized THEN d
  ELSE [initialized |-> TRUE, origin_timestamp |-> raw, origin_arrival |-> t]

(* expected_from_origin: the timeline at a time of the steady clock.       *)
Timeline(d, t) == d.origin_timestamp + (t - d.origin_arrival)

(* The first packet of a stream is put on the timeline.                    *)
FirstStamp(d, raw, t) ==
  [initialized |-> TRUE,
   correction |-> Timeline(d, t) - raw,
   last_raw |-> raw,
   last_normalized |-> ApplyCorrection(raw, Timeline(d, t) - raw),
   last_arrival |-> t]

(* The device's clock advanced by much more or less than the host's.       *)
RawJump(s, raw, t) ==
  Abs((raw - s.last_raw) - (t - s.last_arrival)) > Threshold

(* The corrected stamp is too far from the timeline.                       *)
TimelineSplit(s, d, raw, t) ==
  Abs(ApplyCorrection(raw, s.correction) - Timeline(d, t)) > Threshold

(* Mutant: only jumps are corrected, slow drift is not.                    *)
CorrectJumpsOnly(s, d, raw, t) ==
  LET candidate == ApplyCorrection(raw, s.correction)
      stepped == s.last_normalized + AtLeastOne(t - s.last_arrival)
      normalized ==
        IF RawJump(s, raw, t) THEN stepped
        ELSE IF candidate <= s.last_normalized THEN s.last_normalized + 1
        ELSE candidate
  IN [s EXCEPT !.correction = IF RawJump(s, raw, t) THEN stepped - raw ELSE @,
               !.last_raw = raw, !.last_normalized = normalized, !.last_arrival = t]

(* Any later packet: after a jump the stream continues with the time that  *)
(* passed on the host and a new correction; a packet out of order comes    *)
(* just after the last one and leaves the correction alone.                *)
NextStamp(s, d, raw, t) ==
  LET candidate == ApplyCorrection(raw, s.correction)
      stepped == s.last_normalized + AtLeastOne(t - s.last_arrival)
      restart == RawJump(s, raw, t) \/ TimelineSplit(s, d, raw, t)
      normalized ==
        IF restart THEN stepped
        ELSE IF candidate <= s.last_normalized THEN s.last_normalized + 1
        ELSE candidate
  IN [s EXCEPT !.correction = IF restart THEN stepped - raw ELSE @,
               !.last_raw = raw, !.last_normalized = normalized, !.last_arrival = t]

(* NormalizeTimestamp for a packet of stream k.  Two packets do not arrive *)
(* in the same nanosecond.                                                 *)
Packet(k, raw, t) ==
  /\ now' = t
  /\ device' = WithOrigin(device, raw, t)
  /\ stream' = [stream EXCEPT ![k] = IF @.initialized THEN NextStamp(@, device', raw, t)
                                     ELSE FirstStamp(device', raw, t)]
  /\ jumped' = [jumped EXCEPT ![k] = stream[k].initialized /\ RawJump(stream[k], raw, t)]

Next ==
  \E k \in Streams, raw \in RawTimes, wait \in 1 .. MaxWait :
    now + wait <= MaxTime /\ Packet(k, raw, now + wait)

Spec == Init /\ [][Next]_vars

-----------------------------------------------------------------------------
StreamState ==
  [initialized : BOOLEAN, correction : Int, last_raw : Nat, last_normalized : Nat,
   last_arrival : Nat]

(* Types; no packet has the stamp zero, which the frame timer takes for    *)
(* "no packet yet".                                                        *)
TypeOK ==
  /\ now \in Nat
  /\ device \in [initialized : BOOLEAN, origin_timestamp : Nat, origin_arrival : Nat]
  /\ stream \in [Streams -> StreamState]
  /\ jumped \in [Streams -> BOOLEAN]
  /\ \A k \in Streams : stream[k].initialized => stream[k].last_normalized # 0

(* The stamps of a stream strictly increase, whatever the device's clock   *)
(* does.                                                                   *)
StampsIncrease ==
  [][\A k \in Streams :
       stream[k].initialized /\ stream'[k] # stream[k] =>
         stream'[k].last_normalized > stream[k].last_normalized]_vars

(* The stamps of both streams stay within the threshold of the timeline of *)
(* the device, through jumps, drift and packets out of order: the streams  *)
(* do not come apart.                                                      *)
TimelineHeld ==
  \A k \in Streams : stream[k].initialized =>
    Abs(stream[k].last_normalized - Timeline(device, stream[k].last_arrival)) <= Threshold

=============================================================================
