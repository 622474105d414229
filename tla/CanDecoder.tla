------------------------------ MODULE CanDecoder ------------------------------
(***************************************************************************)
(* can_common::read and its two decoders (decode_motorola, decode_intel):  *)
(* the fields of thirteen kinds of CAN frames, put together from bytes by  *)
(* shifts, masks and sign extension.                                       *)
(*                                                                         *)
(* The formulas of the code are checked against a reference: a payload is  *)
(* the fields one after the other, most significant bit first (motorola)   *)
(* or least significant bit first (intel), two's complement where signed.  *)
(* Numbers are the raw integers, before the scale factor.  Identifiers are *)
(* taken to be distinct; the frames of one 64-bit number (longitude,       *)
(* latitude) are beyond TLC's integers and left out.                       *)
(***************************************************************************)
EXTENDS Integers, Sequences, SequencesExt, FiniteSetsExt

CONSTANTS
    Formats,    \* data_format: "motorola", "intel"
    Samples,    \* which sample values of a field to send: see Sample
    MaxFrames   \* bound: frames read

(* What an instance of this module gives its constants.                    *)
CanAssumption == Formats \subseteq {"motorola", "intel"} /\ MaxFrames \in Nat

(***************************************************************************)
(* The layout of the frames: the width of each field, negative if signed.  *)
(***************************************************************************)
S20 == <<-20, -20, -20>>
Layout ==
    [time |-> <<16, -32>>, angrate_rawIMU |-> S20, accel_rawIMU |-> S20,
     sys_status |-> <<8, 8, 8, 8, 16, 8, 8>>, altitude |-> <<-32>>,
     pos_sigma |-> <<20, 20, 20>>, velocity_level |-> <<-16, -16, -16, -16>>,
     velocity_level_sigma |-> <<16, 16, 16, 16>>, accel_vehicle |-> S20,
     heading_pitch_roll |-> <<16, -16, -16, 16>>,
     heading_pitch_roll_sigma |-> <<20, 20, 20>>, angrate_vehicle |-> S20,
     latitude_longitude |-> <<-32, -32>>]
KindsOfFrame == DOMAIN Layout

VARIABLES
    format,     \* data_format
    fields,     \* the members of can_common the decoders set, by kind
    sent,       \* what the device sent last, by kind
    frames,     \* frames read
    result      \* what read() returned last

vars == <<format, fields, sent, frames, result>>

Zero(k) == [i \in DOMAIN Layout[k] |-> 0]

Init ==
    /\ format \in Formats
    /\ fields = [k \in KindsOfFrame |-> Zero(k)]
    /\ sent = [k \in KindsOfFrame |-> Zero(k)]
    /\ frames = 0 /\ result = 0

(***************************************************************************)
(* The decoders.  d[1] is frame.data[0].                                   *)
(***************************************************************************)
(* (int16_t) of 16 bits, int of 32 bits. *)
Int16(n) == IF n < 2^15 THEN n ELSE n - 2^16
Int32(a, b, c, e) ==
    (IF a < 128 THEN a ELSE a - 256) * 2^24 + b * 2^16 + c * 2^8 + e

(* Mutant: the sign bit is set, the bits above the twentieth are kept. *)
Extend20NoMask(n, sign) == IF sign THEN (n % 2^20) - 2^20 ELSE n

(* temp |= 0xFFF00000 if the sign bit is set, temp &= 0x000FFFFF if not. *)
Extend20(n, sign) == IF sign THEN (n % 2^20) - 2^20 ELSE n % 2^20
Bit(b, n) == (b \div 2^n) % 2 = 1

Motorola20(d) ==
    <<d[1] * 2^12 + d[2] * 2^4 + d[3] \div 2^4,
      (d[3] % 16) * 2^16 + d[4] * 2^8 + d[5],
      d[6] * 2^12 + d[7] * 2^4 + d[8] \div 2^4>>

(* The first and the third number of the intel form are not masked here:   *)
(* four bits of their neighbour stay in them until Extend20.               *)
Intel20(d) ==
    <<d[3] * 2^16 + d[2] * 2^8 + d[1],
      d[5] * 2^12 + d[4] * 2^4 + d[3] \div 2^4,
      d[8] * 2^16 + d[7] * 2^8 + d[6]>>

MotorolaSigned20(d) ==
    LET n == Motorola20(d) IN
    <<Extend20(n[1], Bit(d[1], 7)), Extend20(n[2], Bit(d[3], 3)), Extend20(n[3], Bit(d[6], 7))>>

IntelSigned20(d) ==
    LET n == Intel20(d) IN
    <<Extend20(n[1], Bit(d[3], 3)), Extend20(n[2], Bit(d[5], 7)), Extend20(n[3], Bit(d[8], 3))>>

IntelUnsigned20(d) ==
    <<(d[3] % 16) * 2^16 + d[2] * 2^8 + d[1],
      d[5] * 2^12 + d[4] * 2^4 + d[3] \div 2^4,
      (d[8] % 16) * 2^16 + d[7] * 2^8 + d[6]>>

Signed20Kinds   == {"angrate_rawIMU", "accel_rawIMU", "accel_vehicle", "angrate_vehicle"}
Unsigned20Kinds == {"pos_sigma", "heading_pitch_roll_sigma"}

decode_motorola(k, d) ==
    LET w(i) == d[i] * 256 + d[i + 1] IN
    CASE k = "time" -> <<w(1), Int32(d[3], d[4], d[5], d[6])>>
      [] k \in Signed20Kinds -> MotorolaSigned20(d)
      [] k = "sys_status" -> <<d[1], d[2], d[3], d[4], w(5), d[7], d[8]>>
      [] k = "altitude" -> <<Int32(d[1], d[2], d[3], d[4])>>
      [] k \in Unsigned20Kinds -> Motorola20(d)
      [] k = "velocity_level" -> <<Int16(w(1)), Int16(w(3)), Int16(w(5)), Int16(w(7))>>
      [] k = "velocity_level_sigma" -> <<w(1), w(3), w(5), w(7)>>
      [] k = "heading_pitch_roll" -> <<w(1), Int16(w(3)), Int16(w(5)), w(7)>>
      [] k = "latitude_longitude" ->
            <<Int32(d[1], d[2], d[3], d[4]), Int32(d[5], d[6], d[7], d[8])>>

decode_intel(k, d) ==
    LET w(i) == d[i + 1] * 256 + d[i] IN
    CASE k = "time" -> <<w(1), Int32(d[6], d[5], d[4], d[3])>>
      [] k \in Signed20Kinds -> IntelSigned20(d)
      [] k = "sys_status" -> <<d[1], d[2], d[3], d[4], w(5), d[7], d[8]>>
      [] k = "altitude" -> <<Int32(d[4], d[3], d[2], d[1])>>
      [] k \in Unsigned20Kinds -> IntelUnsigned20(d)
      [] k = "velocity_level" -> <<Int16(w(1)), Int16(w(3)), Int16(w(5)), Int16(w(7))>>
      [] k = "velocity_level_sigma" -> <<w(1), w(3), w(5), w(7)>>
      [] k = "heading_pitch_roll" -> <<w(1), Int16(w(3)), Int16(w(5)), w(7)>>
      [] k = "latitude_longitude" ->
            <<Int32(d[4], d[3], d[2], d[1]), Int32(d[8], d[7], d[6], d[5])>>

(***************************************************************************)
(* The reference: the payload as a sequence of 64 bits.                    *)
(***************************************************************************)
Width(k, i)  == LET w == Layout[k][i] IN IF w < 0 THEN -w ELSE w
Offset(k, i) == MapThenSumSet(LAMBDA j : Width(k, j), 1..(i - 1))

(* Bit n of the integer v in two's complement; n is at most 31. *)
BitOf(v, n) ==
    LET u == IF v >= 0 THEN v ELSE -(v + 1)
        b == IF n > 30 THEN 0 ELSE (u \div 2^n) % 2
    IN IF v >= 0 THEN b ELSE 1 - b

(* Byte j (from 1) of the payload of values vs. *)
Payload(f, k, vs) ==
    LET bit(p) ==   \* bit p (from 0) in the order of the format
            LET at == {i \in DOMAIN vs : Offset(k, i) <= p /\ p < Offset(k, i) + Width(k, i)}
            IN IF at = {} THEN 0
               ELSE LET i == CHOOSE x \in at : TRUE
                    IN BitOf(vs[i], IF f = "intel" THEN p - Offset(k, i)
                                    ELSE Offset(k, i) + Width(k, i) - 1 - p)
    IN [j \in 1..8 |->
          MapThenSumSet(LAMBDA n : 2^n * bit(8 * (j - 1) + (IF f = "intel" THEN n ELSE 7 - n)),
                        0..7)]

(* A sample of a field: the ends of its range and patterns within it. *)
Sample(w, s) ==
    IF w < 0
    THEN CASE s = "low"  -> -(2^(-w - 2)) - (2^(-w - 2))
           [] s = "high" -> (2^(-w - 2) - 1) + 2^(-w - 2)
           [] s = "minus" -> -1
    ELSE CASE s = "low"  -> 0
           [] s = "high" -> 2^w - 1
           [] s = "minus" -> (2^w) \div 3

(***************************************************************************)
(* read(): an error frame yields -1, a remote frame 0; any other frame is  *)
(* decoded after its identifier, and read() returns the size of the frame. *)
(***************************************************************************)
Decode(k, d) == IF format = "intel" THEN decode_intel(k, d) ELSE decode_motorola(k, d)

Receive ==
    \E k \in KindsOfFrame, error, remote \in BOOLEAN :
      \E vs \in [DOMAIN Layout[k] -> Samples] :
        LET raw == [i \in DOMAIN vs |-> Sample(Layout[k][i], vs[i])] IN
        /\ frames < MaxFrames /\ frames' = frames + 1
        /\ fields' = IF error \/ remote THEN fields
                     ELSE [fields EXCEPT ![k] = Decode(k, Payload(format, k, raw))]
        /\ sent' = IF error \/ remote THEN sent ELSE [sent EXCEPT ![k] = raw]
        /\ result' = IF error THEN -1 ELSE IF remote THEN 0 ELSE 16
        /\ UNCHANGED format

Done == frames = MaxFrames /\ UNCHANGED vars

Next == Receive \/ Done

Spec == Init /\ [][Next]_vars

-------------------------------------------------------------------------------
(* Every field is the number the device put in the last frame of its kind  *)
(* that was a data frame, sign and neighbours' bits included, in both byte *)
(* orders; frames of other kinds, error and remote frames do not touch it. *)
DecodedAsSent == \A k \in KindsOfFrame : fields[k] = sent[k]
===============================================================================
