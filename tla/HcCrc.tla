-------------------------------- MODULE HcCrc --------------------------------
(***************************************************************************)
(* The checksum of the receiver's binary frames (hc_cgi_protocol.c): a     *)
(* byte at a time, reflected, starting from 0.  A number of 32 bits is the *)
(* set of the positions of its ones.                                       *)
(*                                                                         *)
(* The sender is the receiver's firmware.  It is modelled by what CRC-32   *)
(* means, the remainder of a division of polynomials, and the wire by a    *)
(* burst of errors.                                                        *)
(***************************************************************************)
EXTENDS Integers, Sequences, FiniteSets, FiniteSetsExt, SequencesExt

CONSTANTS
    Contents,      \* the frames' contents: sequences of bytes
    Bursts         \* the errors: sets of positions from 0, of a span of 32 bits

Bits(k) == 0..(k - 1)

(* What an instance of this module gives its constants.                    *)
HcCrcAssumption ==
    /\ \A c \in Contents : c \in Seq(SUBSET Bits(8)) /\ c # <<>>
    /\ \A b \in Bursts : b = {} \/ (0 \in b /\ b \subseteq Bits(32))

VARIABLES content, burst, start, ucBuffer, ulCount, ulCRC, verdict
vars == <<content, burst, start, ucBuffer, ulCount, ulCRC, verdict>>

Xor(a, b) == SymDiff(a, b)
Shr(a, k) == {i - k : i \in {j \in a : j >= k}}

(* 0xEDB88320 *)
Polynomial == {5, 8, 9, 15, 19, 20, 21, 23, 24, 26, 27, 29, 30, 31}

Shift(c) == IF 0 \in c THEN Xor(Shr(c, 1), Polynomial) ELSE Shr(c, 1)

return_crc32_value(i) ==
    FoldLeft(LAMBDA c, j : Shift(c), i, [j \in 1..8 |-> j])

(***************************************************************************)
(* The sender: content(x) * x^32 divided by the generator.  The bits are   *)
(* sent with the lowest of each byte first and the first bit is the        *)
(* highest power.                                                          *)
(***************************************************************************)
Generator == {32, 26, 23, 22, 16, 12, 11, 10, 8, 7, 5, 4, 2, 1, 0}

WireBits(bytes) == UNION {{8 * (i - 1) + j : j \in bytes[i]} : i \in DOMAIN bytes}

Remainder(bytes) ==
    LET n == 8 * Len(bytes)
        D[k \in 0..n] ==
            IF k = 0 THEN {n + 31 - b : b \in WireBits(bytes)}
            ELSE LET top == n + 32 - k
                     rest == D[k - 1]
                 IN  IF top \in rest THEN Xor(rest, {p + top - 32 : p \in Generator}) ELSE rest
    IN  D[n]

Frame(bytes) ==
    LET r == Remainder(bytes)
    IN  bytes \o [b \in 1..4 |-> {j \in Bits(8) : 31 - (8 * (b - 1) + j) \in r}]

Corrupted(bytes, errors) ==
    [i \in 1..Len(bytes) |-> Xor(bytes[i], {j \in Bits(8) : 8 * (i - 1) + j \in errors})]

InitialCRC == {}

Init ==
    /\ content \in Contents /\ burst \in Bursts
    /\ start \in Bits(8 * (Len(content) + 4) - (IF burst = {} THEN 0 ELSE Max(burst)))
    /\ ucBuffer = Corrupted(Frame(content), {start + b : b \in burst})
    /\ ulCount = 0 /\ ulCRC = InitialCRC /\ verdict = "none"

(* One turn of the loop of get_crc32_value. *)
get_crc32_value ==
    /\ ulCount < Len(ucBuffer) - 4
    /\ ulCount' = ulCount + 1
    /\ ulCRC' = Xor(Shr(ulCRC, 8),
                    return_crc32_value(Xor(ulCRC, ucBuffer[ulCount + 1]) \cap Bits(8)))
    /\ UNCHANGED <<content, burst, start, ucBuffer, verdict>>

hc__cgi_check_crc32 ==
    /\ ulCount = Len(ucBuffer) - 4 /\ verdict = "none"
    /\ verdict' = IF \A b \in 1..4 : ucBuffer[ulCount + b] =
                        {j \in Bits(8) : 8 * (b - 1) + j \in ulCRC}
                  THEN "ok" ELSE "failed"
    /\ UNCHANGED <<content, burst, start, ucBuffer, ulCount, ulCRC>>

Next == get_crc32_value \/ hc__cgi_check_crc32
Spec == Init /\ [][Next]_vars

-------------------------------------------------------------------------------
(* Frames of the sender's are accepted as they were sent.                  *)
IntactAccepted == verdict = "failed" => burst # {}

(* Every error within 32 bits is detected, wherever it lies, in the        *)
(* content, in the sum or across both.                                     *)
BurstsDetected == verdict = "ok" => burst = {}
===============================================================================
