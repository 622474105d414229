------------------------------- MODULE HcParser -------------------------------
(***************************************************************************)
(* The CHCNAV message parser (hc_msg_parser.c) and the loop of the node    *)
(* that drives it (hc__msg_parser_node::node_start).                       *)
(*                                                                         *)
(* Bytes of the device arrive in reads of any size.  hc__msg_parser_scan   *)
(* feeds them, one at a time, to the handler of the parser's state; a      *)
(* handler says how many bytes it consumed (0 or 1), and those are         *)
(* appended to the token.  A scan ends when the token has a type: a frame  *)
(* with the long or the short header, an NMEA sentence, or an error.       *)
(* After an error the loop puts the parser back in S0 and scans on.        *)
(*                                                                         *)
(* Bytes keep their values.  The wire is a sequence of pieces: frames,     *)
(* sentences and noise.  The states S11, S17, S23 and S24 of the source    *)
(* are entered by no handler and have no counterpart here.                 *)
(***************************************************************************)
EXTENDS Integers, Sequences, FiniteSetsExt

CONSTANTS
    Wires,      \* the sequences of pieces a device may send
    MaxLen,     \* HC_PROTOCOL_MAX_LEN: size of the token and of the read buffer
    ReadSizes,  \* how many bytes a read may yield
    GoodSentences \* the sentences of the wires whose checksum is right

(* What an instance of this module gives its constants.                    *)
HcParserAssumption == MaxLen \in Nat \ {0} /\ ReadSizes \subseteq 1..MaxLen

VARIABLES
    pieces,     \* what the device sends: a sequence of byte sequences
    wire,       \* its bytes
    pointer,    \* bytes taken from the buffer so far, counted along the wire
    last,       \* bytes read into the buffer so far, counted along the wire
    state,      \* parser->state
    spec,       \* parser->specified_len
    error,      \* parser->error.error_code # HC__STATE_NONE
    type,       \* token->type
    value,      \* token->token_value.value, value_len bytes
    hc,         \* messages published on hc_sentence: the last byte's place, id, data
    nmea        \* messages published on nmea_sentence: the last byte's place, data

input  == <<pieces, wire>>
buffer == <<pointer, last>>
parser == <<state, spec, error>>
token  == <<type, value>>
topics == <<hc, nmea>>
vars   == <<input, buffer, parser, token, topics>>

Frames == {"HC_MSG", "HC_SHORT_MSG", "NMEA"}
Types  == Frames \cup {"NONE", "ERROR"}

Dollar == 36
Star   == 42
Comma  == 44
CR     == 13
LF     == 10

Concat[ps \in Seq(Seq(0..255))] ==
    IF ps = <<>> THEN <<>> ELSE Head(ps) \o Concat[Tail(ps)]

(***************************************************************************)
(* hc__init_msg_parser and the constructor of the node.                    *)
(***************************************************************************)
Init ==
    /\ pieces \in Wires
    /\ wire = Concat[pieces]
    /\ pointer = 0 /\ last = 0
    /\ state = "S0" /\ spec = 0 /\ error = FALSE
    /\ type = "NONE" /\ value = <<>>
    /\ hc = <<>> /\ nmea = <<>>

(***************************************************************************)
(* parser_read_handler fills the empty buffer with what the device has.    *)
(* A read that yields nothing, or -1, is repeated and changes nothing.     *)
(***************************************************************************)
Read ==
    /\ type = "NONE" /\ pointer = last
    /\ \E n \in ReadSizes :
        /\ last + n <= Len(wire)
        /\ last' = last + n
    /\ UNCHANGED <<input, pointer, parser, token, topics>>

ReadNothing ==
    /\ type = "NONE" /\ pointer = last
    /\ UNCHANGED vars

(***************************************************************************)
(* The handlers.  Each returns the new state, the new count, the type it   *)
(* gives the token and the number of bytes it consumes.                    *)
(***************************************************************************)
Go(s, n, step)   == [state |-> s, spec |-> n, type |-> "NONE", step |-> step]
Done(t)          == [state |-> "S0", spec |-> 0, type |-> t, step |-> 1]
Fail(step)       == [state |-> state, spec |-> spec, type |-> "ERROR", step |-> step]

DealS0(c) ==
    IF c = 170 THEN Go("S1", spec, 1)
    ELSE IF c = Dollar THEN Go("S18", 5, 1)
    ELSE Fail(1)

(* The bytes that must follow 0xaa: state, byte and where it leads.  S1    *)
(* tells the long header (0xcc) from the short one (0x55).                 *)
Magic == {<<"S1", 204, "S2", 0>>, <<"S1", 85, "S12", 0>>,
          <<"S2", 72, "S3", 0>>, <<"S3", 67, "S4", 2>>,
          <<"S12", 72, "S13", 0>>, <<"S13", 67, "S14", 2>>}

(* Mutant: the byte that breaks a header is consumed with it. *)
DealMagicSwallow(c) ==
    LET hit == {m \in Magic : m[1] = state /\ m[2] = c} IN
    IF hit = {} THEN Fail(1)
    ELSE LET m == CHOOSE x \in hit : TRUE
         IN Go(m[3], IF m[4] = 0 THEN spec ELSE m[4], 1)

DealMagic(c) ==
    LET hit == {m \in Magic : m[1] = state /\ m[2] = c} IN
    IF hit = {} THEN Fail(0)
    ELSE LET m == CHOOSE x \in hit : TRUE
         IN Go(m[3], IF m[4] = 0 THEN spec ELSE m[4], 1)

(* The header fields: length, id, week, time, serial number, reserved. *)
Fields == [S4 |-> <<"S5", 2>>, S5 |-> <<"S6", 2>>, S6 |-> <<"S7", 4>>,
           S7 |-> <<"S8", 4>>, S8 |-> <<"S9", 4>>, S14 |-> <<"S15", 2>>]

DealField ==
    IF spec > 0 THEN Go(state, spec - 1, 1)
    ELSE Go(Fields[state][1], Fields[state][2], 0)

(* The last field: what follows is the body and a checksum of four bytes,  *)
(* the body's length being the header's first field, little endian.        *)
DealHeaderEnd(next) ==
    IF spec > 0 THEN Go(state, spec - 1, 1)
    ELSE Go(next, value[6] * 256 + value[5] + 4, 0)

(* S10, S16 and S22: the last byte ends the token. *)
DealEnd(t) ==
    IF spec > 1 THEN Go(state, spec - 1, 1) ELSE Done(t)

DealS18 ==
    IF spec > 0 THEN Go("S18", spec - 1, 1) ELSE Go("S19", spec, 0)

(* strcmp reads on behind the two characters of nmea_head_2, which no zero *)
(* ends: a known talker may compare unequal to every one of the four.      *)
Talkers == {<<71, 80>>, <<71, 78>>, <<66, 68>>, <<71, 84>>}

DealS19(c) ==
    {Fail(0)} \cup
    IF <<value[2], value[3]>> \in Talkers
    THEN {Go(IF c = Comma THEN "S21" ELSE "S20", spec, 1)} ELSE {}

DealS20(c) == IF c = Comma THEN Go("S21", spec, 1) ELSE Fail(0)

InSentence(c) ==
    c \in 65..90 \cup 97..122 \cup 48..57 \cup {Comma, 46, 45}

DealS21(c) ==
    IF c = Star THEN Go("S22", 4, 1)
    ELSE IF InSentence(c) THEN Go("S21", spec, 1)
    ELSE Fail(0)

(* g_hc__msg_state_handler *)
Deal(c) ==
    CASE state = "S0" -> {DealS0(c)}
      [] state \in {"S1", "S2", "S3", "S12", "S13"} -> {DealMagic(c)}
      [] state \in DOMAIN Fields -> {DealField}
      [] state = "S9" -> {DealHeaderEnd("S10")}
      [] state = "S15" -> {DealHeaderEnd("S16")}
      [] state = "S10" -> {DealEnd("HC_MSG")}
      [] state = "S16" -> {DealEnd("HC_SHORT_MSG")}
      [] state = "S18" -> {DealS18}
      [] state = "S19" -> DealS19(c)
      [] state = "S20" -> {DealS20(c)}
      [] state = "S21" -> {DealS21(c)}
      [] state = "S22" -> {DealEnd("NMEA")}

(***************************************************************************)
(* One turn of hc__msg_parser_scan: a handler, then the bytes it consumed  *)
(* go to the token, unless the token is full; then nothing is consumed and *)
(* the token becomes an error, whatever type the handler gave it.          *)
(***************************************************************************)
Scan ==
    /\ type = "NONE" /\ pointer < last
    /\ LET c == wire[pointer + 1] IN
       \E r \in Deal(c) :
        /\ state' = r.state /\ spec' = r.spec
        /\ IF Len(value) + r.step < MaxLen
           THEN /\ type' = r.type /\ error' = (r.type = "ERROR")
                /\ value' = IF r.step = 1 THEN Append(value, c) ELSE value
                /\ pointer' = pointer + r.step
           ELSE /\ type' = "ERROR" /\ error' = TRUE
                /\ UNCHANGED <<value, pointer>>
    /\ UNCHANGED <<input, last, topics>>

(***************************************************************************)
(* node_start's switch.  The next scan begins with an empty token          *)
(* (hc__msg_reset_token), so the two are one step here.                    *)
(***************************************************************************)
(* char is signed: a low byte of 128 or more borrows from the high byte. *)
Signed(b) == IF b < 128 THEN b ELSE b - 256
MsgId(v)  == (Signed(v[8]) * 256 + Signed(v[7])) % 65536

PublishFrame ==
    /\ type \in {"HC_MSG", "HC_SHORT_MSG"}
    /\ hc' = Append(hc, [at |-> pointer, id |-> MsgId(value), data |-> value])
    /\ type' = "NONE" /\ value' = <<>>
    /\ UNCHANGED <<input, buffer, parser, nmea>>

(* msg_recv_callback checks a sentence before it publishes it: two hex     *)
(* digits, the XOR of all that is between '$' and '*', then CR LF.  strtol *)
(* stops at the first character that is no digit.                          *)
Digit(c) == CASE c \in 48..57 -> c - 48
              [] c \in 65..70 -> c - 55
              [] c \in 97..102 -> c - 87
              [] OTHER -> -1

Strtol(a, b) ==
    IF Digit(a) < 0 THEN 0
    ELSE IF Digit(b) < 0 THEN Digit(a) ELSE 16 * Digit(a) + Digit(b)

(* The XOR of the first n bytes; the first is taken twice and cancels out: *)
(* a bit is set when an odd number of the others have it.                  *)
XorCheck(v, n) ==
    MapThenSumSet(LAMBDA b : 2^b * (Cardinality({i \in 2..n : (v[i] \div 2^b) % 2 = 1}) % 2),
                  0..7)

NmeaChecks(v) ==
    LET n == Len(v) IN
    /\ n >= 5
    /\ Strtol(v[n - 3], v[n - 2]) = XorCheck(v, n - 5)
    /\ v[n - 1] = CR /\ v[n] = LF

PublishNmea ==
    /\ type = "NMEA"
    /\ nmea' = IF NmeaChecks(value)
               THEN Append(nmea, [at |-> pointer,
                                  data |-> SubSeq(value, 1, Len(value) - 2)])
               ELSE nmea
    /\ type' = "NONE" /\ value' = <<>>
    /\ UNCHANGED <<input, buffer, parser, hc>>

Recover ==
    /\ type = "ERROR"
    /\ error' = FALSE /\ state' = "S0" /\ UNCHANGED spec
    /\ type' = "NONE" /\ value' = <<>>
    /\ UNCHANGED <<input, buffer, topics>>

Next == Read \/ ReadNothing \/ Scan \/ PublishFrame \/ PublishNmea \/ Recover

(* The loop runs on one thread that always has something to do, and a      *)
(* device that still has bytes delivers some of them sooner or later.      *)
Fairness ==
    /\ WF_vars(Read) /\ WF_vars(Scan)
    /\ WF_vars(PublishFrame) /\ WF_vars(PublishNmea) /\ WF_vars(Recover)

Spec == Init /\ [][Next]_vars /\ Fairness

-------------------------------------------------------------------------------
(* Where the k-th piece of the wire begins and ends. *)
StartOf(k) == MapThenSumSet(LAMBDA i : Len(pieces[i]), 1..(k - 1))
EndOf(k)   == StartOf(k) + Len(pieces[k])

(* A piece that is a whole frame: its header, the length it announces. *)
HeaderLen(p) ==
    CASE Len(p) >= 4 /\ SubSeq(p, 1, 4) = <<170, 204, 72, 67>> -> 22
      [] Len(p) >= 4 /\ SubSeq(p, 1, 4) = <<170, 85, 72, 67>> -> 8
      [] OTHER -> 0

IsFrame(p) ==
    /\ HeaderLen(p) > 0 /\ Len(p) >= HeaderLen(p) + 4
    /\ Len(p) = HeaderLen(p) + 256 * p[6] + p[5] + 4
    /\ Len(p) < MaxLen

TypeOK ==
    /\ pointer <= last /\ last <= Len(wire)
    /\ type \in Types /\ error = (type = "ERROR")
    /\ spec \in Nat
    /\ Len(value) < MaxLen

(* Every published frame is a stretch of the wire as it was sent: it has a *)
(* header's first four bytes and as many bytes as the header announces,    *)
(* its id is the one in the header (for the ids the protocol defines), and *)
(* no byte belongs to two messages.                                        *)
PublishedAsSent ==
    /\ \A i \in DOMAIN hc :
        LET d == hc[i].data IN
        /\ hc[i].at >= Len(d)
        /\ d = SubSeq(wire, hc[i].at - Len(d) + 1, hc[i].at)
        /\ IsFrame(d)
        /\ d[7] < 128 => hc[i].id = 256 * d[8] + d[7]
        /\ i > 1 => hc[i].at - Len(d) >= hc[i - 1].at
    /\ \A i \in DOMAIN nmea :
        LET d == nmea[i].data IN
        /\ d = SubSeq(wire, nmea[i].at - Len(d) - 1, nmea[i].at - 2)
        /\ d[1] = Dollar /\ d[Len(d) - 2] = Star

(* What may swallow the piece k: in the noise since the last message, a    *)
(* '$' less than six bytes before it, or the four bytes of a header, whose *)
(* fields are not checked and may cover everything that follows.           *)
FalseSync(k) ==
    LET from == CHOOSE n \in 0..StartOf(k) :
                    /\ n \in {0} \cup {m.at : m \in {hc[i] : i \in DOMAIN hc}}
                    /\ \A i \in DOMAIN hc : hc[i].at <= StartOf(k) => hc[i].at <= n
    IN \/ \E q \in (from + 1)..StartOf(k) : wire[q] = Dollar
       \/ \E q \in (from + 1)..(StartOf(k) - 3) :
            HeaderLen(SubSeq(wire, q, q + 3)) > 0

(* The parser finds its way back: a frame that the parser has passed is    *)
(* published, however the reads cut it and whatever bytes came before,     *)
(* broken headers among them, unless a '$' or a complete false header      *)
(* stood in the noise before it.                                           *)
FrameLostOnlyToFalseSync ==
    \A k \in DOMAIN pieces :
        /\ IsFrame(pieces[k]) /\ pointer >= EndOf(k)
        /\ type = "NONE" /\ state = "S0"
        /\ ~ FalseSync(k)
        => \E i \in DOMAIN hc : hc[i].at = EndOf(k) /\ hc[i].data = pieces[k]

(* A frame at the end of the wire is published when its last byte is      *)
(* there, without waiting for the next one.                                *)
LastFramePublished ==
    pointer = Len(wire) /\ type = "NONE" /\ IsFrame(pieces[Len(pieces)])
        /\ ~ FalseSync(Len(pieces)) => \E i \in DOMAIN hc : hc[i].at = Len(wire)

(* Only sentences whose checksum and line end are right are published.     *)
(* The wire's good sentences are known: the others never appear.           *)
OnlyGoodSentences ==
    \A i \in DOMAIN nmea :
        SubSeq(wire, nmea[i].at - Len(nmea[i].data) - 1, nmea[i].at) \in GoodSentences
===============================================================================
