------------------------------- MODULE DriversMC ------------------------------
(***************************************************************************)
(* The parts between the sensors and the topics of the odometry, for TLC:  *)
(* the Livox driver (stamps, frames, queues, sessions), the parser and the *)
(* decoders of the receiver, the two point cloud converters.  They hand    *)
(* messages on and share no memory, so what a part does is decided by the  *)
(* behaviours in which it alone moves: `part' names the part that moves,   *)
(* the others stay in their initial state.  A part may be run with several *)
(* sets of constants; these are its instances below.                       *)
(***************************************************************************)
EXTENDS StampNormalizer, Sequences

(* The constants of each FrameTimer and LivoxQueues that is run, by the    *)
(* name of the part.                                                       *)
CONSTANTS FrameSettings, RingSettings
CONSTANTS
  Devices, File, Tracked, SdkInit, MaxSourceLidar, MaxInfos, MaxFailures  (* LidarSession *)
CONSTANTS Layouts, Shapes, Stamps, Times, Ulp, MaxOffset              (* PointConverter *)

VARIABLES
  part,
  sync, queue, pc, raw, cloud, next_publish, first, lag, quit, frames, out, sent,
  packets, unsynced,                                                   (* FrameTimer     *)
  wr, rd, stored, slot, list, count, sampling, producer, consumer, publishers, exit, fifo,
  nextId, scanned,                                                     (* LivoxQueues    *)
  phase, entry, map_index, lidars, commands, set, acked, infos,
  failures,                                                            (* LidarSession   *)
  pieces, wire, pointer, last, state, spec, error, type, value, hc, nmea,  (* HcParser   *)
  content, burst, start, ucBuffer, ulCount, ulCRC, verdict,            (* HcCrc          *)
  format, fields, canSent, canFrames, result,                          (* CanDecoder     *)
  points, reads, relative, custom, nodes                               (* PointConverter *)

frameVars == <<sync, queue, pc, raw, cloud, next_publish, first, lag, quit, frames,
               out, sent, packets, unsynced>>
queueVars == <<wr, rd, stored, slot, list, count, sampling, producer, consumer, publishers,
               exit, fifo, nextId, scanned>>
sessionVars == <<phase, entry, map_index, lidars, commands, set, acked, infos, failures>>
parserVars == <<pieces, wire, pointer, last, state, spec, error, type, value, hc, nmea>>
crcVars == <<content, burst, start, ucBuffer, ulCount, ulCRC, verdict>>
canVars == <<format, fields, canSent, canFrames, result>>
converterVars == <<points, reads, relative, custom, nodes>>
allVars == <<part, vars, frameVars, queueVars, sessionVars, parserVars, crcVars, canVars,
             converterVars>>

-----------------------------------------------------------------------------
(* Frames: two lidars with a synchronised clock, an axis of three ticks    *)
(* and packets that step over a boundary or over two of them; then clocks  *)
(* that gain and lose their synchronisation.                               *)
Frames(p) == INSTANCE FrameTimer WITH
  Lidars <- FrameSettings[p].lidars, Interval <- FrameSettings[p].interval,
  PointStep <- FrameSettings[p].point_step, Gaps <- FrameSettings[p].gaps,
  Kinds <- FrameSettings[p].kinds, ConfiguredType <- FrameSettings[p].configured,
  SyncTypes <- FrameSettings[p].sync, Translation <- FrameSettings[p].translation,
  Position <- FrameSettings[p].position, MaxPackets <- FrameSettings[p].max_packets,
  MaxQueue <- FrameSettings[p].max_queue, MaxLag <- FrameSettings[p].max_lag
Timers == DOMAIN FrameSettings

Synced ==
  [lidars |-> {"front", "rear"}, interval |-> 3, point_step |-> 1, gaps |-> {1, 3, 7},
   kinds |-> {"Low", "unknown"}, configured |-> "Low", sync |-> {TRUE}, translation |-> -25,
   position |-> 124, max_packets |-> 2, max_queue |-> 2, max_lag |-> 0]
TestedFrames ==
  [synced |-> Synced,
   mixed |-> [Synced EXCEPT !.gaps = {1, 4}, !.kinds = {"High"}, !.configured = "High",
                            !.sync = {TRUE, FALSE}, !.max_lag = 4]]

ASSUME FramesAssumption == Timers # {} /\ \A p \in Timers : Frames(p)!FrameTimerAssumption

(* Queues: any rings and lists.  The run has rings of one packet that two  *)
(* lidars fill while they are read, one ring of two packets, whose indices *)
(* turn over at four, and lists of IMU data.                               *)
Queues(p) == INSTANCE LivoxQueues WITH
  Lidars <- RingSettings[p].lidars, Ring <- RingSettings[p].ring,
  MinQueueSize <- RingSettings[p].min_size, PublishFreq <- RingSettings[p].freq,
  MaxFrame <- RingSettings[p].frame, IndexMod <- RingSettings[p].mod,
  Format <- "Custom", MultiTopic <- RingSettings[p].multi, Ids <- RingSettings[p].ids,
  Paced <- RingSettings[p].paced, EmptyIds <- RingSettings[p].empty,
  MaxList <- RingSettings[p].list
Rings == DOMAIN RingSettings

CloudRings ==
  [lidars |-> {1, 2}, ring |-> TRUE, min_size |-> 1, freq |-> 1, frame |-> 2, mod |-> 2,
   multi |-> FALSE, ids |-> 0 .. 2, paced |-> TRUE, empty |-> {}, list |-> 1]
OneRing ==
  [lidars |-> {1}, ring |-> TRUE, min_size |-> 2, freq |-> 1, frame |-> 1, mod |-> 4,
   multi |-> TRUE, ids |-> 0 .. 3, paced |-> FALSE, empty |-> {1}, list |-> 2]
ImuLists == [OneRing EXCEPT !.lidars = {1, 2}, !.ring = FALSE, !.multi = FALSE, !.list = 1]
TestedRings == [p \in {"clouds", "one cloud", "imu data"} |->
  CASE p = "clouds" -> CloudRings [] p = "one cloud" -> OneRing [] OTHER -> ImuLists]

ASSUME RingsAssumption == Rings # {} /\ \A p \in Rings : Queues(p)!QueuesAssumption

(* Session: any devices and any file.  In the run two lidars of the file,   *)
(* one of them entered twice, an entry without an address, and a lidar the *)
(* file does not have.                                                     *)
Session == INSTANCE LidarSession WITH pending <- commands, sent <- set

Fields(data, pattern, blind, dual) ==
  [s \in {"pcl_data_type", "pattern_mode", "blind_spot_set", "dual_emit_en"} |->
     CASE s = "pcl_data_type" -> data [] s = "pattern_mode" -> pattern
       [] s = "blind_spot_set" -> blind [] s = "dual_emit_en" -> dual]
NotGiven == 1000
TwoLidars ==
  [opens |-> TRUE, lidar_type |-> 8,
   lidars |->
     << [handle |-> "hap", ip |-> TRUE, fields |-> Fields(1, NotGiven, 60, NotGiven)],
        [handle |-> "other", ip |-> FALSE, fields |-> Fields(1, 0, NotGiven, NotGiven)],
        [handle |-> "mid", ip |-> TRUE, fields |-> Fields(1, 0, NotGiven, NotGiven)],
        [handle |-> "hap", ip |-> TRUE, fields |-> Fields(1, NotGiven, 50, NotGiven)] >>]
ASSUME DevicesAssumption == Session!SessionAssumption

-----------------------------------------------------------------------------
(* Parser: a long and a short frame, sentences, and noise that breaks off  *)
(* a header at each of its bytes; reads of several sizes.                  *)
LongFrame  == <<170, 204, 72, 67, 1, 0, 2, 1>> \o [i \in 1..14 |-> 0] \o <<7, 1, 2, 3, 4>>
ShortFrame == <<170, 85, 72, 67, 1, 0, 2, 1, 170, 9, 36, 170, 42>>
BigFrame   == <<170, 85, 72, 67, 40, 0, 2, 1>> \o [i \in 1..44 |-> i]
HighId     == <<170, 85, 72, 67, 0, 0, 200, 1, 5, 6, 7, 8>>

(* $GPGGA,1*4B CR LF; the same with a wrong digit, a wrong line end, an    *)
(* unknown head and one of six letters; and a sentence cut off.            *)
Sentence(head, tail) == <<36>> \o head \o <<44, 49, 42>> \o tail
GPGGA        == <<71, 80, 71, 71, 65>>
GoodSentence == Sentence(GPGGA, <<52, 66, 13, 10>>)
SixLetters   == Sentence(<<71, 80, 67, 72, 67, 65>>, <<48, 51, 13, 10>>)
Sentences ==
  {GoodSentence, SixLetters, Sentence(GPGGA, <<52, 67, 13, 10>>),
   Sentence(GPGGA, <<52, 66, 88, 89>>), Sentence(<<88, 88, 71, 71, 65>>, <<52, 66, 13, 10>>),
   <<36>> \o GPGGA \o <<44, 32, 42>>}
Noise ==
  {<<>>, <<1>>, <<170>>, <<170, 170>>, <<170, 204>>, <<170, 204, 72>>, <<170, 85, 72>>,
   <<170, 85, 170>>, <<170, 204, 72, 67>>, <<36>>, <<36, 71, 80, 1, 1, 1, 1>>}
WiresSent ==
  {<<n, ShortFrame, ShortFrame>> : n \in Noise} \cup {<<n, LongFrame>> : n \in Noise}
  \cup {<<HighId, <<1, 170>>, ShortFrame>>, <<BigFrame, ShortFrame>>,
        <<LongFrame, BigFrame, LongFrame>>, <<ShortFrame, GoodSentence>>}
  \cup {<<s, ShortFrame>> : s \in Sentences}
Parser == INSTANCE HcParser WITH
  Wires <- WiresSent, MaxLen <- 32, ReadSizes <- {1, 3, 7, 32},
  GoodSentences <- {GoodSentence, SixLetters}

(* Checksum: single bits, the generator itself, a full span of 32 bits, at *)
(* every place of three frames.                                            *)
Crc == INSTANCE HcCrc WITH
  Contents <- {<<{}>>, <<{1, 3, 5, 7}, {2, 3, 6, 7}>>, <<0..7, {}, {0, 7}>>},
  Bursts <- {{}, {0}, {0, 1}, {0, 31}, {0, 7, 13}, 0..31,
             {0, 1, 2, 4, 5, 7, 8, 10, 11, 12, 16, 22, 23, 26, 31}}

(* CAN frames: both byte orders, every kind, the ends of every field.      *)
Can == INSTANCE CanDecoder WITH
  sent <- canSent, frames <- canFrames,
  Formats <- {"motorola", "intel"}, Samples <- {"high", "minus"}, MaxFrames <- 1

(* Converters: any clouds.  The run has layouts with missing and misplaced *)
(* fields, rows padded or cut off, times before the stamp and beyond the   *)
(* offset.                                                                 *)
PointTypes ==
  [f \in {"x", "y", "z", "intensity", "tag", "line", "timestamp"} |->
     IF f = "timestamp" THEN "FLOAT64" ELSE IF f \in {"tag", "line"} THEN "UINT8" ELSE "FLOAT32"]
DriverLayout ==
  [offsets |-> [x |-> 0, y |-> 4, z |-> 8, intensity |-> 12, tag |-> 16, line |-> 17,
                timestamp |-> 18], types |-> PointTypes, step |-> 26]
NoLine ==
  [DriverLayout EXCEPT !.offsets = [x |-> 0, y |-> 4, z |-> 8, intensity |-> 12,
                                    timestamp |-> 18]]
Convert == INSTANCE PointConverter WITH cloud <- points, pending <- nodes

TestedLayouts ==
  {DriverLayout, NoLine, [DriverLayout EXCEPT !.step = 25], [DriverLayout EXCEPT !.step = 32],
   [DriverLayout EXCEPT !.types["timestamp"] = "FLOAT32"]}
TestedShapes ==
  [width : {2}, height : {1}, row_step : {52}, size : {51, 52, 64}]
    \cup [width : {1}, height : {0, 2}, row_step : {26, 40}, size : {0, 52, 66, 72}]
TestedTimes == {<<90, 101>>, <<100, 103>>, <<99, 106>>, <<105, 140>>, <<102, 102>>}

ASSUME ReceiverAssumption ==
  /\ Parser!HcParserAssumption /\ Crc!HcCrcAssumption
  /\ Can!CanAssumption /\ Convert!PointConverterAssumption

-----------------------------------------------------------------------------
Parts ==
  Timers \union Rings
    \union {"stamps", "session", "parser", "crc", "can", "converters"}

(* The settings of the part that moves, or any if another one does.        *)
OneOf(S) == IF part \in S THEN part ELSE CHOOSE p \in S : TRUE

(* A part that does not move is in one of its initial states.              *)
DriversInit ==
  /\ part \in Parts
  /\ Init
  /\ \E p \in Timers : p = OneOf(Timers) /\ Frames(p)!Init
  /\ \E p \in Rings : p = OneOf(Rings) /\ Queues(p)!Init
  /\ Session!Init
  /\ Parser!Init /\ (part # "parser" => pieces = <<BigFrame, ShortFrame>>)
  /\ IF part = "crc" THEN Crc!Init
     ELSE content = <<>> /\ burst = {} /\ start = 0 /\ ucBuffer = <<>> /\ ulCount = 0
          /\ ulCRC = {} /\ verdict = "none"
  /\ Can!Init /\ (part # "can" => format = "intel")
  /\ IF part = "converters" THEN Convert!Init
     ELSE points = <<>> /\ reads = {} /\ relative = <<>> /\ custom = <<>> /\ nodes = {}

Groups == {"stamps", "frames", "queues", "session", "parser", "crc", "can", "converters"}

Still(g) ==
  CASE g = "stamps" -> UNCHANGED vars
    [] g = "frames" -> UNCHANGED frameVars
    [] g = "queues" -> UNCHANGED queueVars
    [] g = "session" -> UNCHANGED sessionVars
    [] g = "parser" -> UNCHANGED parserVars
    [] g = "crc" -> UNCHANGED crcVars
    [] g = "can" -> UNCHANGED canVars
    [] g = "converters" -> UNCHANGED converterVars

(* Nothing but this group of variables changes.                            *)
Only(g) == UNCHANGED part /\ \A h \in Groups \ {g} : Still(h)

(* The streams and the devices of a run end; these parts may rest.         *)
Rests ==
  /\ \/ part \in {"stamps", "session", "crc", "converters"}
     \/ part \in Rings /\ ~RingSettings[part].ring
  /\ UNCHANGED allVars

DriversNext ==
  \/ part = "stamps" /\ Next /\ Only("stamps")
  \/ \E p \in Timers : part = p /\ Frames(p)!Next /\ Only("frames")
  \/ \E p \in Rings : part = p /\ Queues(p)!Next /\ Only("queues")
  \/ part = "session" /\ Session!Next /\ Only("session")
  \/ part = "parser" /\ Parser!Next /\ Only("parser")
  \/ part = "crc" /\ Crc!Next /\ Only("crc")
  \/ part = "can" /\ Can!Next /\ Only("can")
  \/ part = "converters" /\ Convert!Next /\ Only("converters")
  \/ Rests

DriversSpec == DriversInit /\ [][DriversNext]_allVars

-----------------------------------------------------------------------------
(* PubHandler: no point is lost, repeated or put out of order between the  *)
(* callback and the frames, and with synchronised stamps the frames are    *)
(* cut on a fixed axis of publish periods, so that their rate does not     *)
(* drift; the configured translation is applied in the unit of the points. *)
FramesOnAxis ==
  \A p \in Timers : part = p =>
    /\ Frames(p)!TypeOK /\ Frames(p)!PointsConserved
    /\ Frames(p)!FixedAxis /\ Frames(p)!TranslationInUnit

(* ldq.cpp: the packet copied out of a ring is the oldest one accepted,    *)
(* whole, although no lock orders the two threads.  Lds: when the poll     *)
(* thread sleeps and no signal is on its way, no packet waits that it has  *)
(* looked for, but for the newest one, still in the producer's store       *)
(* buffer.                                                                 *)
QueuesSound ==
  \A p \in Rings : part = p =>
    Queues(p)!TypeOK /\ Queues(p)!PoppedIntact /\ Queues(p)!NothingForgotten

(* LivoxLidarCallback, CacheIndex: a device samples only after each of the *)
(* settings its last entry in the file gives has been acknowledged, with   *)
(* the values of that entry, and at an index that is its own.              *)
SamplingConfigured ==
  part = "session" =>
    /\ Session!TypeOK /\ Session!IndexUnique
    /\ Session!SamplingConfigured /\ Session!SentAsConfigured

(* hc__analyze: what is published is a stretch of the wire as it was sent, *)
(* and a frame is lost only to a false header or '$' in the noise before   *)
(* it, however the reads cut the wire.  hc__cgi_check_crc32: a frame is    *)
(* accepted if and only if no error within a span of 32 bits lies in it.   *)
(* can_common: every field has the number the device put in the last data  *)
(* frame of its kind.                                                      *)
ReceivedAsSent ==
  /\ part = "parser" =>
       /\ Parser!TypeOK /\ Parser!PublishedAsSent /\ Parser!OnlyGoodSentences
       /\ Parser!FrameLostOnlyToFalseSync /\ Parser!LastFramePublished
  /\ part = "crc" => Crc!BurstsDetected /\ Crc!IntactAccepted
  /\ part = "can" => Can!DecodedAsSent

(* The two converter nodes read inside a cloud, keep the order of its      *)
(* points and agree on their times.                                        *)
ConvertersAgree ==
  part = "converters" =>
    Convert!ConvertersAgree /\ Convert!ReadsInside /\ Convert!OffsetsInOrder
=============================================================================
