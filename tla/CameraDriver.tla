----------------------------- MODULE CameraDriver -----------------------------
(***************************************************************************)
(* The camera driver, grab_trigger.cc: main sets the camera up, starts the *)
(* thread that fetches, stamps, converts and publishes frames, and takes   *)
(* everything down after SIGINT.  Three actors: main, WorkThread and the   *)
(* camera (external) that exposes frames numbered 1 .. FrameMax, 1 ...     *)
(* The wait for the LiDAR stamp is module SharedStamp; here it succeeds or *)
(* does not.                                                               *)
(***************************************************************************)
EXTENDS Integers, Sequences, FiniteSets

CONSTANTS
  Configs,         (* settings files, records of the entries read          *)
  FrameMax,        (* kCameraFrameNumberMax, 65535                         *)
  MaxFrames,       (* exposures (bound)                                    *)
  SdkBuffer        (* frames the SDK keeps (external)                      *)

(* What an instance of this module gives its constants.                    *)
CameraAssumption ==
  /\ Configs \subseteq
       [width : Int, height : Int, d : Seq(Int), k : Seq(Int), r : Seq(Int), p : Seq(Int),
        scale : Int, sensor : Int \X Int, trigger : BOOLEAN, serial : STRING,
        devices : SUBSET STRING]
  /\ Configs # {}
  /\ FrameMax \in Nat \ {0, 1} /\ MaxFrames \in Nat /\ SdkBuffer \in Nat \ {0}

Absent == <<>>     (* an entry that the settings file does not have        *)

VARIABLES
  config,
  main,            (* the step main is at                                  *)
  info_template,   (* camera_info_template                                 *)
  opened, grabbing,(* state of the device                                  *)
  exit_flag,
  exposed,         (* camera: exposures so far                             *)
  buffer,          (* frames in the SDK, oldest first                      *)
  gap,             (* camera: frames lost since the last one buffered      *)
  worker,          (* the step WorkThread is at                            *)
  last_number,     (* last_camera_frame_number                             *)
  reported,        (* missed frames reported in total                      *)
  lost,            (* history: frames lost between those received          *)
  published        (* the last image and its CameraInfo                    *)

mainVars == <<config, main, info_template, opened, grabbing>>
cameraVars == <<exposed, buffer, gap>>
workVars == <<worker, last_number, reported, lost, published>>
vars == <<mainVars, exit_flag, cameraVars, workVars>>

-----------------------------------------------------------------------------
(* The calibration.                                                        *)

(* ReadDoubleSequence(node, n): n = 0 accepts any non-empty sequence.      *)
ReadsSequence(node, n) == IF n = 0 THEN node # Absent ELSE Len(node) = n

NoInfo == [width |-> 0, height |-> 0, k |-> <<>>, p |-> <<>>]

(* [K | 0], row by row.                                                    *)
ProjectionOf(k, zero) ==
  <<k[1], k[2], k[3], zero, k[4], k[5], k[6], zero, k[7], k[8], k[9], zero>>

LoadsCameraInfo(c) ==
  /\ c.width > 0 /\ c.height > 0
  /\ ReadsSequence(c.d, 0) /\ ReadsSequence(c.k, 9)
  /\ c.r = Absent \/ ReadsSequence(c.r, 9)
  /\ c.p = Absent \/ ReadsSequence(c.p, 12)

LoadCameraInfo(c) ==
  [width |-> c.width, height |-> c.height, k |-> c.k,
   p |-> IF c.p = Absent THEN ProjectionOf(c.k, 0) ELSE c.p]

(* The calibration scaled to the size of the image: the first row of each  *)
(* matrix by the width, the second by the height.  The doubles of the code *)
(* are fractions here.                                                     *)
RowScale(info, w, h, row) ==
  CASE row = 1 -> <<w, info.width>> [] row = 2 -> <<h, info.height>> [] OTHER -> <<1, 1>>
RowOf(i, columns) == IF i <= columns THEN 1 ELSE IF i <= 2 * columns THEN 2 ELSE 3
Scaled(x, ratio) == <<x * ratio[1], ratio[2]>>

BuildCameraInfo(info, w, h) ==
  [width |-> w, height |-> h,
   k |-> [i \in 1 .. 9 |-> Scaled(info.k[i], RowScale(info, w, h, RowOf(i, 3)))],
   p |-> [i \in 1 .. 12 |-> Scaled(info.p[i], RowScale(info, w, h, RowOf(i, 4)))]]

(* image_scale in tenths; less than 0.1 means full size.                   *)
ImageScale(c) == IF c.scale < 1 THEN 10 ELSE c.scale

Resized(n) == (n * ImageScale(config)) \div 10

-----------------------------------------------------------------------------
(* main: the calls of the set-up, in order.  Each can fail and then main   *)
(* returns, except those of setParams, whose failures are only logged.     *)

SetUp ==
  <<"load_info", "find_camera", "create", "open", "frame_rate", "pixel_format", "params",
    "trigger_mode", "trigger_source", "grab", "thread">>

(* The way down after the loop of main.                                    *)
TakeDown == <<"spin", "stop_grab", "close", "destroy", "ended">>

(* Which device is opened: the only one, or the one with the serial number. *)
FindsCamera(c) ==
  /\ c.devices # {}
  /\ Cardinality(c.devices) = 1 \/ (c.serial # "" /\ c.serial \in c.devices)

(* The step can succeed.                                                   *)
Succeeds(step) ==
  CASE step = "load_info" -> LoadsCameraInfo(config)
    [] step = "find_camera" -> FindsCamera(config)
    [] OTHER -> TRUE

Following(steps, step) == steps[(CHOOSE i \in 1 .. Len(steps) : steps[i] = step) + 1]

Init ==
  /\ config \in Configs
  /\ main = "load_info" /\ info_template = NoInfo
  /\ opened = FALSE /\ grabbing = FALSE /\ exit_flag = FALSE
  /\ exposed = 0 /\ buffer = <<>> /\ gap = 0
  /\ worker = "none" /\ last_number = 0 /\ reported = 0 /\ lost = 0
  /\ published = [image |-> <<0, 0>>, info |-> NoInfo]

SetUpStep ==
  /\ main \in {SetUp[i] : i \in 1 .. Len(SetUp)} /\ Succeeds(main)
  /\ main' = IF main = "thread" THEN "spin" ELSE Following(SetUp, main)
  /\ info_template' = IF main = "load_info" THEN LoadCameraInfo(config) ELSE info_template
  /\ opened' = (opened \/ main = "open")
  /\ grabbing' = (grabbing \/ main = "grab")
  /\ worker' = IF main = "thread" THEN "start" ELSE worker
  /\ UNCHANGED <<config, exit_flag, cameraVars, last_number, reported, lost, published>>

SetUpFails ==
  /\ main \in {SetUp[i] : i \in 1 .. Len(SetUp)} \ {"params"}
  /\ main' = "ended"
  /\ UNCHANGED <<config, info_template, opened, grabbing, exit_flag, cameraVars, workVars>>

(* The loop of main ends and the thread is joined.                         *)
JoinWorker ==
  /\ main = "spin" /\ exit_flag /\ worker = "done"
  /\ main' = "stop_grab"
  /\ UNCHANGED <<config, info_template, opened, grabbing, exit_flag, cameraVars, workVars>>

(* A call of the way down succeeds, or fails and main returns.             *)
TakeDownStep ==
  /\ main \in {"stop_grab", "close", "destroy"}
  /\ \/ /\ main' = Following(TakeDown, main)
        /\ grabbing' = FALSE
        /\ opened' = (opened /\ main = "stop_grab")
     \/ main' = "ended" /\ UNCHANGED <<opened, grabbing>>
  /\ UNCHANGED <<config, info_template, exit_flag, cameraVars, workVars>>

(* SIGINT, once the handler is installed.                                  *)
Interrupt ==
  /\ main \notin {"load_info", "ended"} /\ ~exit_flag
  /\ exit_flag' = TRUE
  /\ UNCHANGED <<mainVars, cameraVars, workVars>>

-----------------------------------------------------------------------------
(* The camera (external).  A frame that finds the buffer of the SDK full,  *)
(* or is lost on the way, does not arrive.  A run of lost frames as long   *)
(* as the counter's cycle cannot be told from none and is left out.        *)

NumberOf(n) == 1 + ((n - 1) % FrameMax)

Expose ==
  /\ grabbing /\ exposed < MaxFrames
  /\ exposed' = exposed + 1
  /\ \/ /\ Len(buffer) < SdkBuffer
        /\ buffer' = Append(buffer, [number |-> NumberOf(exposed + 1), gap |-> gap])
        /\ gap' = 0
     \/ gap < FrameMax - 1 /\ gap' = gap + 1 /\ buffer' = buffer
  /\ UNCHANGED <<mainVars, exit_flag, workVars>>

-----------------------------------------------------------------------------
(* WorkThread.                                                             *)

(* PayloadSize or the memory is not to be had, or the loop starts.         *)
WorkerStarts ==
  /\ worker = "start" /\ worker' \in {"loop", "done"}
  /\ UNCHANGED <<mainVars, exit_flag, cameraVars, last_number, reported, lost, published>>

(* Mutant: the counter is taken for one of 32 bits that goes through zero. *)
MissedWithZero(last, current) ==
  IF current > last THEN current - last - 1 ELSE (FrameMax - last) + current

(* Frames missing between two received ones, on the circle 1 .. FrameMax.  *)
MissedFrames(last, current) ==
  LET expected == IF last = FrameMax THEN 1 ELSE last + 1
  IN  IF current = expected THEN 0
      ELSE IF current > last THEN current - last - 1
      ELSE (FrameMax - last) + (current - 1)

(* MV_CC_GetOneFrameTimeout returns a frame; its number is booked before   *)
(* anything else.                                                          *)
GetFrame ==
  /\ worker = "loop" /\ ~exit_flag /\ buffer # <<>>
  /\ buffer' = Tail(buffer)
  /\ last_number' = Head(buffer).number
  /\ IF last_number = 0
       THEN UNCHANGED <<reported, lost>>
       ELSE /\ reported' = reported + MissedFrames(last_number, Head(buffer).number)
            /\ lost' = lost + Head(buffer).gap
  /\ worker' = IF config.trigger THEN "stamp" ELSE "convert"
  /\ UNCHANGED <<mainVars, exit_flag, exposed, gap, published>>

(* A LiDAR stamp is matched, or the frame is dropped.  SIGINT ends the     *)
(* wait without a match.                                                   *)
StampFrame ==
  /\ worker = "stamp"
  /\ \/ ~exit_flag /\ worker' = "convert"
     \/ worker' = "loop"
  /\ UNCHANGED <<mainVars, exit_flag, cameraVars, last_number, reported, lost, published>>

(* MV_CC_ConvertPixelType fails and the frame is skipped, or the image is  *)
(* resized and published with its CameraInfo.                              *)
PublishFrame ==
  /\ worker = "convert" /\ worker' = "loop"
  /\ \/ UNCHANGED published
     \/ LET w == Resized(config.sensor[1])
            h == Resized(config.sensor[2])
        IN published' = [image |-> <<w, h>>, info |-> BuildCameraInfo(info_template, w, h)]
  /\ UNCHANGED <<mainVars, exit_flag, cameraVars, last_number, reported, lost>>

(* Mutant: the fetch has no timeout, the flag is seen with the next frame. *)
WorkerEndsOnFrame ==
  /\ worker = "loop" /\ exit_flag /\ buffer # <<>> /\ worker' = "done"
  /\ UNCHANGED <<mainVars, exit_flag, cameraVars, last_number, reported, lost, published>>

(* The fetch returns after a second at the latest and the loop sees the    *)
(* flag.                                                                   *)
WorkerEnds ==
  /\ worker = "loop" /\ exit_flag /\ worker' = "done"
  /\ UNCHANGED <<mainVars, exit_flag, cameraVars, last_number, reported, lost, published>>

Main == SetUpStep \/ SetUpFails \/ JoinWorker \/ TakeDownStep
Worker == WorkerStarts \/ GetFrame \/ StampFrame \/ PublishFrame \/ WorkerEnds

Next == Main \/ Interrupt \/ Expose \/ Worker

(* Both threads go on as long as they can; nobody has to press Ctrl-C.     *)
Spec == Init /\ [][Next]_vars /\ WF_vars(Main) /\ WF_vars(Worker)

-----------------------------------------------------------------------------
TypeOK ==
  /\ config \in Configs
  /\ main \in {SetUp[i] : i \in 1 .. Len(SetUp)} \cup {TakeDown[i] : i \in 1 .. Len(TakeDown)}
  /\ opened \in BOOLEAN /\ grabbing \in BOOLEAN /\ exit_flag \in BOOLEAN
  /\ exposed \in 0 .. MaxFrames /\ Len(buffer) <= SdkBuffer /\ gap \in 0 .. FrameMax - 1
  /\ worker \in {"none", "start", "loop", "stamp", "convert", "done"}
  /\ last_number \in 0 .. FrameMax
  /\ reported \in Nat /\ lost \in Nat

(* The frames reported as missed are those lost on the way, over any       *)
(* number of turns of the camera's counter.                                *)
FrameAccounting == reported = lost

(* The thread uses the handle only while the device is open and grabbing,  *)
(* whenever SIGINT arrives and whatever call fails.                        *)
WorkerHasDevice == worker \notin {"none", "done"} => opened /\ grabbing

(* Two fractions are one number.                                           *)
Equal(a, b) == a[1] * b[2] = b[1] * a[2]

(* The CameraInfo published with an image has its size and its field of    *)
(* view, and projects with [K | 0] when the settings name no P.            *)
InfoFitsImage ==
  LET w == published.image[1]
      h == published.image[2]
      info == published.info
  IN published.info # NoInfo =>
       /\ info.width = w /\ info.height = h
       /\ \A i \in 1 .. 3 : Equal(info.k[i], <<config.k[i] * w, config.width>>)
       /\ \A i \in 4 .. 6 : Equal(info.k[i], <<config.k[i] * h, config.height>>)
       /\ config.p = Absent =>
            \A i \in 1 .. 12 : Equal(info.p[i], ProjectionOf(info.k, <<0, 1>>)[i])
       /\ config.p # Absent => /\ Equal(info.p[4], <<config.p[4] * w, config.width>>)
                               /\ Equal(info.p[8], <<config.p[8] * h, config.height>>)

(* After SIGINT main returns: the thread notices the flag in its loop and  *)
(* in its wait, and main notices it too.                                   *)
InterruptEnds == exit_flag ~> main = "ended"
=============================================================================
