----------------------------- MODULE LidarSession -----------------------------
(***************************************************************************)
(* From the configuration file to a lidar that samples: LdsLidar's         *)
(* initialisation, the table of device indices (CacheIndex), and the       *)
(* callbacks of the SDK that configure each device it announces.  A device *)
(* is sampling, and its data published, when the last of the settings sent *)
(* to it has been acknowledged.  Commands time out and are sent again;     *)
(* those that fail are not.  The SDK and the devices are external.         *)
(***************************************************************************)
EXTENDS Integers, Sequences, FiniteSetsExt

CONSTANTS
  Devices,          (* handles of the devices on the network               *)
  File,             (* the configuration file: [opens, lidar_type,         *)
                    (* lidars : sequence of entries]                       *)
  Tracked,          (* commands whose answers are followed (bound)         *)
  SdkInit,          (* outcomes of LivoxLidarSdkInit                       *)
  MaxSourceLidar,   (* kMaxSourceLidar                                     *)
  MaxInfos,         (* announcements of a device (bound)                   *)
  MaxFailures       (* commands that fail (bound)                          *)

Absent == 1000      (* a field that an entry does not have                 *)
Settings == {"pcl_data_type", "pattern_mode", "blind_spot_set", "dual_emit_en"}
OtherCommands == {"attitude", "work_mode", "imu"}
Commands == Settings \union OtherCommands

(* What an instance of this module gives its constants: a file whose       *)
(* settings have values that an int8_t holds.                              *)
Entry == [handle : Devices, ip : BOOLEAN, fields : [Settings -> 0 .. 127 \union {Absent}]]
SessionAssumption ==
  /\ MaxSourceLidar \in Nat /\ MaxInfos \in Nat /\ MaxFailures \in Nat
  /\ SdkInit \subseteq BOOLEAN /\ Settings \subseteq Tracked /\ Tracked \subseteq Commands
  /\ File.lidars \in Seq(Entry)

VARIABLES
  phase,            (* "start", "entries", "running" or "failed"           *)
  entry,            (* the entry of the file at hand                       *)
  map_index,        (* CacheIndex: index of each handle, 0 if none         *)
  lidars,           (* LidarDevice by index                                *)
  pending,          (* commands sent and not answered, by device           *)
  sent,             (* history: last value sent of each setting            *)
  acked,            (* history: settings acknowledged                      *)
  infos, failures

vars == <<phase, entry, map_index, lidars, pending, sent, acked, infos, failures>>

Index == 1 .. MaxSourceLidar

(* Static storage: the configuration of an unknown device is all zeros.    *)
ZeroDevice == [handle |-> "none", config |-> [s \in Settings |-> 0], set_bits |-> {}, state |-> "Off"]

Init ==
  /\ phase = "start" /\ entry = 1
  /\ map_index = [h \in Devices |-> 0]
  /\ lidars = [i \in Index |-> ZeroDevice]
  /\ pending = [h \in Devices |-> [c \in Commands |-> 0]]
  /\ sent = [h \in Devices |-> [s \in Settings |-> Absent]]
  /\ acked = [h \in Devices |-> {}]
  /\ infos = [h \in Devices |-> 0] /\ failures = 0

-----------------------------------------------------------------------------
(* The configuration file.                                                 *)

(* A value kept in an int8_t.                                              *)
Int8(n) == ((n + 128) % 256) - 128

(* ParseUserConfigs: -1 stands for a setting that is not given.            *)
ParseEntry(e) ==
  [s \in Settings |-> IF e.fields[s] = Absent THEN -1 ELSE Int8(e.fields[s])]

(* ParseSummaryInfo.                                                       *)
ParsesSummary == File.opens /\ File.lidar_type # Absent

(* The bit of kLivoxLidarType (8) is set.                                  *)
HasLivoxLidar == (File.lidar_type \div 8) % 2 = 1

-----------------------------------------------------------------------------
(* CacheIndex.                                                             *)

(* GetFreeIndex: the index the handle has, the first free one, or 0.       *)
GetFreeIndex(table, h) ==
  LET free == Index \ {table[d] : d \in Devices}
  IN IF table[h] # 0 THEN table[h] ELSE IF free = {} THEN 0 ELSE Min(free)

(* InitLdsLidar: the file, the SDK, the devices; the data callbacks are    *)
(* installed whatever the type of the lidars.                              *)
InitLdsLidar(sdk) ==
  /\ phase = "start"
  /\ phase' = IF ~ParsesSummary \/ (HasLivoxLidar /\ ~sdk) THEN "failed"
              ELSE IF HasLivoxLidar THEN "entries" ELSE "running"
  /\ UNCHANGED <<entry, map_index, lidars, pending, sent, acked, infos, failures>>

(* The devices of the file get an index, their configuration and their     *)
(* handle, unless the entry has no ip or no index is left.                 *)
ConfiguredBy(e) == e.ip /\ GetFreeIndex(map_index, e.handle) # 0

(* InitLivoxLidar, the loop over the entries (a later entry of a handle    *)
(* wins); after it the callback is installed.                              *)
AddConfigured ==
  /\ phase = "entries"
  /\ LET e == File.lidars[entry]
         i == GetFreeIndex(map_index, e.handle)
     IN IF entry > Len(File.lidars)
        THEN phase' = "running" /\ UNCHANGED <<entry, map_index, lidars>>
        ELSE /\ entry' = entry + 1 /\ UNCHANGED phase
             /\ IF ConfiguredBy(e)
                THEN /\ map_index' = [map_index EXCEPT ![e.handle] = i]
                     /\ lidars' = [lidars EXCEPT ![i].handle = e.handle,
                                                 ![i].config = ParseEntry(e)]
                ELSE UNCHANGED <<map_index, lidars>>
  /\ UNCHANGED <<pending, sent, acked, infos, failures>>

-----------------------------------------------------------------------------
(* The callbacks.                                                          *)

Given(config) == {s \in Settings : config[s] # -1}

(* Mutant: each setting replaces the bits of the one before.               *)
BitsOfLastSetting(d) ==
  IF Given(d.config) = {} THEN d
  ELSE [d EXCEPT !.set_bits = {CHOOSE s \in Given(d.config) : TRUE}]

(* The settings to be acknowledged are recorded under config_mutex_ before *)
(* any answer can be handled.                                              *)
RecordSettings(d) == [d EXCEPT !.set_bits = @ \union Given(d.config)]

Send(h, cs) ==
  pending' = [pending EXCEPT ![h] = [c \in Commands |-> @[c] + IF c \in cs \intersect Tracked THEN 1 ELSE 0]]

(* LidarInfoChangeCallback: an unknown device gets an index and nothing    *)
(* else; one that has an index is sent its settings and its attitude.      *)
InfoChange(h) ==
  /\ phase = "running" /\ HasLivoxLidar /\ infos[h] < MaxInfos
  /\ infos' = [infos EXCEPT ![h] = @ + 1]
  /\ UNCHANGED <<phase, entry, acked, failures>>
  /\ IF map_index[h] = 0
     THEN /\ map_index' = [map_index EXCEPT ![h] = GetFreeIndex(map_index, h)]
          /\ Send(h, IF GetFreeIndex(map_index, h) = 0 THEN {} ELSE {"work_mode", "imu"})
          /\ UNCHANGED <<lidars, sent>>
     ELSE LET i == map_index[h] IN
          /\ lidars' = [lidars EXCEPT ![i] = RecordSettings(@)]
          /\ sent' = [sent EXCEPT ![h] = [s \in Settings |->
                        IF s \in Given(lidars[i].config) THEN lidars[i].config[s] ELSE @[s]]]
          /\ Send(h, Given(lidars[i].config) \union OtherCommands)
          /\ UNCHANGED map_index

Answered(h, c) == pending' = [pending EXCEPT ![h][c] = @ - 1]

(* The device samples when no setting is left.                             *)
Acknowledge(d, s) ==
  [d EXCEPT !.set_bits = @ \ {s}, !.state = IF d.set_bits \ {s} = {} THEN "Sampling" ELSE @]

(* SetDataTypeCallback, SetPatternModeCallback, SetBlindSpotCallback,      *)
(* SetDualEmitCallback with success.                                       *)
SettingSucceeds(h, s) ==
  /\ s \in Settings /\ pending[h][s] > 0 /\ map_index[h] # 0
  /\ lidars' = [lidars EXCEPT ![map_index[h]] = Acknowledge(@, s)]
  /\ acked' = [acked EXCEPT ![h] = @ \union {s}]
  /\ Answered(h, s)
  /\ UNCHANGED <<phase, entry, map_index, sent, infos, failures>>

(* SetAttitudeCallback, WorkModeChangedCallback and                        *)
(* EnableLivoxLidarImuDataCallback with success: nothing is recorded.      *)
OtherSucceeds(h, c) ==
  /\ c \in OtherCommands /\ pending[h][c] > 0
  /\ Answered(h, c)
  /\ UNCHANGED <<phase, entry, map_index, lidars, sent, acked, infos, failures>>

(* A timeout: the command is sent again, and stays pending.  The attitude  *)
(* of an unknown device is sent to handle 0, where nobody answers.         *)
TimesOut(h, c) ==
  /\ pending[h][c] > 0
  /\ UNCHANGED vars

(* Any other status: reported, and not tried again (the work mode is).     *)
Fails(h, c) ==
  /\ pending[h][c] > 0 /\ failures < MaxFailures
  /\ failures' = failures + 1
  /\ IF c = "work_mode" THEN UNCHANGED pending ELSE Answered(h, c)
  /\ UNCHANGED <<phase, entry, map_index, lidars, sent, acked, infos>>

Next ==
  \/ \E sdk \in SdkInit : InitLdsLidar(sdk)
  \/ AddConfigured
  \/ \E h \in Devices : InfoChange(h)
  \/ \E h \in Devices, c \in Commands :
       SettingSucceeds(h, c) \/ OtherSucceeds(h, c) \/ TimesOut(h, c) \/ Fails(h, c)

Spec == Init /\ [][Next]_vars

-----------------------------------------------------------------------------
Entries == {File.lidars[i] : i \in {j \in DOMAIN File.lidars : File.lidars[j].ip}}
InFile == {e.handle : e \in Entries}
LastEntry(h) == File.lidars[Max({i \in DOMAIN File.lidars :
                                   File.lidars[i].ip /\ File.lidars[i].handle = h})]

Samples(h) == map_index[h] # 0 /\ lidars[map_index[h]].state = "Sampling"

TypeOK ==
  /\ phase \in {"start", "entries", "running", "failed"}
  /\ map_index \in [Devices -> 0 .. MaxSourceLidar]
  /\ \A i \in Index : lidars[i].set_bits \subseteq Settings /\ lidars[i].state \in {"Off", "Sampling"}
  /\ \A h \in Devices, c \in Commands : pending[h][c] \in 0 .. MaxInfos

(* No two devices share an index, and the device at the index of a handle  *)
(* of the file has that handle, so that data and settings go to the same   *)
(* place; when all indices are taken nobody is pushed out.                 *)
IndexUnique ==
  /\ \A g, h \in Devices : g # h /\ map_index[g] # 0 => map_index[g] # map_index[h]
  /\ \A h \in InFile : map_index[h] # 0 => lidars[map_index[h]].handle = h

(* A device samples only after every setting of its entry in the file has  *)
(* been acknowledged, whatever the order of answers and announcements.     *)
SamplingConfigured ==
  \A h \in InFile : Samples(h) =>
    \A s \in Settings : LastEntry(h).fields[s] # Absent => s \in acked[h]

(* What is sent is what the file says.                                     *)
SentAsConfigured ==
  \A h \in InFile, s \in Settings : sent[h][s] # Absent => sent[h][s] = LastEntry(h).fields[s]

=============================================================================
