----------------------------- MODULE SharedStamp ------------------------------
(***************************************************************************)
(* The LiDAR time stamp that the Livox driver (class Lddc) shares with the *)
(* camera driver (grab_trigger.cc) through a memory-mapped file: two words, *)
(* the version "high" (even: stable, odd: being written) and the stamp     *)
(* "low".  The two are separate processes; every load and store of a word  *)
(* is a step.  All of them are ordered: the stores release, the loads      *)
(* acquire, and only the driver writes.                                    *)
(*                                                                         *)
(* A file is an inode: it survives the driver, and once its name is        *)
(* deleted the processes that mapped it go on using it.  Stamps count the  *)
(* point clouds published, 1 for the first.                                *)
(***************************************************************************)
EXTENDS Integers

CONSTANTS
  MaxStamp,        (* clouds published (bound)                             *)
  MaxCrashes,      (* ends of the driver (bound)                           *)
  MaxInodes,       (* files ever created under the name (bound)            *)
  ReadAttempts,    (* attempts of ReadSharedTimestamp, 8 in the code       *)
  RemapAfter,      (* timestamp_remap_after_timeouts                       *)
  DeleteWhileUp    (* the file may be deleted under a running driver       *)

ASSUME SharedStampAssumption ==
  /\ MaxStamp \in Nat /\ MaxCrashes \in Nat /\ MaxInodes \in Nat \ {0}
  /\ ReadAttempts \in Nat \ {0} /\ RemapAfter \in Nat \ {0}
  /\ DeleteWhileUp \in BOOLEAN

None == 0
Inodes == 1 .. MaxInodes

VARIABLES
  high, low,       (* the words of every file                              *)
  sized,           (* the file has been given its size                     *)
  path,            (* the file the name refers to, None: there is none     *)
  created,         (* files created so far                                 *)
  wpc,             (* driver: next step                                    *)
  wmap,            (* driver: pointt                                       *)
  wseq,            (* driver: sequence of UpdateSharedTimestamp            *)
  stamp,           (* driver: stamp of the newest cloud                    *)
  crashes,
  rpc,             (* camera: next step                                    *)
  rmap,            (* camera: pointt                                       *)
  attempt, sequence_before, value,
  last_shared_sequence,
  timeouts,        (* camera: consecutive_timestamp_timeouts               *)
  snapshot,        (* history: both words when sequence_before was read    *)
  undisturbed,     (* history: no driver start has cleared the file since  *)
  accepted         (* history: the last pair WaitForNext... returned       *)

fileVars == <<high, low, sized, path, created>>
driverVars == <<wpc, wmap, wseq, stamp, crashes>>
readVars == <<attempt, sequence_before, value, snapshot>>
cameraVars == <<rpc, rmap, last_shared_sequence, timeouts, accepted>>
vars == <<fileVars, driverVars, readVars, cameraVars, undisturbed>>

NoPair == [sequence |-> 0, stamp |-> 0]

Init ==
  /\ high = [f \in Inodes |-> 0] /\ low = [f \in Inodes |-> 0]
  /\ sized = [f \in Inodes |-> FALSE]
  /\ path = None /\ created = 0
  /\ wpc = "down" /\ wmap = None /\ wseq = 0 /\ stamp = 0 /\ crashes = 0
  /\ rpc = "frame" /\ rmap = None
  /\ attempt = 0 /\ sequence_before = 0 /\ value = 0
  /\ last_shared_sequence = 0 /\ timeouts = 0
  /\ snapshot = NoPair /\ undisturbed = FALSE
  /\ accepted = [pair |-> NoPair, was |-> NoPair, undisturbed |-> TRUE]

IsOdd(n) == n % 2 = 1

-----------------------------------------------------------------------------
(* The driver.                                                             *)

StartDriver ==
  /\ wpc = "down" /\ wpc' = "unmapped"
  /\ UNCHANGED <<fileVars, wmap, wseq, stamp, crashes, readVars, cameraVars, undisturbed>>

(* InitializeTimestampShare: open creates the file when the name is free.  *)
(* A call fails, or the 5 s retry limit holds it off, by not being taken.  *)
OpenShare ==
  /\ wpc = "unmapped"
  /\ IF path # None
       THEN UNCHANGED <<path, created>>
       ELSE /\ created < MaxInodes
            /\ created' = created + 1 /\ path' = created + 1
  /\ wmap' = path' /\ wpc' = "opened"
  /\ UNCHANGED <<high, low, sized, wseq, stamp, crashes, readVars, cameraVars, undisturbed>>

(* ftruncate or mmap fails: the descriptor is closed, the next cloud tries *)
(* again.                                                                  *)
ShareFails ==
  /\ wpc \in {"opened", "sized"} /\ wpc' = "unmapped" /\ wmap' = None
  /\ UNCHANGED <<fileVars, wseq, stamp, crashes, readVars, cameraVars, undisturbed>>

SizeShare ==
  /\ wpc = "opened" /\ wpc' = "sized"
  /\ sized' = [sized EXCEPT ![wmap] = TRUE]
  /\ UNCHANGED <<high, low, path, created, wmap, wseq, stamp, crashes, readVars, cameraVars,
                 undisturbed>>

(* Clear what a previous driver left: the version first, then the stamp.   *)
ClearHigh ==
  /\ wpc = "sized" /\ wpc' = "cleared"
  /\ high' = [high EXCEPT ![wmap] = 0]
  /\ undisturbed' = (undisturbed /\ rmap # wmap)
  /\ UNCHANGED <<low, sized, path, created, wmap, wseq, stamp, crashes, readVars, cameraVars>>

ClearLow ==
  /\ wpc = "cleared" /\ wpc' = "idle"
  /\ low' = [low EXCEPT ![wmap] = 0]
  /\ UNCHANGED <<high, sized, path, created, wmap, wseq, stamp, crashes, readVars, cameraVars,
                 undisturbed>>

(* A cloud is published while the share is not mapped: nothing is stored.  *)
PublishUnshared ==
  /\ wpc = "unmapped" /\ stamp < MaxStamp /\ stamp' = stamp + 1
  /\ UNCHANGED <<fileVars, wpc, wmap, wseq, crashes, readVars, cameraVars, undisturbed>>

(* UpdateSharedTimestamp: the version becomes odd, the stamp is stored, the *)
(* version becomes the next even one.                                      *)
StoreOdd ==
  /\ wpc = "idle" /\ stamp < MaxStamp
  /\ stamp' = stamp + 1
  /\ wseq' = IF IsOdd(high[wmap]) THEN high[wmap] + 1 ELSE high[wmap]
  /\ high' = [high EXCEPT ![wmap] = wseq' + 1]
  /\ wpc' = "store_low"
  /\ UNCHANGED <<low, sized, path, created, wmap, crashes, readVars, cameraVars, undisturbed>>

StoreLow ==
  /\ wpc = "store_low" /\ wpc' = "store_even"
  /\ low' = [low EXCEPT ![wmap] = stamp]
  /\ UNCHANGED <<high, sized, path, created, wmap, wseq, stamp, crashes, readVars, cameraVars,
                 undisturbed>>

StoreEven ==
  /\ wpc = "store_even" /\ wpc' = "idle"
  /\ high' = [high EXCEPT ![wmap] = wseq + 2]
  /\ UNCHANGED <<low, sized, path, created, wmap, wseq, stamp, crashes, readVars, cameraVars,
                 undisturbed>>

(* The driver ends at any point: ~Lddc unmaps the file, a kill leaves the  *)
(* words as they are.                                                      *)
StopDriver ==
  /\ wpc # "down" /\ crashes < MaxCrashes
  /\ wpc' = "down" /\ wmap' = None /\ crashes' = crashes + 1
  /\ UNCHANGED <<fileVars, wseq, stamp, readVars, cameraVars, undisturbed>>

(* Somebody removes the file.                                              *)
DeleteFile ==
  /\ path # None /\ created < MaxInodes
  /\ DeleteWhileUp \/ wpc = "down"
  /\ path' = None
  /\ UNCHANGED <<high, low, sized, created, driverVars, readVars, cameraVars, undisturbed>>

-----------------------------------------------------------------------------
(* The camera, WorkThread.  A frame has come; without a mapping the share  *)
(* is opened first (TryInitializeTimestampShare), unless the last try was  *)
(* less than 5 s ago or fails.                                             *)

FrameUnshared ==
  /\ rpc = "frame" /\ rmap = None /\ rpc' = "wait"
  /\ UNCHANGED <<fileVars, driverVars, readVars, rmap, last_shared_sequence, timeouts, accepted,
                 undisturbed>>

FrameMaps ==
  /\ rpc = "frame" /\ rmap = None
  /\ path # None /\ sized[path]
  /\ rmap' = path
  /\ last_shared_sequence' = IF IsOdd(high[path]) THEN high[path] - 1 ELSE high[path]
  /\ rpc' = "wait"
  /\ UNCHANGED <<fileVars, driverVars, readVars, timeouts, accepted, undisturbed>>

FrameMapped ==
  /\ rpc = "frame" /\ rmap # None /\ rpc' = "wait"
  /\ UNCHANGED <<fileVars, driverVars, readVars, rmap, last_shared_sequence, timeouts, accepted,
                 undisturbed>>

(* WaitForNextSharedTimestamp polls with ReadSharedTimestamp.              *)
Poll ==
  /\ rpc = "wait" /\ rmap # None
  /\ rpc' = "before" /\ attempt' = 1
  /\ UNCHANGED <<fileVars, driverVars, rmap, sequence_before, value, snapshot,
                 last_shared_sequence, timeouts, accepted, undisturbed>>

(* The attempt failed: another one, or the poll returns false.             *)
NextAttempt ==
  IF attempt < ReadAttempts
    THEN rpc' = "before" /\ attempt' = attempt + 1
    ELSE rpc' = "wait" /\ attempt' = attempt

ReadBefore ==
  /\ rpc = "before"
  /\ sequence_before' = high[rmap]
  /\ snapshot' = [sequence |-> high[rmap], stamp |-> low[rmap]]
  /\ undisturbed' = TRUE
  /\ IF high[rmap] = 0 \/ IsOdd(high[rmap])
       THEN NextAttempt
       ELSE rpc' = "low" /\ attempt' = attempt
  /\ UNCHANGED <<fileVars, driverVars, value, rmap, last_shared_sequence, timeouts, accepted>>

ReadLow ==
  /\ rpc = "low" /\ rpc' = "after"
  /\ value' = low[rmap]
  /\ UNCHANGED <<fileVars, driverVars, attempt, sequence_before, snapshot, rmap,
                 last_shared_sequence, timeouts, accepted, undisturbed>>

(* Mutant: the version is not read again.                                  *)
ReadOnce == value > 0

ReadOk == high[rmap] = sequence_before /\ ~IsOdd(high[rmap]) /\ value > 0

(* A whole read of a version not seen before stamps the frame; one of the  *)
(* version already used polls on; a read disturbed by the driver is tried  *)
(* again.                                                                  *)
ReadAfter ==
  /\ rpc = "after"
  /\ \/ /\ ReadOk /\ sequence_before # last_shared_sequence
        /\ last_shared_sequence' = sequence_before
        /\ accepted' = [pair |-> [sequence |-> sequence_before, stamp |-> value],
                        was |-> snapshot, undisturbed |-> undisturbed]
        /\ timeouts' = 0 /\ rpc' = "frame" /\ attempt' = attempt
     \/ /\ ReadOk /\ sequence_before = last_shared_sequence
        /\ rpc' = "wait" /\ attempt' = attempt
        /\ UNCHANGED <<last_shared_sequence, accepted, timeouts>>
     \/ /\ ~ReadOk
        /\ NextAttempt
        /\ UNCHANGED <<last_shared_sequence, accepted, timeouts>>
  /\ UNCHANGED <<fileVars, driverVars, sequence_before, value, snapshot, rmap, undisturbed>>

(* Mutant: the old mapping is kept after any number of timeouts.           *)
WaitTimesOutOnly ==
  /\ rpc = "wait" /\ rpc' = "frame"
  /\ timeouts' = IF timeouts + 1 >= RemapAfter THEN 0 ELSE timeouts + 1
  /\ UNCHANGED <<rmap, last_shared_sequence>>
  /\ UNCHANGED <<fileVars, driverVars, readVars, accepted, undisturbed>>

(* The deadline passes: the frame is dropped; after RemapAfter timeouts in *)
(* a row CleanupTimestampShare unmaps the file.                            *)
WaitTimesOut ==
  /\ rpc = "wait" /\ rpc' = "frame"
  /\ IF timeouts + 1 >= RemapAfter
       THEN timeouts' = 0 /\ rmap' = None /\ last_shared_sequence' = 0
       ELSE timeouts' = timeouts + 1 /\ UNCHANGED <<rmap, last_shared_sequence>>
  /\ UNCHANGED <<fileVars, driverVars, readVars, accepted, undisturbed>>

-----------------------------------------------------------------------------
Driver ==
  \/ StartDriver \/ OpenShare \/ ShareFails \/ SizeShare \/ ClearHigh \/ ClearLow
  \/ PublishUnshared \/ StoreOdd \/ StoreLow \/ StoreEven \/ StopDriver

Camera ==
  \/ FrameUnshared \/ FrameMaps \/ FrameMapped \/ Poll \/ ReadBefore \/ ReadLow
  \/ ReadAfter \/ WaitTimesOut

Next == Driver \/ Camera \/ DeleteFile

(* Fairness.  A launch file keeps both processes running, so each takes    *)
(* its next step; a retried call (open, ftruncate, mmap on either side)    *)
(* does not fail for ever, and the deadline of a wait passes.              *)
Fairness ==
  /\ WF_vars(StartDriver) /\ SF_vars(OpenShare) /\ SF_vars(SizeShare)
  /\ SF_vars(ClearHigh) /\ WF_vars(ClearLow) /\ WF_vars(StoreLow) /\ WF_vars(StoreEven)
  /\ WF_vars(FrameUnshared) /\ SF_vars(FrameMaps) /\ WF_vars(FrameMapped) /\ WF_vars(Poll)
  /\ WF_vars(ReadBefore) /\ WF_vars(ReadLow) /\ WF_vars(ReadAfter) /\ SF_vars(WaitTimesOut)

Spec == Init /\ [][Next]_vars
FairSpec == Spec /\ Fairness

-----------------------------------------------------------------------------
TypeOK ==
  /\ high \in [Inodes -> Nat] /\ low \in [Inodes -> Nat]
  /\ sized \in [Inodes -> BOOLEAN]
  /\ created \in 0 .. MaxInodes /\ path \in 0 .. MaxInodes
  /\ wpc \in {"down", "unmapped", "opened", "sized", "cleared", "idle", "store_low", "store_even"}
  /\ wmap \in 0 .. MaxInodes
  /\ (wmap = None) <=> (wpc \in {"down", "unmapped"})
  /\ wseq \in Nat /\ stamp \in Nat /\ crashes \in Nat
  /\ rpc \in {"frame", "wait", "before", "low", "after"}
  /\ rmap \in 0 .. MaxInodes
  /\ rpc \in {"before", "low", "after"} => rmap # None
  /\ attempt \in 0 .. ReadAttempts
  /\ sequence_before \in Nat /\ value \in Nat
  /\ last_shared_sequence \in Nat
  /\ timeouts \in 0 .. RemapAfter - 1
  /\ snapshot \in [sequence : Nat, stamp : Nat]
  /\ undisturbed \in BOOLEAN
  /\ accepted \in [pair : [sequence : Nat, stamp : Nat],
                   was : [sequence : Nat, stamp : Nat], undisturbed : BOOLEAN]

(* What ReadSharedTimestamp returns while the driver stores stamps is the  *)
(* pair of words that stood in the file at one moment, the load of         *)
(* sequence_before, unless a driver start cleared the file in between.     *)
ReadIsSnapshot == accepted.undisturbed => accepted.pair = accepted.was

(* Every frame gets a newer stamp than the frame before: no stamp is used  *)
(* twice and none goes back, across restarts of the driver, files left     *)
(* half written or deleted, and new mappings by the camera.                *)
StampsIncrease ==
  [][accepted' # accepted => accepted'.pair.stamp > accepted.pair.stamp]_vars

(* The camera always finds its way back to the file the driver writes to:  *)
(* after a restart of the driver and after the file was deleted.           *)
Reattaches == []<>(rmap # None /\ rmap = wmap)
=============================================================================
