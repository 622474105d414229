------------------------------ MODULE NtripClient -----------------------------
(***************************************************************************)
(* The NTRIP client node (NtripServerLaunchNode.cpp, swas_server): it logs *)
(* in to a correction service through the SWAS SDK, uploads the receiver's *)
(* GGA sentences and publishes the corrections that come back, for the     *)
(* parser node to write to the receiver.                                   *)
(*                                                                         *)
(* Two threads share four flags without a lock: the executor, which runs   *)
(* connect() inside main and inside client_gpgga_callback and polls the    *)
(* flags once a second, and a thread of the SDK, which calls back.  The    *)
(* SDK and the service are external and modelled by what the node sees.    *)
(***************************************************************************)
EXTENDS Integers, Sequences

CONSTANTS
    Logins,        \* values of login_type to run with
    Coordinates,   \* values of str_coordinate to run with
    Receiver,      \* the parameter frame_id: the parser node to listen to, whose
                   \* name is in header.frame_id of its sentences
    QueueDepth,    \* depth of the parser node's subscription to "write"
    MaxTimeouts,   \* bound: waits that run out, calls of the SDK that fail
    MaxFailures,   \* bound: failures the service reports while logging in
    MaxKicks,      \* bound: failures it reports once logged in
    MaxData        \* bound: corrections from the service

(* What an instance of this module gives its constants.                    *)
NtripAssumption ==
    /\ QueueDepth \in Nat \ {0}
    /\ {MaxTimeouts, MaxFailures, MaxKicks, MaxData} \subseteq Nat

Direct == {"user_password", "sn_device"}

VARIABLES
    login, str_coordinate,
    coordinate,    \* sdk_config.coordinate_type
    frame_id,      \* the global compared with every sentence's frame
    swas_status, auth_flag, calib_flag, socket_flag,
    pc,            \* where the executor's thread is
    caller,        \* who called connect(): "main" or "gga"
    sdk,           \* the session in the SDK: "off", "opening", "open",
                   \* "calibrating", "calibrated", "ready", "logging", "in", "out"
    session,       \* how often the SDK was started
    authOf,        \* the session whose success set auth_flag (0: none)
    uploads,       \* sentences handed to swas_sdk_upload_gga
    write,         \* the parser node's queue of corrections to write
    data,          \* corrections published
    timeouts, failures, kicks

flags   == <<swas_status, auth_flag, calib_flag, socket_flag, authOf>>
config  == <<login, str_coordinate, coordinate, frame_id>>
counts  == <<timeouts, failures, kicks>>
traffic == <<uploads, write, data>>
vars    == <<config, flags, pc, caller, sdk, session, traffic, counts>>

Init ==
    /\ login \in Logins /\ str_coordinate \in Coordinates
    /\ coordinate = "none" /\ frame_id = ""
    /\ swas_status = FALSE /\ auth_flag = FALSE /\ calib_flag = FALSE
    /\ socket_flag = FALSE /\ authOf = 0
    /\ pc = "main" /\ caller = "main"
    /\ sdk = "off" /\ session = 0
    /\ uploads = 0 /\ write = <<>> /\ data = 0
    /\ timeouts = 0 /\ failures = 0 /\ kicks = 0

-------------------------------------------------------------------------------
(***************************************************************************)
(* main.  Every declare_parameter is followed by the assignment of a       *)
(* default, and all of them assign to frame_id: the value the parameter    *)
(* frame_id had is lost with the second one.                               *)
(***************************************************************************)
Coordinate(s) ==
    CASE s = "ITRF14" -> "WGS84" [] s = "WGS84" -> "ITRF14" [] OTHER -> "CGCS2000"

FrameIdAfterParameters ==
    IF login \in Direct \cup {"third_cors"} THEN "" ELSE "user_password"

Main ==
    /\ pc = "main"
    /\ frame_id' = FrameIdAfterParameters
    /\ coordinate' = IF login \in Direct THEN Coordinate(str_coordinate) ELSE coordinate
    /\ pc' = IF login \in Direct \cup {"third_cors"} THEN "connect" ELSE "exited"
    /\ UNCHANGED <<login, str_coordinate, flags, caller, sdk, session, traffic, counts>>

(***************************************************************************)
(* swas_server::connect, on the executor's thread.                         *)
(***************************************************************************)
(* A connect() that fails: main goes on to spin, the callback returns. *)
GiveUp == pc' = "spin" /\ UNCHANGED <<config, flags, caller, sdk, session, traffic>>

Timeout == timeouts < MaxTimeouts /\ timeouts' = timeouts + 1 /\ UNCHANGED <<failures, kicks>>

(* Mutant: the flags of an earlier session are kept. *)
ConnectStartKeep ==
    /\ pc = "connect"
    /\ sdk' = "opening" /\ session' = session + 1
    /\ pc' = "waitSocket"
    /\ UNCHANGED <<config, flags, caller, traffic, counts>>

ConnectStart ==
    /\ pc = "connect"
    /\ auth_flag' = FALSE /\ calib_flag' = FALSE /\ socket_flag' = FALSE
    /\ authOf' = 0
    /\ sdk' = "opening" /\ session' = session + 1
    /\ pc' = "waitSocket"
    /\ UNCHANGED <<config, swas_status, caller, traffic, counts>>

StartFails == pc = "connect" /\ Timeout /\ GiveUp

WaitSocket ==
    /\ pc = "waitSocket" /\ socket_flag
    /\ socket_flag' = FALSE
    /\ pc' = IF login = "third_cors" THEN "auth" ELSE "calib"
    /\ UNCHANGED <<config, swas_status, auth_flag, calib_flag, authOf, caller, sdk,
                   session, traffic, counts>>

Calib ==
    /\ pc = "calib"
    /\ sdk' = IF sdk = "open" THEN "calibrating" ELSE sdk
    /\ pc' = "waitCalib"
    /\ UNCHANGED <<config, flags, caller, session, traffic, counts>>

WaitCalib ==
    /\ pc = "waitCalib" /\ calib_flag /\ socket_flag
    /\ calib_flag' = FALSE /\ socket_flag' = FALSE
    /\ pc' = "auth"
    /\ UNCHANGED <<config, swas_status, auth_flag, authOf, caller, sdk, session,
                   traffic, counts>>

Auth ==
    /\ pc = "auth"
    /\ sdk' = IF sdk \in {"open", "ready"} THEN "logging" ELSE sdk
    /\ pc' = "waitAuth"
    /\ UNCHANGED <<config, flags, caller, session, traffic, counts>>

AuthCallFails == pc = "auth" /\ Timeout /\ GiveUp

WaitAuth ==
    /\ pc = "waitAuth" /\ auth_flag
    /\ auth_flag' = FALSE
    /\ pc' = "success"
    /\ UNCHANGED <<config, swas_status, calib_flag, socket_flag, authOf, caller, sdk,
                   session, traffic, counts>>

(* SWAS_TRY_TIME polls without the flag: the answer is late, or none will  *)
(* come because the service has reported a failure.                        *)
WaitRunsOut ==
    /\ \/ pc = "waitSocket" /\ ~ socket_flag
       \/ pc = "waitCalib" /\ ~ (calib_flag /\ socket_flag)
       \/ pc = "waitAuth" /\ ~ auth_flag
    /\ Timeout \/ (sdk = "out" /\ UNCHANGED counts)
    /\ GiveUp

(* The last step sets swas_status, whatever happened since the poll. *)
ConnectSuccess ==
    /\ pc = "success"
    /\ swas_status' = TRUE
    /\ pc' = IF caller = "main" THEN "spin" ELSE "upload"
    /\ UNCHANGED <<config, auth_flag, calib_flag, socket_flag, authOf, caller, sdk,
                   session, traffic, counts>>

(***************************************************************************)
(* client_gpgga_callback: without a session it disconnects and connects.   *)
(* disconnect() clears the flags first and stops the SDK then.             *)
(***************************************************************************)

Gga ==
    /\ pc = "spin"
    /\ caller' = "gga"
    /\ IF swas_status
       THEN pc' = "upload" /\ UNCHANGED flags
       ELSE /\ pc' = "cleanup"
            /\ swas_status' = FALSE /\ auth_flag' = FALSE /\ calib_flag' = FALSE
            /\ socket_flag' = FALSE /\ authOf' = 0
    /\ UNCHANGED <<config, sdk, session, uploads, write, data, counts>>

Cleanup ==
    /\ pc = "cleanup"
    /\ sdk' = "off" /\ pc' = "connect"
    /\ UNCHANGED <<config, flags, caller, session, traffic, counts>>

Upload ==
    /\ pc = "upload"
    /\ uploads' = IF frame_id = Receiver THEN 1 ELSE uploads
    /\ pc' = "spin"
    /\ UNCHANGED <<config, flags, caller, sdk, session, write, data, counts>>

(***************************************************************************)
(* The SDK's thread and its callbacks.                                     *)
(***************************************************************************)
status_callback ==
    /\ sdk \in {"opening", "calibrated"}
    /\ sdk' = IF sdk = "opening" THEN "open" ELSE "ready"
    /\ socket_flag' = TRUE
    /\ UNCHANGED <<config, swas_status, auth_flag, calib_flag, authOf, pc, caller,
                   session, traffic, counts>>

calib_callback ==
    /\ sdk = "calibrating"
    /\ \/ calib_flag' = TRUE /\ sdk' = "calibrated" /\ UNCHANGED <<swas_status, failures>>
       \/ /\ failures < MaxFailures /\ failures' = failures + 1
          /\ calib_flag' = FALSE /\ swas_status' = FALSE /\ sdk' = "out"
    /\ UNCHANGED <<config, auth_flag, socket_flag, authOf, pc, caller, session, traffic,
                   timeouts, kicks>>

AuthSucceeds ==
    /\ sdk = "logging"
    /\ auth_flag' = TRUE /\ authOf' = session /\ sdk' = "in"
    /\ UNCHANGED <<config, swas_status, calib_flag, socket_flag, pc, caller, session,
                   traffic, counts>>

AuthFails ==
    /\ \/ sdk = "logging" /\ failures < MaxFailures /\ failures' = failures + 1 /\ UNCHANGED kicks
       \/ sdk = "in" /\ kicks < MaxKicks /\ kicks' = kicks + 1 /\ UNCHANGED failures
    /\ auth_flag' = FALSE /\ authOf' = 0 /\ swas_status' = FALSE
    /\ sdk' = "out"
    /\ UNCHANGED <<config, calib_flag, socket_flag, pc, caller, session, traffic, timeouts>>

(* data_callback publishes; the parser node subscribes with a queue of     *)
(* QueueDepth messages and adds its node to an executor that never spins,  *)
(* so node_write is never called and the oldest message is dropped.        *)

data_callback ==
    /\ sdk = "in" /\ data < MaxData
    /\ data' = data + 1
    /\ write' = IF Len(write) < QueueDepth THEN Append(write, data + 1)
                ELSE Append(Tail(write), data + 1)
    /\ UNCHANGED <<config, flags, pc, caller, sdk, session, uploads, counts>>

Exited == pc = "exited" /\ UNCHANGED vars

Executor ==
    \/ Main \/ ConnectStart \/ StartFails \/ WaitSocket \/ Calib \/ WaitCalib
    \/ Auth \/ AuthCallFails \/ WaitAuth \/ WaitRunsOut \/ ConnectSuccess
    \/ Gga \/ Cleanup \/ Upload

Callbacks ==
    status_callback \/ calib_callback \/ AuthSucceeds \/ AuthFails \/ data_callback

Next == Executor \/ Callbacks \/ Exited

(* The executor's thread is never blocked for good: it polls, and the      *)
(* receiver sends a sentence every second.  The SDK answers in the end.    *)
Fairness ==
    /\ WF_vars(Main) /\ WF_vars(ConnectStart) /\ WF_vars(WaitSocket) /\ WF_vars(Calib)
    /\ WF_vars(WaitCalib) /\ WF_vars(Auth) /\ WF_vars(WaitAuth) /\ WF_vars(WaitRunsOut)
    /\ WF_vars(ConnectSuccess) /\ WF_vars(Gga) /\ WF_vars(Cleanup) /\ WF_vars(Upload)
    /\ WF_vars(status_callback) /\ WF_vars(calib_callback) /\ WF_vars(AuthSucceeds)

Spec == Init /\ [][Next]_vars /\ Fairness

-------------------------------------------------------------------------------
(* connect() reports success only for a login of the session it started,   *)
(* not for one a callback of an earlier session reported while the SDK was *)
(* being stopped.                                                          *)
SuccessIsCurrent == pc = "success" => authOf \in {0, session}

TypeOK ==
    /\ {swas_status, auth_flag, calib_flag, socket_flag} \subseteq BOOLEAN
    /\ authOf \in 0..session
    /\ Len(write) <= QueueDepth
    /\ pc \in {"main", "exited", "connect", "waitSocket", "calib", "waitCalib", "auth",
               "waitAuth", "success", "spin", "cleanup", "upload"}

(* After finitely many timeouts and failures the client is logged in for   *)
(* good, also after sessions lost, with one condition: no session is lost  *)
(* after connect() has seen its success and before it sets swas_status,    *)
(* which then says TRUE of a lost session and is never looked behind.      *)
LostUnnoticed == pc = "success" /\ sdk # "in"
LogsIn ==
    (login \in Direct \cup {"third_cors"}) /\ []~LostUnnoticed
        => <>[](swas_status /\ sdk = "in")

===============================================================================
