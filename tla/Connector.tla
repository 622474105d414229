------------------------------ MODULE Connector -------------------------------
(***************************************************************************)
(* The device connectors of the CHCNAV parser node (tcp_common,            *)
(* udp_common, can_common, file_common, serial_common) and the choice      *)
(* among them in HcMsgParserLaunchNode.cpp.                                *)
(*                                                                         *)
(* The parser calls read(); while the connector is not connected, read()   *)
(* calls connect() and sleeps a second.  The device appears, disappears    *)
(* and sends; the process has a limited number of descriptors.             *)
(***************************************************************************)
EXTENDS Integers, Sequences

CONSTANTS
    Types,      \* values of the parameter "type" to launch with
    Parities,   \* values of the parameter "parity"
    Formats,    \* values of the parameter "data_format"
    MaxFds,     \* descriptors the process may still open
    MaxSent,    \* bound: messages the device sends
    MaxDowns    \* bound: times the device goes away

(* What an instance of this module gives its constants.                    *)
ConnectorAssumption ==
    /\ Types # {} /\ Parities # {} /\ Formats # {}
    /\ MaxFds \in Nat \ {0} /\ MaxSent \in Nat /\ MaxDowns \in Nat

Kinds == {"serial", "tcp", "file", "udp", "can"}

VARIABLES
    run,        \* "launch", "running", "exited" (main returned -1),
                \* "terminated" (an exception nobody catches) or "undefined"
    kind,       \* which connector was created
    config,     \* the parameters: parity and data_format
    parity,     \* serial_common::parity
    port,       \* serial_common::port is the one asked for, and not "NULL"
    status,     \* -1 not connected, 1 connected
    fds,        \* descriptors open
    socketfd,   \* socketfd (fp, serial_device) is an open descriptor
    failures,   \* connect() calls that left a descriptor behind
    address,    \* what a socket is bound to: udp_common::sock_addr, "any" or
                \* the sender's after a read; can_common::ifr, "any" (index 0)
                \* or the device's own after it was found
    up,         \* the device is there
    downs,      \* how often it went away
    inbox,      \* what it sent and nobody read: "data" or "empty"
    sent,       \* how much it sent
    received    \* how much of it read() returned

conn == <<status, fds, socketfd, failures, address>>
env  == <<up, downs, inbox, sent>>
vars == <<run, kind, config, parity, port, conn, env, received>>

Init ==
    /\ run = "launch" /\ kind \in Types
    /\ config \in [parity : Parities, format : Formats]
    /\ parity = "none" /\ port = FALSE
    /\ status = -1 /\ fds = 0 /\ socketfd = FALSE /\ failures = 0
    /\ address = "any"
    /\ up \in BOOLEAN /\ downs = 0
    /\ inbox = <<>> /\ sent = 0 /\ received = 0

(***************************************************************************)
(* serial_common::set, from the constructor.  It gives up when the port is *)
(* not there yet, and the connector keeps the port "NULL".  After "None"   *)
(* the names are compared with the sense reversed: the first name that is  *)
(* not the given one decides.                                              *)
(***************************************************************************)
Parity(p) ==
    IF p = "None" THEN "none" ELSE IF p # "Odd" THEN "odd" ELSE "even"

(***************************************************************************)
(* main: one connector is created after the parameter "type"; for "can"    *)
(* the data format must be one of two.  A type that is none of the five    *)
(* leaves the pointer uninitialised.                                       *)
(***************************************************************************)
Launch ==
    /\ run = "launch"
    /\ run' = IF kind \notin Kinds THEN "undefined"
              ELSE IF kind = "can" /\ config.format \notin {"motorola", "intel"}
              THEN "exited" ELSE "running"
    /\ IF kind = "serial" /\ up
       THEN port' = TRUE /\ parity' = Parity(config.parity)
       ELSE UNCHANGED <<port, parity>>
    /\ UNCHANGED <<kind, config, conn, env, received>>

(***************************************************************************)
(* connect(), by main and by every read() while the status is not 1.       *)
(***************************************************************************)
CanOpen == fds < MaxFds

(* tcp_common, can_common, udp_common: a new socket; when connecting or    *)
(* binding it fails it stays open, and the next call forgets it.  A UDP    *)
(* socket is bound to sock_addr, which must be an address of this host.  A *)
(* CAN socket is bound to the index found, and the result of the ioctl     *)
(* that looks for it is not checked: while no device was ever there the    *)
(* socket is bound to all there will be, and later to one that has gone.   *)
Reachable ==
    \/ kind \in {"tcp", "can"} /\ up
    \/ kind \in {"udp", "can"} /\ address = "any"

InterfaceFound == kind = "can" /\ CanOpen /\ up

ConnectSocket ==
    /\ kind \in {"tcp", "udp", "can"}
    /\ fds' = IF CanOpen THEN fds + 1 ELSE fds
    /\ socketfd' = CanOpen
    /\ status' = IF CanOpen /\ Reachable THEN 1 ELSE -1
    /\ failures' = IF CanOpen /\ ~ Reachable THEN failures + 1 ELSE failures
    /\ address' = IF InterfaceFound THEN "peer" ELSE address
    /\ UNCHANGED run

(* file_common: access() and fopen(). *)
ConnectFile ==
    /\ kind = "file"
    /\ IF up /\ CanOpen
       THEN fds' = fds + 1 /\ socketfd' = TRUE /\ status' = 1
       ELSE UNCHANGED <<fds, socketfd, status>>
    /\ UNCHANGED <<run, failures, address>>

(* serial_common: the constructor of serial::Serial opens the port and     *)
(* throws when it cannot; nothing catches that.                            *)
ConnectSerial ==
    /\ kind = "serial"
    /\ IF port /\ up /\ CanOpen
       THEN fds' = fds + 1 /\ socketfd' = TRUE /\ status' = 1 /\ run' = run
       ELSE run' = "terminated" /\ UNCHANGED <<fds, socketfd, status>>
    /\ UNCHANGED <<failures, address>>

(* Mutant: after a failure nobody tries again. *)
ConnectOnce ==
    /\ run = "running" /\ status # 1 /\ failures = 0
    /\ ConnectSocket \/ ConnectFile \/ ConnectSerial
    /\ UNCHANGED <<kind, config, parity, port, env, received>>

Connect ==
    /\ run = "running" /\ status # 1
    /\ ConnectSocket \/ ConnectFile \/ ConnectSerial
    /\ UNCHANGED <<kind, config, parity, port, env, received>>

(***************************************************************************)
(* read() on a connection.                                                 *)
(***************************************************************************)

Disconnect == fds' = fds - 1 /\ socketfd' = FALSE /\ status' = -1

(* recvfrom stores the sender's address in sock_addr, the one connect()    *)
(* binds to.                                                               *)
Sender == IF kind = "udp" THEN "peer" ELSE address

ReadData ==
    /\ run = "running" /\ status = 1 /\ inbox # <<>> /\ Head(inbox) = "data"
    /\ inbox' = Tail(inbox)
    /\ received' = received + 1
    /\ address' = Sender
    /\ UNCHANGED <<run, kind, config, parity, port, status, fds, socketfd, failures,
                   up, downs, sent>>

(* A datagram without bytes is taken for a failure of the socket. *)
ReadEmpty ==
    /\ run = "running" /\ status = 1 /\ inbox # <<>> /\ Head(inbox) = "empty"
    /\ inbox' = Tail(inbox)
    /\ address' = Sender
    /\ Disconnect
    /\ UNCHANGED <<run, kind, config, parity, port, failures, up, downs, sent, received>>

(* A socket that belongs to the device alone. *)
Attached == kind = "tcp" \/ (kind = "can" /\ address = "peer")

(* The device is gone: a socket of its own reports it and is closed, a     *)
(* serial port throws.  Others, and the end of a file, only yield nothing. *)
ReadGone ==
    /\ run = "running" /\ status = 1 /\ inbox = <<>> /\ ~ up
    /\ \/ Attached /\ Disconnect /\ UNCHANGED run
       \/ kind = "serial" /\ run' = "terminated" /\ UNCHANGED <<status, fds, socketfd>>
    /\ UNCHANGED <<kind, config, parity, port, failures, address, env, received>>

ReadNothing ==
    /\ run = "running" /\ status = 1 /\ inbox = <<>>
    /\ up \/ (kind # "serial" /\ ~ Attached)
    /\ UNCHANGED vars

(***************************************************************************)
(* The device.  What is sent while nobody listens is lost.                 *)
(***************************************************************************)
DeviceGoes ==
    /\ up /\ downs < MaxDowns
    /\ up' = FALSE /\ downs' = downs + 1
    /\ inbox' = IF Attached THEN <<>> ELSE inbox
    /\ UNCHANGED <<run, kind, config, parity, port, conn, sent, received>>

DeviceComes ==
    /\ ~ up
    /\ up' = TRUE
    /\ UNCHANGED <<run, kind, config, parity, port, conn, downs, inbox, sent, received>>

DeviceSends ==
    /\ up /\ sent < MaxSent
    /\ \E m \in IF kind = "udp" THEN {"data", "empty"} ELSE {"data"} :
        inbox' = IF status = 1 THEN Append(inbox, m) ELSE inbox
    /\ sent' = sent + 1
    /\ UNCHANGED <<run, kind, config, parity, port, conn, up, downs, received>>

Stopped ==
    /\ run \in {"exited", "terminated", "undefined"}
    /\ UNCHANGED vars

Next ==
    \/ Launch \/ Connect
    \/ ReadData \/ ReadEmpty \/ ReadGone \/ ReadNothing
    \/ DeviceGoes \/ DeviceComes \/ DeviceSends \/ Stopped

(* The parser's loop never rests: it calls read() again and again, and     *)
(* read() calls connect().  Nothing is assumed of the device.              *)
Fairness ==
    /\ WF_vars(Launch) /\ WF_vars(Connect)
    /\ WF_vars(ReadData) /\ WF_vars(ReadEmpty) /\ WF_vars(ReadGone)

Spec == Init /\ [][Next]_vars /\ Fairness

-------------------------------------------------------------------------------
TypeOK ==
    /\ run \in {"launch", "running", "exited", "terminated", "undefined"}
    /\ parity \in {"none", "odd", "even"}
    /\ status \in {-1, 1} /\ socketfd \in BOOLEAN /\ address \in {"any", "peer"}
    /\ fds \in 0..MaxFds /\ failures \in 0..MaxFds
    /\ up \in BOOLEAN /\ downs \in 0..MaxDowns
    /\ sent \in 0..MaxSent /\ received \in 0..MaxSent

(* read() and write() use socketfd only while it is open, and every open   *)
(* descriptor is either that one or was left behind by a connect() that    *)
(* failed: no other path of the connectors leaks or closes twice.          *)
DescriptorsAccounted ==
    /\ status = 1 => socketfd
    /\ fds = failures + (IF status = 1 THEN 1 ELSE 0)

(* As long as descriptors are left, a connector that reconnects is         *)
(* connected again when the device stays, however often it went away.      *)
ReconnectsWhileFds ==
    (<>[](up /\ fds < MaxFds) /\ []<>(run = "running")) => <>[](status = 1)

===============================================================================
