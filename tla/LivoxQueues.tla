------------------------------ MODULE LivoxQueues -----------------------------
(***************************************************************************)
(* The queues between the Livox driver's processing thread and one of its  *)
(* poll threads.  For point clouds each lidar has a ring (ldq.cpp) whose   *)
(* indices are plain volatile words: one thread writes, one reads, and no  *)
(* lock orders them, so the writer's last store may still be in its store  *)
(* buffer when it reads the count of the semaphore (x86).  For IMU data    *)
(* each lidar has an unbounded list under a mutex (lidar_imu_data_queue).  *)
(* The consumer sleeps on a semaphore that the producer signals only when  *)
(* it reads a count that is not positive.  The destructor of the node asks *)
(* the thread to exit and joins it.                                        *)
(***************************************************************************)
EXTENDS Integers, Sequences, FiniteSets, FiniteSetsExt

CONSTANTS
  Lidars,           (* indices 1 .. n of the lidars, in scan order         *)
  Ring,             (* rings of point clouds, or lists of IMU data         *)
  MinQueueSize,     (* ten in the code                                     *)
  PublishFreq,      (* publish_freq, in frames per second                  *)
  MaxFrame,         (* packets in a frame: one, but without time           *)
                    (* synchronisation one for each lidar                  *)
  IndexMod,         (* 2^32, the width of rd_idx and wr_idx                *)
  Format,           (* transfer_format_                                    *)
  MultiTopic,       (* use_multi_topic_                                    *)
  Ids,              (* identities of packets, used in turn: 0 .. k         *)
  Paced,            (* publishing what waits takes less than a period: no  *)
                    (* frame is cut meanwhile (the loop inside Publish...  *)
                    (* does not look at the exit flag and could go on for  *)
                    (* ever otherwise)                                     *)
  EmptyIds,         (* packets without points                              *)
  MaxList           (* IMU data waiting in a list (bound)                  *)

(* CalculatePacketQueueSize and RoundupPowerOf2.                           *)
CalculatePacketQueueSize == IF PublishFreq > MinQueueSize THEN PublishFreq + 1 ELSE MinQueueSize
RoundupPowerOf2(n) == Min({p \in {2 ^ i : i \in 0 .. 30} : n <= p})
Size == RoundupPowerOf2(CalculatePacketQueueSize)

(* What an instance of this module gives its constants.                    *)
QueuesAssumption ==
  /\ IsFiniteSet(Lidars) /\ Lidars = 1 .. Cardinality(Lidars) /\ Lidars # {}
  /\ Ring \in BOOLEAN /\ Paced \in BOOLEAN /\ MultiTopic \in BOOLEAN
  /\ Size \in Nat \ {0} /\ IndexMod \in Nat /\ IndexMod % Size = 0 /\ IndexMod > Size
  /\ IsFiniteSet(Ids) /\ Ids = 0 .. Cardinality(Ids) - 1 /\ Cardinality(Ids) > Size + 1
  /\ EmptyIds \subseteq Ids
  /\ MaxList \in Nat

VARIABLES
  wr, rd,           (* wr_idx and rd_idx of each ring, as memory has them  *)
  stored,           (* wr_idx as the producer knows it                     *)
  slot,             (* storage_packet of each ring; none before InitQueue *)
  list,             (* imu_data_queue_ of each lidar                       *)
  count,            (* count_ of the semaphore                             *)
  sampling,         (* lidars with connect_state kConnectStateSampling     *)
  producer,         (* step of the processing thread, its lidar, and the   *)
                    (* lidars of the frame that are still to be stored     *)
  consumer,         (* step of the poll thread, its lidar and its packet   *)
  publishers,       (* publishers created, by topic                        *)
  exit,             (* destructor: "no", "requested", "signalled", "joined" *)
  fifo,             (* history: packets accepted and not yet taken         *)
  nextId,           (* history: identity of the next packet of each lidar  *)
  scanned           (* history: lidars that the last scan found sampling   *)

queues == <<wr, rd, stored, slot, list>>
history == <<fifo, nextId, scanned>>
vars == <<queues, count, sampling, producer, consumer, publishers, exit, history>>

Torn == -1          (* a slot in the middle of QueuePushAny                *)
Blank == -2         (* a slot that was never written                       *)

Init ==
  /\ wr = [l \in Lidars |-> 0] /\ rd = [l \in Lidars |-> 0] /\ stored = [l \in Lidars |-> 0]
  /\ slot = [l \in Lidars |-> <<>>]
  /\ list = [l \in Lidars |-> <<>>]
  /\ count = 0 /\ sampling = {}
  /\ producer = [pc |-> "idle", lidar |-> 1, frame |-> {}]
  /\ consumer = [pc |-> "enter", lidar |-> 1, pkg |-> 0]
  /\ publishers = {}
  /\ exit = "no"
  /\ fifo = [l \in Lidars |-> <<>>] /\ nextId = [l \in Lidars |-> 0] /\ scanned = {}

-----------------------------------------------------------------------------
(* The ring: QueueUsedSize, QueueIsFull and QueueIsEmpty, with wr_idx as   *)
(* the thread that asks sees it.                                           *)

UsedSize(w, l) == (w[l] - rd[l]) % IndexMod

QueueIsFull(l) == UsedSize(stored, l) > Size - 1
QueueIsEmpty(w, l) == IF Ring THEN w[l] = rd[l] ELSE list[l] = <<>>

Bump(n) == (n + 1) % IndexMod
SlotOf(l, n) == n % Size
Fresh(id) == (id + 1) % Cardinality(Ids)

-----------------------------------------------------------------------------
(* The producer: PushLidarData and StorageImuData.                         *)

ProducerGoes(p) == producer' = [producer EXCEPT !.pc = p]
ProducerElse == UNCHANGED <<sampling, consumer, publishers, exit, scanned>>

(* The thread has cut a frame with packets of these lidars.  It took the   *)
(* mutex of the raw packets since the last one: earlier stores are visible. *)
NewFrame(ls) ==
  /\ producer.pc = "idle"
  /\ Paced => consumer.pc \notin {"pop", "update", "publish"}
  /\ producer' = [producer EXCEPT !.pc = "store", !.frame = ls]
  /\ wr' = stored
  /\ UNCHANGED <<rd, stored, slot, list, count, fifo, nextId>> /\ ProducerElse

(* StoragePointData, the loop over the packets of the frame.  A ring is    *)
(* created by its first packet; a full ring drops the packet.              *)
BeginPush ==
  LET l == Min(producer.frame)
  IN /\ Ring /\ producer.pc = "store" /\ producer.frame # {}
     /\ slot' = [slot EXCEPT ![l] =
                   IF QueueIsFull(l) THEN @
                   ELSE [k \in 0 .. Size - 1 |->
                           IF k = SlotOf(l, stored[l]) THEN Torn
                           ELSE IF @ = <<>> THEN Blank ELSE @[k]]]
     /\ producer' = [pc |-> IF QueueIsFull(l) THEN "full" ELSE "write", lidar |-> l,
                     frame |-> producer.frame \ {l}]
     /\ UNCHANGED <<wr, rd, stored, list, count, fifo, nextId>> /\ ProducerElse

(* The frame is stored.                                                    *)
EndFrame ==
  /\ producer.pc = "store" /\ producer.frame = {}
  /\ ProducerGoes("idle")
  /\ UNCHANGED <<queues, count, fifo, nextId>> /\ ProducerElse

(* QueuePushAny ends; wr_idx goes to the store buffer.                     *)
EndPush ==
  LET l == producer.lidar
  IN /\ producer.pc = "write"
     /\ slot' = [slot EXCEPT ![l][SlotOf(l, stored[l])] = nextId[l]]
     /\ stored' = [stored EXCEPT ![l] = Bump(@)]
     /\ fifo' = [fifo EXCEPT ![l] = Append(@, nextId[l])]
     /\ nextId' = [nextId EXCEPT ![l] = Fresh(@)]
     /\ ProducerGoes("check")
     /\ UNCHANGED <<wr, rd, list, count>> /\ ProducerElse

(* LidarImuDataQueue::Push, under its mutex.                               *)
PushImu ==
  LET l == Min(producer.frame)
  IN /\ ~Ring /\ producer.pc = "store" /\ producer.frame # {} /\ Len(list[l]) < MaxList
     /\ list' = [list EXCEPT ![l] = Append(@, nextId[l])]
     /\ fifo' = [fifo EXCEPT ![l] = Append(@, nextId[l])]
     /\ nextId' = [nextId EXCEPT ![l] = Fresh(@)]
     /\ producer' = [pc |-> "check", lidar |-> l, frame |-> producer.frame \ {l}]
     /\ UNCHANGED <<wr, rd, stored, slot, count>> /\ ProducerElse

(* The store buffer drains.                                                *)
Drain(l) ==
  /\ wr[l] # stored[l]
  /\ wr' = [wr EXCEPT ![l] = stored[l]]
  /\ UNCHANGED <<rd, stored, slot, list, count, producer, fifo, nextId>> /\ ProducerElse

(* Mutant: only the packet that ends an empty queue is announced.          *)
CheckIfWasEmpty ==
  /\ producer.pc \in {"check", "full"}
  /\ producer' = [producer EXCEPT !.pc =
       IF Len(fifo[producer.lidar]) = 1 /\ count <= 0 THEN "signal" ELSE "store"]
  /\ UNCHANGED <<queues, count, fifo, nextId>> /\ ProducerElse

(* QueueIsEmpty and GetCount, without a lock; a packet that was dropped is *)
(* announced without a look at the queue.                                  *)
CheckCount ==
  /\ producer.pc \in {"check", "full"}
  /\ LET due == producer.pc = "full" \/ ~QueueIsEmpty(stored, producer.lidar)
     IN  producer' = [producer EXCEPT !.pc = IF due /\ count <= 0 THEN "signal" ELSE "store"]
  /\ UNCHANGED <<queues, count, fifo, nextId>> /\ ProducerElse

(* Semaphore::Signal: the lock makes earlier stores visible.               *)
Signal ==
  /\ producer.pc = "signal"
  /\ count' = count + 1
  /\ wr' = stored
  /\ ProducerGoes("store")
  /\ UNCHANGED <<rd, stored, slot, list, fifo, nextId>> /\ ProducerElse

Producer ==
  \/ \E ls \in SUBSET Lidars : Cardinality(ls) \in 1 .. MaxFrame /\ NewFrame(ls)
  \/ BeginPush \/ EndPush \/ PushImu \/ CheckCount \/ Signal \/ EndFrame

-----------------------------------------------------------------------------
(* The consumer: PointCloudDataPollThread or ImuDataPollThread.            *)

ConsumerElse == UNCHANGED <<sampling, producer, exit, nextId>>
Goes(p) == consumer' = [consumer EXCEPT !.pc = p]
GoesTo(p, l) == consumer' = [consumer EXCEPT !.pc = p, !.lidar = l]

(* Distribute...: nothing is waited for once the exit is requested.        *)
Enter ==
  /\ consumer.pc = "enter"
  /\ Goes(IF exit # "no" THEN "loop" ELSE "wait")
  /\ UNCHANGED <<queues, count, publishers, fifo, scanned>> /\ ConsumerElse

(* Semaphore::Wait.                                                        *)
Wait ==
  /\ consumer.pc = "wait" /\ count > 0
  /\ count' = count - 1
  /\ GoesTo("scan", 1)
  /\ UNCHANGED <<queues, publishers, fifo, scanned>> /\ ConsumerElse

(* The loop over lidars passes over those that are not sampling or have no *)
(* ring.                                                                   *)
Scan ==
  LET l == consumer.lidar
  IN /\ consumer.pc = "scan"
     /\ IF l \notin Lidars THEN Goes("loop") /\ UNCHANGED scanned
        ELSE /\ scanned' = IF l \in sampling THEN scanned \union {l} ELSE scanned \ {l}
             /\ IF l \in sampling /\ (Ring => slot[l] # <<>>) THEN Goes("poll")
                ELSE GoesTo("scan", l + 1)
     /\ UNCHANGED <<queues, count, publishers, fifo>> /\ ConsumerElse

(* Message types of point clouds that can be published.                    *)
Supported == {"PointCloud2", "Custom"}

(* PollingLidar...Data: until the queue is empty or the exit is requested. *)
(* A format without a message type takes nothing out of the queue.         *)
Poll ==
  LET l == consumer.lidar
  IN /\ consumer.pc = "poll"
     /\ IF exit # "no" \/ QueueIsEmpty(wr, l) THEN GoesTo("scan", l + 1)
        ELSE IF Ring /\ Format \notin Supported THEN Goes("poll")
        ELSE Goes("pop")
     /\ UNCHANGED <<queues, count, publishers, fifo, scanned>> /\ ConsumerElse

(* The loop inside Publish...: while the ring is not empty, QueuePrePop    *)
(* copies the slot.                                                        *)
PrePop ==
  LET l == consumer.lidar
  IN /\ Ring /\ consumer.pc = "pop"
     /\ IF QueueIsEmpty(wr, l) THEN Goes("poll")
        ELSE consumer' = [consumer EXCEPT !.pc = "update", !.pkg = slot[l][SlotOf(l, rd[l])]]
     /\ UNCHANGED <<queues, count, publishers, fifo, scanned>> /\ ConsumerElse

(* QueuePopUpdate.                                                         *)
PopUpdate ==
  LET l == consumer.lidar
  IN /\ consumer.pc = "update"
     /\ rd' = [rd EXCEPT ![l] = Bump(@)]
     /\ fifo' = [fifo EXCEPT ![l] = Tail(@)]
     /\ Goes("publish")
     /\ UNCHANGED <<wr, stored, slot, list, count, publishers, scanned>> /\ ConsumerElse

(* LidarImuDataQueue::Pop, under its mutex; one element per round of the   *)
(* polling loop.                                                           *)
PopImu ==
  LET l == consumer.lidar
  IN /\ ~Ring /\ consumer.pc = "pop" /\ list[l] # <<>>
     /\ list' = [list EXCEPT ![l] = Tail(@)]
     /\ fifo' = [fifo EXCEPT ![l] = Tail(@)]
     /\ consumer' = [consumer EXCEPT !.pc = "publish", !.pkg = Head(list[l])]
     /\ UNCHANGED <<wr, rd, stored, slot, count, publishers, scanned>> /\ ConsumerElse

(* What a message is made of: its layout is left out, its type kept.       *)
MessageType == IF Ring THEN Format ELSE "Imu"

(* GetCurrentPublisher, GetCurrentImuPublisher: one for all lidars or one  *)
(* for each, created when first needed.                                    *)
Publisher(l) == [topic |-> IF MultiTopic THEN l ELSE 0, type |-> MessageType]

(* A message is filled in and published, unless it has no points.          *)
PublishPoints ==
  /\ Ring /\ consumer.pc = "publish"
  /\ publishers' = IF consumer.pkg \in EmptyIds THEN publishers
                   ELSE publishers \union {Publisher(consumer.lidar)}
  /\ Goes("pop")
  /\ UNCHANGED <<queues, count, fifo, scanned>> /\ ConsumerElse

PublishImu ==
  /\ ~Ring /\ consumer.pc = "publish"
  /\ publishers' = publishers \union {Publisher(consumer.lidar)}
  /\ Goes("poll")
  /\ UNCHANGED <<queues, count, fifo, scanned>> /\ ConsumerElse

(* The condition of the poll thread's loop.                                *)
Loop ==
  /\ consumer.pc = "loop"
  /\ Goes(IF exit = "no" \/ exit = "requested" THEN "enter" ELSE "done")
  /\ UNCHANGED <<queues, count, publishers, fifo, scanned>> /\ ConsumerElse

Consumer ==
  Enter \/ Wait \/ Scan \/ Poll \/ PrePop \/ PopUpdate \/ PopImu
  \/ PublishPoints \/ PublishImu \/ Loop

-----------------------------------------------------------------------------
(* A callback of LidarSession makes a lidar sampling; nothing is signalled. *)
StartSampling(l) ==
  /\ l \notin sampling
  /\ sampling' = sampling \union {l}
  /\ UNCHANGED <<queues, count, producer, consumer, publishers, exit, history>>

(* ~DriverNode: RequestExit, set_value, join.                              *)
Destructor ==
  /\ \/ exit = "no" /\ exit' = "requested"
     \/ exit = "requested" /\ exit' = "signalled"
     \/ exit = "signalled" /\ consumer.pc = "done" /\ exit' = "joined"
  /\ UNCHANGED <<queues, count, sampling, producer, consumer, publishers, history>>

Next ==
  \/ Producer \/ Consumer \/ Destructor
  \/ \E l \in Lidars : Drain(l) \/ StartSampling(l)

Spec == Init /\ [][Next]_vars

(* Threads run, buffers drain, the lidars go on sending while the node     *)
(* exists, and a destructor that was called goes on.                       *)
FairSpec ==
  /\ Spec
  /\ WF_vars(Consumer) /\ WF_vars(Producer)
  /\ \A l \in Lidars : WF_vars(Drain(l)) /\ SF_vars(\E ls \in SUBSET Lidars : l \in ls /\ NewFrame(ls))
  /\ WF_vars(exit # "no" /\ Destructor)

-----------------------------------------------------------------------------
(* Types; the semaphore never counts more than one.                        *)
TypeOK ==
  /\ \A l \in Lidars : {wr[l], rd[l], stored[l]} \subseteq 0 .. IndexMod - 1
  /\ count \in 0 .. 1
  /\ sampling \subseteq Lidars
  /\ Cardinality(publishers) <= IF MultiTopic THEN Cardinality(Lidars) ELSE 1

(* The packet copied out of a ring is the oldest one accepted, whole: the  *)
(* producer never writes a slot that is being read, through the turn of    *)
(* the indices.  For lists, what is left is what was accepted.             *)
PoppedIntact ==
  \A l \in Lidars :
    /\ Ring => UsedSize(stored, l) = Len(fifo[l]) /\ Len(fifo[l]) <= Size
    /\ Ring /\ consumer.pc = "update" /\ consumer.lidar = l => consumer.pkg = Head(fifo[l])
    /\ ~Ring => list[l] = fifo[l]

(* When the consumer sleeps, no signal is on its way and the producer is   *)
(* between frames, at most the newest packet of each lidar it looked at    *)
(* waits unseen (it was still in the store buffer); of IMU data, none.     *)
NothingForgotten ==
  consumer.pc = "wait" /\ count = 0 /\ producer.pc = "idle" =>
    \A l \in scanned : Len(fifo[l]) <= IF Ring THEN 1 ELSE 0

(* While data comes, a packet of a sampling lidar is taken sooner or later *)
(* or the node is being destroyed.                                         *)
Delivered ==
  \A l \in Lidars : \A id \in Ids :
    (l \in sampling /\ fifo[l] # <<>> /\ Head(fifo[l]) = id) ~>
      (fifo[l] = <<>> \/ Head(fifo[l]) # id \/ exit # "no")

(* While data comes, the destructor returns, in every format.              *)
DestructorReturns == exit = "requested" ~> exit = "joined"
=============================================================================
