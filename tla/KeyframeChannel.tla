-------------------------- MODULE KeyframeChannel ---------------------------
(***************************************************************************)
(* What the hand-off of keyframes from the ROS callbacks to the back-end   *)
(* thread promises: a bounded first-in first-out channel that evicts its   *)
(* oldest item rather than block the sender, that accepts nothing once it  *)
(* is closed, and whose remaining items are all received.                  *)
(***************************************************************************)
EXTENDS Naturals, Sequences

CONSTANTS Item,      (* what may be sent                 *)
          Capacity   (* the most items that may wait     *)

VARIABLES chan,      (* items waiting, oldest first      *)
          received,  (* items received, in order         *)
          evicted,   (* items given up to make room      *)
          open       (* FALSE once the channel is closed *)

chanVars == <<chan, received, evicted, open>>

ChanInit ==
  /\ chan = <<>>
  /\ received = <<>>
  /\ evicted = {}
  /\ open = TRUE

Send(item) ==
  /\ open
  /\ IF Len(chan) < Capacity
       THEN /\ chan' = Append(chan, item)
            /\ UNCHANGED evicted
       ELSE /\ chan' = Append(Tail(chan), item)
            /\ evicted' = evicted \cup {Head(chan)}
  /\ UNCHANGED <<received, open>>

Receive ==
  /\ chan # <<>>
  /\ received' = Append(received, Head(chan))
  /\ chan' = Tail(chan)
  /\ UNCHANGED <<evicted, open>>

Close ==
  /\ open
  /\ open' = FALSE
  /\ UNCHANGED <<chan, received, evicted>>

ChanNext == (\E item \in Item : Send(item)) \/ Receive \/ Close

ChanSafeSpec == ChanInit /\ [][ChanNext]_chanVars

(* A waiting item does not wait for ever.                                  *)
ChanSpec == ChanSafeSpec /\ WF_chanVars(Receive)
=============================================================================
