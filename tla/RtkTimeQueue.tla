---------------------------- MODULE RtkTimeQueue ----------------------------
(***************************************************************************)
(* The time-ordered queues of cleaned RTK observations kept by the graph   *)
(* back end (optimization::rtk_queue_) and by the real-time filter         *)
(* (RealtimeGlobalEsikf::rtk_queue_): ordered insertion with a bound,      *)
(* expiry, and the two searches for the observation nearest to a given     *)
(* time.  An observation is represented by its time stamp; whatever else   *)
(* it carries is looked up by that stamp.                                  *)
(***************************************************************************)
EXTENDS Integers, Sequences, FiniteSets

Distance(a, b) == IF a >= b THEN a - b ELSE b - a

Sorted(q) == \A i, j \in DOMAIN q : i < j => q[i] <= q[j]

(***************************************************************************)
(* std::upper_bound on a sorted queue: the index of the first observation  *)
(* later than stamp, one past the end if there is none.                    *)
(***************************************************************************)
UpperBound(q, stamp) == 1 + Cardinality({i \in DOMAIN q : q[i] <= stamp})

InsertBefore(q, pos, stamp) ==
  [i \in 1 .. Len(q) + 1 |->
     IF i < pos THEN q[i] ELSE IF i = pos THEN stamp ELSE q[i - 1]]

DropFront(q, k) == SubSeq(q, k + 1, Len(q))

(* Mutant: appends instead of inserting at the upper bound.                *)
AppendRtk(q, stamp, bound) ==
  LET grown == Append(q, stamp)
  IN  IF Len(grown) > bound THEN DropFront(grown, Len(grown) - bound) ELSE grown

(* Insertion keeps the queue in time order even when receipt is out of     *)
(* order; beyond the bound the oldest observation is discarded.            *)
PushRtk(q, stamp, bound) ==
  LET grown == InsertBefore(q, UpperBound(q, stamp), stamp)
  IN  IF Len(grown) > bound THEN DropFront(grown, Len(grown) - bound) ELSE grown

(* Pop from the front every observation earlier than limit.                *)
Expire(q, limit) ==
  LET kept == {i \in DOMAIN q : \A j \in 1 .. i : q[j] < limit}
  IN  DropFront(q, Cardinality(kept))

(* Mutant: the search is left out and the oldest observation taken.        *)
FrontIndex(q, stamp) == 1

(***************************************************************************)
(* The loop of optimization::findNearestRtk: a running best that only a    *)
(* strictly smaller difference replaces, left early at the first later     *)
(* observation that is no better.  The result is an index of q (q is not   *)
(* empty).                                                                 *)
(***************************************************************************)
NearestIndex(q, stamp) ==
  LET scan[i \in DOMAIN q] ==
        IF i = 1 THEN [best |-> 1, left |-> FALSE]
        ELSE LET prev == scan[i - 1]
                 diff == Distance(q[i], stamp)
                 least == Distance(q[prev.best], stamp)
             IN  IF prev.left \/ (diff >= least /\ q[i] > stamp)
                   THEN [prev EXCEPT !.left = TRUE]
                 ELSE IF diff < least THEN [best |-> i, left |-> FALSE]
                 ELSE prev
  IN  scan[Len(q)].best

(* Mutant: the first observation within the tolerance is taken.            *)
FirstWithin(q, stamp, tol) ==
  LET within == {i \in DOMAIN q : Distance(q[i], stamp) <= tol}
  IN  IF within = {} THEN 0
      ELSE CHOOSE i \in within : \A j \in within : i <= j

(***************************************************************************)
(* The loop of RealtimeGlobalEsikf::processLivo: the running best starts   *)
(* at the tolerance, an equal difference replaces it, and the loop ends    *)
(* after the first observation beyond the tolerance.  0 is rtk_queue_.end. *)
(***************************************************************************)
NearestWithin(q, stamp, tol) ==
  LET scan[i \in 0 .. Len(q)] ==
        IF i = 0 THEN [best |-> 0, least |-> tol, left |-> FALSE]
        ELSE LET prev == scan[i - 1]
                 diff == Distance(q[i], stamp)
                 next == IF diff <= prev.least
                           THEN [prev EXCEPT !.best = i, !.least = diff]
                           ELSE prev
             IN  IF prev.left THEN prev
                 ELSE [next EXCEPT !.left = q[i] > stamp + tol]
  IN  scan[Len(q)].best
=============================================================================
