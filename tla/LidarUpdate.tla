----------------------------- MODULE LidarUpdate -----------------------------
(***************************************************************************)
(* The iterated update of the state with a scan (VoxelMapManager::         *)
(* StateEstimation).  Each iteration searches a plane for every point, in  *)
(* parallel, stacks the residuals found and the RTK position into one      *)
(* measurement, solves, and decides whether to go on.                      *)
(*                                                                         *)
(* Which points find a plane, whether the fix passes the gate and whether  *)
(* the step is small is left open in every iteration.  useful_ptpl is a    *)
(* vector<bool>: its bits share a word, which a thread reads and writes    *)
(* back whole.                                                             *)
(***************************************************************************)
EXTENDS Integers, Sequences, FiniteSets, Functions

CONSTANTS
    Threads,           \* threads of the parallel loop
    Work,              \* Work[t]: the points a thread searches, in order
    MaxIterations,     \* max_iterations_
    RtkGood            \* rtk_good /\ rtk_measurement.valid

(* What an instance of this module gives its constants.                    *)
LidarUpdateAssumption ==
    /\ MaxIterations \in Nat \ {0} /\ RtkGood \in BOOLEAN
    /\ Work \in [Threads -> Seq(Nat)]
    /\ \A t, u \in Threads : \A i \in DOMAIN Work[t], j \in DOMAIN Work[u] :
          Work[t][i] = Work[u][j] => t = u /\ i = j

VARIABLES
    pc,                \* where StateEstimation is
    iterCount, rematch_num,
    at,                \* at[t]: how many of its points a thread has searched
    step,              \* step[t]: "search", "lock", "read" or "write"
    word,              \* word[t]: the word a thread has read
    mylock,            \* the thread that holds the mutex, as a set
    useful_ptpl,       \* points whose bit is set
    matched,           \* points that found a plane in this iteration
    ptpl_list,         \* their residuals
    use_rtk, effct_feat_num,
    rows,              \* what was written to each row of the measurement
    inState, inCov,    \* what state_ and state_.cov were computed from
    covUpdates
loop == <<at, step, word, mylock, useful_ptpl, matched>>
ekf  == <<use_rtk, effct_feat_num, rows, inState, inCov, covUpdates>>
vars == <<pc, iterCount, rematch_num, loop, ptpl_list, ekf>>

Init ==
    /\ pc = "iterate" /\ iterCount = 0 /\ rematch_num = 0
    /\ at = [t \in Threads |-> 0] /\ step = [t \in Threads |-> "search"]
    /\ word = [t \in Threads |-> {}] /\ mylock = {}
    /\ useful_ptpl = {} /\ matched = {} /\ ptpl_list = <<>>
    /\ use_rtk = FALSE /\ effct_feat_num = 0 /\ rows = <<>>
    /\ inState = {} /\ inCov = {} /\ covUpdates = 0

(* An iteration transforms the points and clears the flags of the search. *)
Iterate ==
    /\ pc = "iterate"
    /\ pc' = "search"
    /\ at' = [t \in Threads |-> 0] /\ step' = [t \in Threads |-> "search"]
    /\ useful_ptpl' = {} /\ matched' = {} /\ ptpl_list' = <<>>
    /\ UNCHANGED <<iterCount, rematch_num, word, mylock, ekf>>

-------------------------------------------------------------------------------
(* BuildResidualListOMP. *)
Point(t) == Work[t][at[t] + 1]
Busy(t)  == pc = "search" /\ at[t] < Len(Work[t])

(* A plane of the voxel, or of the leaves below it, is near enough or not. *)
build_single_residual(t) == {matched, matched \cup {Point(t)}}

(* build_single_residual in the point's voxel, then in the neighbour it is *)
(* nearest to.  Without a voxel of its own a point is not looked at again. *)
Search(t) ==
    /\ Busy(t) /\ step[t] = "search"
    /\ \/ /\ at' = [at EXCEPT ![t] = @ + 1]
          /\ UNCHANGED <<step, matched>>
       \/ /\ step' = [step EXCEPT ![t] = "lock"]
          /\ matched' \in build_single_residual(t)
          /\ UNCHANGED at
    /\ UNCHANGED <<pc, iterCount, rematch_num, word, mylock, useful_ptpl, ptpl_list, ekf>>

(* Mutant: the mutex is not taken. *)
LockNot(t) ==
    /\ Busy(t) /\ step[t] = "lock"
    /\ step' = [step EXCEPT ![t] = "read"]
    /\ UNCHANGED <<pc, iterCount, rematch_num, at, word, mylock, useful_ptpl, matched,
                   ptpl_list, ekf>>

Lock(t) ==
    /\ Busy(t) /\ step[t] = "lock" /\ mylock = {}
    /\ mylock' = {t}
    /\ step' = [step EXCEPT ![t] = "read"]
    /\ UNCHANGED <<pc, iterCount, rematch_num, at, word, useful_ptpl, matched, ptpl_list, ekf>>

Read(t) ==
    /\ Busy(t) /\ step[t] = "read"
    /\ word' = [word EXCEPT ![t] = useful_ptpl]
    /\ step' = [step EXCEPT ![t] = "write"]
    /\ UNCHANGED <<pc, iterCount, rematch_num, at, mylock, useful_ptpl, matched, ptpl_list, ekf>>

Write(t) ==
    /\ Busy(t) /\ step[t] = "write"
    /\ useful_ptpl' = IF Point(t) \in matched THEN word[t] \cup {Point(t)}
                      ELSE word[t] \ {Point(t)}
    /\ mylock' = mylock \ {t}
    /\ step' = [step EXCEPT ![t] = "search"] /\ at' = [at EXCEPT ![t] = @ + 1]
    /\ word' = [word EXCEPT ![t] = {}]
    /\ UNCHANGED <<pc, iterCount, rematch_num, matched, ptpl_list, ekf>>

(* The numbers of a set in order (one sequence). *)
InOrder(S) == {s \in [1..Cardinality(S) -> S] : \A i, j \in DOMAIN s : i < j => s[i] < s[j]}

(* The end of the parallel loop, and the list in the order of the points. *)
Collect ==
    /\ pc = "search" /\ \A t \in Threads : at[t] = Len(Work[t])
    /\ ptpl_list' \in InOrder(useful_ptpl)
    /\ pc' = "gate"
    /\ UNCHANGED <<iterCount, rematch_num, loop, ekf>>

-------------------------------------------------------------------------------
(* The gate on the innovation of the fix, before the matrices are sized. *)
Gate ==
    /\ pc = "gate"
    /\ use_rtk' \in (IF RtkGood THEN BOOLEAN ELSE {FALSE})
    /\ effct_feat_num' = Len(ptpl_list) + (IF use_rtk' THEN 3 ELSE 0)
    /\ pc' = "rows"
    /\ UNCHANGED <<iterCount, rematch_num, loop, ptpl_list, rows, inState, inCov, covUpdates>>

LidarRows == Len(ptpl_list)

(* A row holds the point of a residual, "rtk", or "unset". *)
Rows ==
    /\ pc = "rows"
    /\ rows' = [i \in 1..effct_feat_num |->
                   IF i <= LidarRows
                   THEN IF i \in DOMAIN ptpl_list THEN <<"lidar", ptpl_list[i]>>
                        ELSE <<"outside", i>>
                   ELSE IF use_rtk /\ i - Len(ptpl_list) \in 1..3
                        THEN <<"rtk", i - Len(ptpl_list)>> ELSE <<"unset", i>>]
    /\ pc' = "solve"
    /\ UNCHANGED <<iterCount, rematch_num, loop, ptpl_list, use_rtk, effct_feat_num, inState,
                   inCov, covUpdates>>

LastOne == iterCount = MaxIterations - 1

Stops(rematch) == rematch >= 2 \/ LastOne

(* The state is the propagated one corrected by this iteration's rows; the *)
(* covariance is updated by the iteration that ends the loop.              *)
Solve ==
    /\ pc = "solve"
    /\ inState' = Range(rows)
    /\ \E flg_EKF_converged \in BOOLEAN :
          rematch_num' = IF \/ flg_EKF_converged
                            \/ rematch_num = 0 /\ iterCount = MaxIterations - 2
                         THEN rematch_num + 1 ELSE rematch_num
    /\ IF Stops(rematch_num')
       THEN inCov' = Range(rows) /\ covUpdates' = covUpdates + 1 /\ pc' = "done"
       ELSE /\ pc' = IF LastOne THEN "done" ELSE "iterate"
            /\ UNCHANGED <<inCov, covUpdates>>
    /\ iterCount' = iterCount + 1
    /\ UNCHANGED <<loop, ptpl_list, use_rtk, effct_feat_num, rows>>

Thread(t) == Search(t) \/ Lock(t) \/ Read(t) \/ Write(t)
Main == Iterate \/ Collect \/ Gate \/ Rows \/ Solve

Next == (\E t \in Threads : Thread(t)) \/ Main

Spec == Init /\ [][Next]_vars /\ WF_vars(Main) /\ \A t \in Threads : WF_vars(Thread(t))

-------------------------------------------------------------------------------
(* No match is lost or invented by threads that write bits of one word.    *)
MatchesKept == pc = "gate" => Range(ptpl_list) = matched

(* Every row of the measurement is written, from a residual that exists or *)
(* from the fix, and none twice.                                           *)
RowsFilled ==
    pc = "solve" =>
        /\ \A i \in DOMAIN rows : rows[i][1] \in {"lidar", "rtk"}
        /\ Cardinality(Range(rows)) = effct_feat_num

(* Whichever way the iteration ends, the covariance is updated once, with  *)
(* the measurement the final state comes from.                             *)
CovarianceOnce == pc = "done" => covUpdates = 1 /\ inCov = inState

===============================================================================
