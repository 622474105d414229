--------------------------- MODULE VisualUpdateProofs ---------------------------
(***************************************************************************)
(* Proofs about VisualUpdate: the state and the covariance an image leaves *)
(* belong together, for any number of pyramid levels and of iterations and *)
(* whatever errors the states have.                                        *)
(***************************************************************************)
EXTENDS VisualUpdate, TLAPS

(* The levels are counted down and the iterations up, a level is searched  *)
(* within its bounds, and every state in use has been named.               *)
VisualTypeOK ==
  /\ pc \in {"start", "level", "iterate", "covariance", "done"}
  /\ total_points \in 0..1 /\ inverse \in BOOLEAN
  /\ level \in 0..(Levels - 1) /\ iteration \in 0..MaxIterations /\ EKF_end \in BOOLEAN
  /\ last_error \in Errors \cup {NoError}
  /\ fresh \in Nat /\ state \in 0..fresh /\ old_state \in 0..fresh
  /\ tried \subseteq (0..fresh) \X Errors
  /\ G \subseteq [level : Int, at : 0..fresh, jac : Int]
  /\ has_ref_patch_cache \in BOOLEAN /\ H_sub_inv \in 0..Levels

(* A level begins with no error to compare with and nothing evaluated;     *)
(* after that old_state is the best state of the level, and the gain was   *)
(* computed there.                                                         *)
BeginsAfresh ==
  pc = "iterate" /\ iteration = 0 =>
    last_error = NoError /\ ~EKF_end /\ tried = {} /\ old_state = state
OldIsBest ==
  pc = "iterate" /\ iteration > 0 =>
    <<old_state, last_error>> \in tried /\ \A t \in tried : last_error <= t[2]
GainAtOld ==
  pc = "iterate" /\ iteration > 0 =>
    /\ \E g \in G : g.level = level /\ g.at = old_state
    /\ old_state = state \/ <<old_state, state>> \in from

(* What the finest level leaves for the covariance.                        *)
GainBelongs(gain) ==
  \E g \in gain : g.level = 0 /\ (g.at = state \/ <<g.at, state>> \in from)
CovarianceOnce ==
  /\ pc # "done" => covFrom = <<>>
  /\ pc = "covariance" => GainBelongs(G)
  /\ pc = "done" /\ total_points > 0 => covFrom = <<G>> /\ GainBelongs(G)

(* In the inverse form the cache, once filled, is that of the level.       *)
CacheOfLevel == pc = "iterate" /\ inverse /\ has_ref_patch_cache => H_sub_inv = level

VisualInv ==
  /\ VisualTypeOK /\ BeginsAfresh /\ OldIsBest /\ GainAtOld /\ CovarianceOnce
  /\ CacheOfLevel /\ JacobiansOfLevel

-------------------------------------------------------------------------------
(* Every error of a state is below the one a level begins with.            *)
LEMMA ErrorsBelow ==
  NoError \in Nat /\ \A e \in Errors : e \in Nat /\ e < NoError
<1> DEFINE largest == CHOOSE e \in Errors : \A d \in Errors : d <= e
<1>1. largest \in Errors /\ \A d \in Errors : d <= largest
  BY VisualUpdateAssumption
<1>2. NoError = 1 + largest
  BY DEF NoError
<1> HIDE DEF largest
<1> QED
  BY <1>1, <1>2, VisualUpdateAssumption

LEMMA VisualInitially ==
  ASSUME Init
  PROVE  VisualInv
<1>1. VisualTypeOK
  <2>1. level \in 0..(Levels - 1) /\ iteration \in 0..MaxIterations /\ H_sub_inv \in 0..Levels
    BY VisualUpdateAssumption DEF Init
  <2>2. fresh \in Nat /\ state \in 0..fresh /\ old_state \in 0..fresh
    BY DEF Init
  <2>3. tried \subseteq (0..fresh) \X Errors /\ G \subseteq [level : Int, at : 0..fresh, jac : Int]
    BY DEF Init
  <2> QED
    BY <2>1, <2>2, <2>3 DEF Init, VisualTypeOK
<1> QED
  BY <1>1 DEF Init, VisualInv, BeginsAfresh, OldIsBest, GainAtOld, CovarianceOnce,
              CacheOfLevel, JacobiansOfLevel

(* computeJacobianAndUpdateEKF before the first level, updateState at the  *)
(* entry of a level.                                                       *)
LEMMA VisualStart ==
  ASSUME VisualInv, Start
  PROVE  VisualInv'
  BY VisualUpdateAssumption DEF VisualInv, VisualTypeOK, BeginsAfresh, OldIsBest, GainAtOld,
         CovarianceOnce, CacheOfLevel, JacobiansOfLevel, Start, ekf

LEMMA VisualStartLevel ==
  ASSUME VisualInv, StartLevel
  PROVE  VisualInv'
<1>1. /\ pc' = "iterate" /\ iteration' = 0 /\ last_error' = NoError /\ EKF_end' = FALSE
      /\ tried' = {} /\ old_state' = state
      /\ has_ref_patch_cache' = IF inverse THEN FALSE ELSE has_ref_patch_cache
      /\ UNCHANGED <<total_points, inverse, level, state, fresh, from, G, H_sub_inv, covFrom>>
  BY DEF StartLevel, CacheAtLevel
<1>2. VisualTypeOK'
  <2>1. iteration' \in 0..MaxIterations
    BY <1>1, VisualUpdateAssumption
  <2>2. tried' \subseteq (0..fresh') \X Errors
    BY <1>1
  <2> QED
    BY <1>1, <2>1, <2>2 DEF VisualInv, VisualTypeOK
<1>3. BeginsAfresh' /\ OldIsBest' /\ GainAtOld' /\ CovarianceOnce'
  BY <1>1 DEF StartLevel, VisualInv, VisualTypeOK, BeginsAfresh, OldIsBest, GainAtOld,
              CovarianceOnce
<1>4. CacheOfLevel' /\ JacobiansOfLevel'
  BY <1>1 DEF VisualInv, VisualTypeOK, CacheOfLevel, JacobiansOfLevel
<1> QED
  BY <1>2, <1>3, <1>4 DEF VisualInv

(* One iteration, whichever form it has.                                   *)
LEMMA VisualDescend ==
  ASSUME VisualInv, pc = "iterate", iteration < MaxIterations,
         ~EKF_end, NEW error \in Errors, NEW jacobians \in Int, jacobians = level,
         Descend(error, jacobians), has_ref_patch_cache' \in BOOLEAN, H_sub_inv' \in 0..Levels,
         inverse /\ has_ref_patch_cache' => H_sub_inv' = level
  PROVE  VisualInv'
<1> USE ErrorsBelow, VisualUpdateAssumption
<1>1. CASE error <= last_error
  <2>1. /\ old_state' = state /\ last_error' = error /\ fresh' = fresh + 1
        /\ state' = fresh + 1 /\ from' = from \cup {<<state, fresh + 1>>}
        /\ EKF_end' \in BOOLEAN /\ tried' = tried \cup {<<state, error>>}
        /\ G' = {[level |-> level, at |-> state, jac |-> jacobians]}
        /\ iteration' = iteration + 1
        /\ UNCHANGED <<pc, total_points, inverse, level, covFrom>>
    <3>1. last_error \in Nat /\ error \in Nat /\ ~(error > last_error)
      BY <1>1 DEF VisualInv, VisualTypeOK
    <3> QED
      BY <1>1, <3>1 DEF Descend, Saved, Gain
  <2>2. VisualTypeOK'
    BY <2>1 DEF VisualInv, VisualTypeOK
  <2>3. OldIsBest'
    <3>1. \A t \in tried : error <= t[2]
      <4>1. CASE iteration = 0
        BY <4>1 DEF VisualInv, BeginsAfresh
      <4>2. CASE iteration > 0
        <5>1. \A t \in tried : last_error <= t[2]
          BY <4>2 DEF VisualInv, OldIsBest
        <5>2. \A t \in tried : t[2] \in Errors
          BY DEF VisualInv, VisualTypeOK
        <5>3. last_error \in Nat
          BY DEF VisualInv, VisualTypeOK
        <5> SUFFICES ASSUME NEW t \in tried PROVE error <= t[2]
          OBVIOUS
        <5>4. last_error <= t[2] /\ t[2] \in Nat /\ error \in Nat
          BY <5>1, <5>2
        <5> QED
          BY <1>1, <5>3, <5>4
      <4> QED
        BY <4>1, <4>2 DEF VisualInv, VisualTypeOK
    <3>2. \A t \in tried' : error <= t[2]
      BY <2>1, <3>1
    <3> QED
      BY <2>1, <3>2 DEF OldIsBest
  <2>4. BeginsAfresh' /\ GainAtOld' /\ CovarianceOnce' /\ CacheOfLevel' /\ JacobiansOfLevel'
    BY <2>1 DEF VisualInv, VisualTypeOK, BeginsAfresh, GainAtOld, CovarianceOnce,
                CacheOfLevel, JacobiansOfLevel
  <2> QED
    BY <2>2, <2>3, <2>4 DEF VisualInv
<1>2. CASE error > last_error
  <2>1. /\ state' = old_state /\ EKF_end' = TRUE /\ tried' = tried \cup {<<state, error>>}
        /\ G' = G /\ iteration' = iteration + 1
        /\ UNCHANGED <<pc, total_points, inverse, level, covFrom>>
        /\ UNCHANGED <<old_state, last_error, fresh, from>>
    <3>1. last_error \in Nat /\ error \in Nat /\ ~(error <= last_error)
      BY <1>2 DEF VisualInv, VisualTypeOK
    <3> QED
      BY <1>2, <3>1 DEF Descend, Saved, Gain
  <2>2. iteration > 0
    BY <1>2 DEF VisualInv, VisualTypeOK, BeginsAfresh
  <2>3. VisualTypeOK'
    BY <2>1 DEF VisualInv, VisualTypeOK
  <2>4. OldIsBest'
    BY <1>2, <2>1, <2>2 DEF VisualInv, VisualTypeOK, OldIsBest
  <2>5. BeginsAfresh' /\ GainAtOld' /\ CovarianceOnce' /\ CacheOfLevel' /\ JacobiansOfLevel'
    BY <2>1, <2>2 DEF VisualInv, VisualTypeOK, BeginsAfresh, GainAtOld, CovarianceOnce,
                      CacheOfLevel, JacobiansOfLevel
  <2> QED
    BY <2>3, <2>4, <2>5 DEF VisualInv
<1> QED
  BY <1>1, <1>2 DEF VisualInv, VisualTypeOK

LEMMA VisualUpdateState ==
  ASSUME VisualInv, updateState
  PROVE  VisualInv'
<1>1. PICK error \in Errors : Descend(error, level)
  BY DEF updateState
<1>2. inverse = FALSE /\ level \in Int
  BY DEF updateState, VisualInv, VisualTypeOK
<1> QED
  BY <1>1, <1>2, VisualDescend DEF updateState, VisualInv, VisualTypeOK

LEMMA VisualUpdateStateInverse ==
  ASSUME VisualInv, updateStateInverse
  PROVE  VisualInv'
<1>1. PICK error \in Errors : Descend(error, H_sub_inv')
  BY DEF updateStateInverse
<1>2. H_sub_inv' = level /\ level \in 0..Levels /\ level \in Int /\ has_ref_patch_cache' = TRUE
  BY VisualUpdateAssumption
  DEF updateStateInverse, precomputeReferencePatches, VisualInv, VisualTypeOK, CacheOfLevel
<1> QED
  BY <1>1, <1>2, VisualDescend DEF updateStateInverse

(* A level that is over has computed a gain: it takes an iteration to end. *)
LEMMA VisualEndLevel ==
  ASSUME VisualInv, EndLevel
  PROVE  VisualInv'
<1>1. iteration > 0
  BY VisualUpdateAssumption DEF EndLevel, LevelOver, VisualInv, VisualTypeOK, BeginsAfresh
<1>2. level' \in 0..(Levels - 1) /\ pc' # "iterate" /\ pc' # "done" /\ pc # "done"
  BY VisualUpdateAssumption DEF EndLevel, VisualInv, VisualTypeOK
<1>3. /\ UNCHANGED <<total_points, inverse, iteration, EKF_end, last_error, state, old_state,
                    fresh, from, tried, G, has_ref_patch_cache, H_sub_inv, covFrom>>
      /\ pc' \in {"covariance", "level"} /\ (pc' = "covariance" => level = 0)
      /\ pc = "iterate"
  BY DEF EndLevel, ekf
<1>4. VisualTypeOK'
  BY <1>2, <1>3 DEF VisualInv, VisualTypeOK
<1>5. CovarianceOnce'
  <2>1. pc' = "covariance" => GainBelongs(G)
    BY <1>1, <1>3 DEF VisualInv, GainAtOld, GainBelongs
  <2> QED
    BY <1>2, <1>3, <2>1 DEF VisualInv, CovarianceOnce, GainBelongs
<1> QED
  BY <1>2, <1>3, <1>4, <1>5 DEF VisualInv, BeginsAfresh, OldIsBest, GainAtOld, CacheOfLevel,
                                JacobiansOfLevel

LEMMA VisualCovariance ==
  ASSUME VisualInv, Covariance
  PROVE  VisualInv'
<1>1. covFrom' = <<G>>
  BY DEF Covariance, VisualInv, CovarianceOnce
<1> QED
  BY <1>1 DEF VisualInv, VisualTypeOK, BeginsAfresh, OldIsBest, GainAtOld, CovarianceOnce,
              GainBelongs, CacheOfLevel, JacobiansOfLevel, Covariance, ekf

LEMMA VisualStep ==
  ASSUME VisualInv, [Next]_vars
  PROVE  VisualInv'
<1>1. CASE UNCHANGED vars
  BY <1>1 DEF vars, ekf, VisualInv, VisualTypeOK, BeginsAfresh, OldIsBest, GainAtOld,
              CovarianceOnce, GainBelongs, CacheOfLevel, JacobiansOfLevel
<1> QED
  BY <1>1, VisualStart, VisualStartLevel, VisualUpdateState, VisualUpdateStateInverse,
     VisualEndLevel, VisualCovariance DEF Next

LEMMA VisualMeaning ==
  ASSUME VisualInv
  PROVE  VisualStateKept
<1>1. CovarianceMatches
  <2> SUFFICES ASSUME pc = "done", total_points > 0
               PROVE  /\ Len(covFrom) = 1
                      /\ \E g \in covFrom[1] :
                           g.level = 0 /\ (g.at = state \/ <<g.at, state>> \in from)
    BY DEF CovarianceMatches
  <2>1. covFrom = <<G>> /\ GainBelongs(G)
    BY DEF VisualInv, CovarianceOnce
  <2>2. Len(covFrom) = 1 /\ covFrom[1] = G
    BY <2>1
  <2> QED
    BY <2>1, <2>2 DEF GainBelongs
<1>2. BackToBest
  <2> SUFFICES ASSUME pc = "iterate", EKF_end, state = old_state
               PROVE  <<state, last_error>> \in tried /\ \A t \in tried : last_error <= t[2]
    BY DEF BackToBest
  <2>1. iteration > 0
    BY DEF VisualInv, VisualTypeOK, BeginsAfresh
  <2> QED
    BY <2>1 DEF VisualInv, OldIsBest
<1> QED
  BY <1>1, <1>2 DEF VisualStateKept, VisualInv

-------------------------------------------------------------------------------
(* computeJacobianAndUpdateEKF updates the covariance once, with a gain of *)
(* the finest level taken at the state that is kept or at the one the last *)
(* step left, a level that takes a step back leaves the best state it      *)
(* evaluated, and no gain mixes the Jacobians of two levels.               *)
THEOREM VisualStateIsKept == Spec => []VisualStateKept
<1>1. Init => VisualInv
  BY VisualInitially
<1>2. VisualInv /\ [Next]_vars => VisualInv'
  BY VisualStep
<1>3. VisualInv => VisualStateKept
  BY VisualMeaning
<1> QED
  BY <1>1, <1>2, <1>3, PTL DEF Spec

===============================================================================
