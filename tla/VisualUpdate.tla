----------------------------- MODULE VisualUpdate -----------------------------
(***************************************************************************)
(* The update of the state with an image (computeJacobianAndUpdateEKF):    *)
(* from the coarsest pyramid level to the finest, updateState or           *)
(* updateStateInverse iterates while the photometric error does not grow,  *)
(* goes back one step when it does, and the covariance is updated once     *)
(* after the finest level.                                                 *)
(*                                                                         *)
(* A state is named by a number, a new one for every step; the error of a  *)
(* state on a level and the size of a step are left open.                  *)
(***************************************************************************)
EXTENDS Integers, Sequences, FiniteSets

CONSTANTS
    Levels,            \* patch_pyrimid_level
    MaxIterations,     \* max_iterations
    Errors             \* values of the mean photometric error

(* There are levels and iterations, and an error is a finite float.        *)
ASSUME VisualUpdateAssumption ==
    /\ Levels \in Nat \ {0} /\ MaxIterations \in Nat \ {0}
    /\ Errors \subseteq Nat /\ \E e \in Errors : \A d \in Errors : d <= e

NoError == 1 + CHOOSE e \in Errors : \A d \in Errors : d <= e   \* numeric_limits::max

VARIABLES
    pc, total_points,
    inverse,           \* inverse_composition_en
    level, iteration, EKF_end, last_error,
    state, old_state,
    fresh,             \* states named so far
    from,              \* <<s, t>>: a step led from state s to state t
    tried,             \* <<state, error>> evaluated on this level
    G,                 \* the gain: level, state and level of its Jacobians, as a set
    has_ref_patch_cache, H_sub_inv,   \* and the level the cache was computed for
    covFrom            \* gains the covariance was updated with, in order
ekf  == <<state, old_state, fresh, from, G>>
vars == <<pc, total_points, inverse, level, iteration, EKF_end, last_error, ekf, tried,
          has_ref_patch_cache, H_sub_inv, covFrom>>

Init ==
    /\ pc = "start" /\ total_points \in 0..1 /\ inverse \in BOOLEAN
    /\ level = Levels - 1 /\ iteration = 0 /\ EKF_end = FALSE /\ last_error = NoError
    /\ state = 0 /\ old_state = 0 /\ fresh = 0 /\ from = {} /\ tried = {} /\ G = {}
    /\ has_ref_patch_cache = FALSE /\ H_sub_inv = Levels /\ covFrom = <<>>

Start ==
    /\ pc = "start"
    /\ pc' = IF total_points = 0 THEN "done" ELSE "level"
    /\ UNCHANGED <<total_points, inverse, level, iteration, EKF_end, last_error, ekf, tried,
                   has_ref_patch_cache, H_sub_inv, covFrom>>

CacheAtLevel == FALSE

(* The entry of updateState and updateStateInverse. *)
StartLevel ==
    /\ pc = "level"
    /\ has_ref_patch_cache' = IF inverse THEN CacheAtLevel ELSE has_ref_patch_cache
    /\ old_state' = state /\ last_error' = NoError /\ EKF_end' = FALSE
    /\ iteration' = 0 /\ tried' = {} /\ pc' = "iterate"
    /\ UNCHANGED <<total_points, inverse, level, state, fresh, from, G, H_sub_inv, covFrom>>

Saved == state

(* Mutant: the gain is computed before the error is looked at. *)
GainFirst(error, jacobians) == {[level |-> level, at |-> state, jac |-> jacobians]}

Gain(error, jacobians) ==
    IF error <= last_error THEN {[level |-> level, at |-> state, jac |-> jacobians]} ELSE G

(* With the error of the state: a step that does not raise it is followed  *)
(* by another, and after one that does the state before it is taken back.  *)
Descend(error, jacobians) ==
    /\ tried' = tried \cup {<<state, error>>} /\ G' = Gain(error, jacobians)
    /\ \/ /\ error <= last_error
          /\ old_state' = Saved /\ last_error' = error
          /\ fresh' = fresh + 1 /\ state' = fresh + 1
          /\ from' = from \cup {<<state, fresh + 1>>}
          /\ EKF_end' \in BOOLEAN
       \/ /\ error > last_error
          /\ state' = old_state /\ EKF_end' = TRUE
          /\ UNCHANGED <<old_state, last_error, fresh, from>>
    /\ iteration' = iteration + 1
    /\ UNCHANGED <<pc, total_points, inverse, level, covFrom>>

(* Iterations compute the Jacobians in the image, *)
updateState ==
    /\ pc = "iterate" /\ ~inverse /\ iteration < MaxIterations /\ ~EKF_end
    /\ \E error \in Errors : Descend(error, level)
    /\ UNCHANGED <<has_ref_patch_cache, H_sub_inv>>

precomputeReferencePatches ==
    /\ H_sub_inv' = IF has_ref_patch_cache THEN H_sub_inv ELSE level
    /\ has_ref_patch_cache' = TRUE

(* or turn those of the reference patches, computed once for a level. *)
updateStateInverse ==
    /\ pc = "iterate" /\ inverse /\ iteration < MaxIterations /\ ~EKF_end
    /\ precomputeReferencePatches
    /\ \E error \in Errors : Descend(error, H_sub_inv')

LevelOver == iteration = MaxIterations \/ EKF_end

EndLevel ==
    /\ pc = "iterate" /\ LevelOver
    /\ IF level = 0 THEN pc' = "covariance" /\ UNCHANGED level
       ELSE pc' = "level" /\ level' = level - 1
    /\ UNCHANGED <<total_points, inverse, iteration, EKF_end, last_error, ekf, tried,
                   has_ref_patch_cache, H_sub_inv, covFrom>>

(* state->cov -= G * state->cov; updateFrameState *)
Covariance ==
    /\ pc = "covariance"
    /\ covFrom' = Append(covFrom, G)
    /\ pc' = "done"
    /\ UNCHANGED <<total_points, inverse, level, iteration, EKF_end, last_error, ekf, tried,
                   has_ref_patch_cache, H_sub_inv>>

Next == Start \/ StartLevel \/ updateState \/ updateStateInverse \/ EndLevel \/ Covariance

Spec == Init /\ [][Next]_vars /\ WF_vars(Next)

-------------------------------------------------------------------------------
(* The covariance is updated once, with the gain of the finest level taken *)
(* at the final state or at the state the last step started from.          *)
CovarianceMatches ==
    pc = "done" /\ total_points > 0 =>
        /\ Len(covFrom) = 1
        /\ \E g \in covFrom[1] : g.level = 0 /\ (g.at = state \/ <<g.at, state>> \in from)

(* A level that ends by going back leaves the best state it evaluated.     *)
BackToBest ==
    pc = "iterate" /\ EKF_end /\ state = old_state =>
        <<state, last_error>> \in tried /\ \A t \in tried : last_error <= t[2]

(* Every gain comes from Jacobians of its own level: the cache of the      *)
(* inverse form is never that of a coarser level.                          *)
JacobiansOfLevel == \A g \in G : g.jac = g.level

(* computeJacobianAndUpdateEKF: what a level leaves is the best state it   *)
(* evaluated, and the covariance belongs to the state that is kept.        *)
VisualStateKept == CovarianceMatches /\ BackToBest /\ JacobiansOfLevel

===============================================================================
