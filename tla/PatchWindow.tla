----------------------------- MODULE PatchWindow -----------------------------
(***************************************************************************)
(* The image geometry of the visual odometry: the grid and the border that *)
(* initializeVIO derives from the parameters, the cell of a pixel that     *)
(* isInFrame accepts when a point is retrieved, and the pixels read around *)
(* the point afterwards.  Only the retrieval asks isInFrame: every         *)
(* iteration of the update projects the point anew with the state it has   *)
(* moved, and updateVisualMapPoints once more with the final one.          *)
(***************************************************************************)
EXTENDS Integers

CONSTANTS
    Images,            \* <<width, height>> of the camera
    GridSizes,         \* values of the parameter grid_size
    GridHeights,       \* values of the parameter grid_n_height
    GridMin,           \* a grid_size above it is taken as it is (10)
    PatchSize, Levels, \* patch_size, patch_pyrimid_level
    MaxSearch,         \* largest search_level getBestSearchLevel is asked for
    Moves              \* how far the state may take a point, <<along u, along v>>

(* 1 << k *)
Shift(k) == 2^k

(* What an instance of this module gives its constants: a patch has two    *)
(* halves (warpAffine), an image as many rows as its grid, or the division *)
(* of initializeVIO fails; and what a shift is, for the proofs.            *)
PatchWindowAssumption ==
    /\ \A im \in Images : im[1] \in Nat /\ im[2] \in Nat
    /\ GridSizes \subseteq Nat /\ GridHeights \subseteq Nat \ {0} /\ GridMin \in Nat
    /\ \A im \in Images, rows \in GridHeights : rows <= im[2]
    /\ PatchSize \in Nat /\ PatchSize % 2 = 0 /\ Levels \in Nat \ {0} /\ MaxSearch \in Nat
    /\ Moves \subseteq Int \X Int
    /\ Shift(0) = 1 /\ \A k \in 0..(Levels + MaxSearch) : Shift(k + 1) = 2 * Shift(k)

VARIABLES
    pc, width, height, grid_size, grid_n_width, grid_n_height,
    inverse_composition_en,
    px,                \* the projection of the point when it was retrieved
    projection,        \* its projection with the state as it is
    search_level, level
camera == <<width, height, grid_size, grid_n_width, grid_n_height, inverse_composition_en>>
vars == <<pc, camera, px, projection, search_level, level>>

length == grid_n_width * grid_n_height
patch_size_half == PatchSize \div 2

(* Mutant: the pixel that interpolation and gradient reach out for is      *)
(* forgotten.                                                              *)
BorderOfPatch == patch_size_half * Shift(Levels)

border == (patch_size_half + 1) * Shift(Levels)

Init ==
    /\ pc = "start" /\ \E im \in Images : width = im[1] /\ height = im[2]
    /\ grid_size \in GridSizes /\ grid_n_height \in GridHeights /\ grid_n_width = 0
    /\ inverse_composition_en \in BOOLEAN
    /\ px = <<0, 0>> /\ projection = <<0, 0>> /\ search_level = 0 /\ level = 0

(* The quotients are integers before ceil sees them. *)
initializeVIO ==
    /\ pc = "start"
    /\ grid_size' = IF grid_size > GridMin THEN grid_size ELSE height \div grid_n_height
    /\ grid_n_height' = height \div grid_size'
    /\ grid_n_width' = width \div grid_size'
    /\ pc' = "idle"
    /\ UNCHANGED <<width, height, inverse_composition_en, px, projection, search_level, level>>

isInFrame(u, v) == u >= border /\ u < width - border /\ v >= border /\ v < height - border

(* Mutant: rows are counted with the height of the grid. *)
IndexTall(u, v) == (v \div grid_size) * grid_n_height + u \div grid_size

Index(u, v) == (v \div grid_size) * grid_n_width + u \div grid_size

(* One level for each factor four of the warp's area, up to the limit. *)
getBestSearchLevel == 0..MaxSearch

(* A point is projected, its patch read on level 0 and its level chosen;   *)
(* the coarsest level of the update begins with the state it was projected *)
(* with.                                                                   *)
Retrieve ==
    /\ pc = "idle"
    /\ \E u \in 0..(width - 1), v \in 0..(height - 1) : isInFrame(u, v) /\ px' = <<u, v>>
    /\ projection' = px'
    /\ search_level' \in getBestSearchLevel
    /\ level' = Levels - 1 /\ pc' = "update"
    /\ UNCHANGED camera

(* The state has changed, or gone back: the point is projected elsewhere,  *)
(* and nobody asks whether that is in the frame.                           *)
Reproject == \E move \in Moves : projection' = <<px[1] + move[1], px[2] + move[2]>>

(* updateState and updateStateInverse: after an iteration on a level comes *)
(* another one, or the first of the next level, or the update is over.     *)
Iterate ==
    /\ pc = "update"
    /\ Reproject
    /\ \/ UNCHANGED <<pc, level>>
       \/ level > 0 /\ level' = level - 1 /\ UNCHANGED pc
       \/ level = 0 /\ pc' = "revise" /\ UNCHANGED level
    /\ UNCHANGED <<camera, px, search_level>>

(* updateVisualMapPoints reads the patch of a point that has not converged *)
(* on level 0, for a feature the point may get.                            *)
updateVisualMapPoints ==
    /\ pc = "revise"
    /\ pc' = "idle"
    /\ UNCHANGED <<camera, px, projection, search_level, level>>

Next == initializeVIO \/ Retrieve \/ Iterate \/ updateVisualMapPoints

Spec == Init /\ [][Next]_vars

-------------------------------------------------------------------------------
(* The pixels read along one axis around x: getImagePatch and              *)
(* updateStateInverse read from the first pixel of the patch to the        *)
(* neighbour of the last, updateState one more on each side for the        *)
(* gradient.                                                               *)
firstPixel(x, s) == (x \div s) * s - patch_size_half * s
getImagePatch(x, s) == {firstPixel(x, s) + k * s : k \in 0..PatchSize}
updateState(x, s) == {firstPixel(x, s) + k * s : k \in -1..(PatchSize + 1)}

(* What is read next: the inverse composition leaves search_level out, and *)
(* updateVisualMapPoints reads on level 0.                                 *)
scale ==
    IF pc = "revise" THEN 1
    ELSE Shift(IF inverse_composition_en THEN level ELSE level + search_level)
window(x) ==
    IF pc = "revise" \/ inverse_composition_en THEN getImagePatch(x, scale)
    ELSE updateState(x, scale)

Inside(pixels, size) == \A p \in pixels : p >= 0 /\ p < size

(* A pixel inside the border falls into a cell of the grid, in the column  *)
(* it has, whatever is left over by the division of the image into cells,  *)
(* as long as a cell is no larger than the border.                         *)
GridFits == grid_size <= border + 1
CellInside ==
    pc = "update" /\ GridFits =>
        LET n == Index(px[1], px[2])
        IN n < length /\ n % grid_n_width = px[1] \div grid_size

(* The patch that the retrieval reads is inside the image.                 *)
RetrievedInside ==
    pc = "update" => /\ Inside(getImagePatch(px[1], 1), width)
                     /\ Inside(getImagePatch(px[2], 1), height)

(* How far a point may move along either axis before a window of that      *)
(* scale can leave the image: half a patch and one pixel, as many times as *)
(* the scale is finer than the one the border is made for.  There is       *)
(* nothing to spare for one twice as coarse as the coarsest level, and     *)
(* less than nothing for search_level 2 there.                             *)
Slack(s) == (patch_size_half + 1) * (Shift(Levels) - s)
MovedWithin(d) == projection[1] - px[1] \in -d..d /\ projection[2] - px[2] \in -d..d

(* As long as the point has moved by no more than that since isInFrame was *)
(* asked, no iteration, on any level and any search level, and no revision *)
(* of the map reads a pixel outside the image.  The code does not check    *)
(* the condition; beyond it, the pixels are other rows' or other memory.   *)
ReadsInside ==
    pc \in {"update", "revise"} /\ MovedWithin(Slack(scale)) =>
        /\ Inside(window(projection[1]), width)
        /\ Inside(window(projection[2]), height)
===============================================================================
