------------------------------ MODULE EsikfMC -------------------------------
(***************************************************************************)
(* Esikf for TLC: a vehicle that stands, one that drives, one that starts  *)
(* late and one that turns round.                                          *)
(***************************************************************************)
EXTENDS Esikf

Time == 0 .. MaxStamp
Standing == [t \in Time |-> 0]
Driving == [t \in Time |-> 2 * t]
StartingLate == [t \in Time |-> IF t < 3 THEN 0 ELSE 2 * (t - 2)]
TurningRound == [t \in Time |-> IF t < 3 THEN 2 * t ELSE 2 * (4 - t)]
MCTracks == {Standing, Driving, StartingLate, TurningRound}
MCRtkStamps == {1, 2, 3, 5}
MCOrigin == -3
=============================================================================
