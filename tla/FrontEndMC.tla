----------------------------- MODULE FrontEndMC -----------------------------
(***************************************************************************)
(* FrontEnd for TLC: scans of two points every three ticks, an image in    *)
(* each scan, IMU messages on most ticks.                                  *)
(***************************************************************************)
EXTENDS FrontEnd

MCScanTimes == {1, 4, 7, 10}
MCOffsets == <<0, 2>>
MCCloseOffsets == <<0, 1>>
MCImageTimes == {3, 5, 8}
MCImuTimes == {1, 2, 4, 6, 7, 9}
MCRtkTimes == {4, 5}
=============================================================================
