--------------------------- MODULE MCCalibration ---------------------------
(* Small instances of Calibration.tla for TLC.  No symmetry: the main run checks liveness. *)
EXTENDS Calibration, TLC
=============================================================================
