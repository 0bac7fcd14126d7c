------------------------------ MODULE MCBatch ------------------------------
(* Batch as it is; no symmetry, for its liveness property. *)
EXTENDS Batch
=============================================================================
