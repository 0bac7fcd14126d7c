------------------------------ MODULE MCDriver ------------------------------
(* Small instances of Driver.tla for TLC. *)
EXTENDS Driver, TLC

Symmetric == Permutations(Requests)
=============================================================================
