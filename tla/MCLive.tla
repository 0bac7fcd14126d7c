------------------------------- MODULE MCLive -------------------------------
(* Small instances of Live.tla for TLC. *)
EXTENDS Live, TLC

Symmetric == Permutations(Viewers)
=============================================================================
