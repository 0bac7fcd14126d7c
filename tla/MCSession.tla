----------------------------- MODULE MCSession -----------------------------
(* Small instances of Session.tla for TLC. *)
EXTENDS Session, TLC

Symmetric == Permutations(Attempts) \cup Permutations(Closers) \cup Permutations(KLoops)
             \cup Permutations(PLoops) \cup Permutations(Links)
=============================================================================
