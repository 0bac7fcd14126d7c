------------------------------ MODULE MCFleet ------------------------------
(* Symmetry of Fleet's sensors, addresses, sessions and connect tasks.   *)
EXTENDS Fleet, TLC
Symmetry == Permutations(Ids) \cup Permutations(Addresses) \cup Permutations(Sessions)
              \cup Permutations(Tries)
=============================================================================
