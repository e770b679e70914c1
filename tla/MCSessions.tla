------------------------------ MODULE MCSessions ------------------------------
(* Instances of Sessions for TLC. *)
EXTENDS Sessions, TLC

Symmetry == Permutations(Sessions) \cup Permutations(Grants) \cup Permutations(Callers)
=============================================================================
