------------------------------ MODULE MCStorage ------------------------------
(* Instances of StoragePipeline for TLC. *)
EXTENDS StoragePipeline, TLC

Symmetry == Permutations(Uploads) \cup Permutations(Files)
=============================================================================
