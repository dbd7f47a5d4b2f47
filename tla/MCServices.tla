----------------------------- MODULE MCServices ------------------------------
(* Small instances of Services for TLC. *)
EXTENDS Services, TLC

Symmetry == Permutations(Items) \cup Permutations(Procs)
=============================================================================
