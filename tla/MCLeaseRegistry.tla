-------------------------- MODULE MCLeaseRegistry --------------------------
(* Symmetry for the model-checking run of LeaseRegistry: ids are UUIDs the *)
(* registry only compares, and every checked property quantifies over all. *)
EXTENDS LeaseRegistry, TLC

RegistrySymmetry == Permutations(Sessions) \cup Permutations(Tabs) \cup Permutations(Targets)
=============================================================================
