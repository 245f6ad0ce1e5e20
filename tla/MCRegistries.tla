----------------------------- MODULE MCRegistries -----------------------------
(* Small instances of Registries for TLC. *)
EXTENDS Registries, TLC

Symmetry == Permutations(Requests) \cup Permutations(Agents) \cup Permutations(Workflows)
=============================================================================
