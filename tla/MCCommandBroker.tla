--------------------------- MODULE MCCommandBroker ---------------------------
(* Small instances of CommandBroker for TLC. *)
EXTENDS CommandBroker, TLC

Symmetry == Permutations(Calls) \cup Permutations(Brokers)
=============================================================================
