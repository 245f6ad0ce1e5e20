---------------------------- MODULE MCDeliverables ----------------------------
(* Small instances of Deliverables for TLC. *)
EXTENDS Deliverables, TLC

ContentSymmetry == Permutations(Contents)
=============================================================================
