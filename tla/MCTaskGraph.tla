----------------------------- MODULE MCTaskGraph -----------------------------
(* Small instances of TaskGraph for TLC. *)
EXTENDS TaskGraph
=============================================================================
