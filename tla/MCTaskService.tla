---------------------------- MODULE MCTaskService ----------------------------
(* Small instances of TaskService for TLC. *)
EXTENDS TaskService, TLC

CONSTANTS t1, t2

\* t2 names t1 in dependency_task_ids.
ChainDeps == [t \in Tasks |-> IF t = t2 THEN {t1} ELSE {}]
\* Bounds: the prerequisite may be rerun, its dependent has a round of humans.
AttemptsOfChain == [t \in Tasks |-> IF t = t2 THEN 1 ELSE 2]
RoundsOfChain == [t \in Tasks |-> IF t = t2 THEN 1 ELSE 0]
NoRounds == [t \in Tasks |-> 0]
OneEach == [t \in Tasks |-> 1]
TwoEach == [t \in Tasks |-> 2]
ThreeEach == [t \in Tasks |-> 3]
NoDeps == [t \in Tasks |-> {}]
ThreadSymmetry == Permutations(Threads)
=============================================================================
