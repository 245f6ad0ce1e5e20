--------------------------- MODULE WorkflowTemplate ---------------------------
(***************************************************************************)
(* The automatic flow of a task that follows a workflow template           *)
(* (app/workflows/template_runner.py): which nodes are ready, which are    *)
(* skipped because no decision leads to them any more, rounds of agents,   *)
(* conditions and humans, and how the flow ends.                           *)
(*                                                                         *)
(* The server does not validate the graphs it is given, so graph ranges    *)
(* over any set of edges, cycles included; an execution works on its own   *)
(* snapshot of it.  A condition on an edge is the set of outcomes of its   *)
(* source that satisfy it.                                                 *)
(***************************************************************************)
EXTENDS Naturals, Sequences, FiniteSets

CONSTANTS
  Nodes,
  Kind,      \* "start", "agent", "human", "condition" or "end"
  Outcomes,  \* the decisions in the result_metadata of a completed subtask
  Plain,     \* the outcome without a decision
  Always,    \* an edge without a condition
  Graphs,    \* the graphs of this instance
  MaxAgain   \* bound: results posted for subtasks that have one

Edge == [from : Nodes, to : Nodes, when : {Always} \cup SUBSET Outcomes]

ASSUME NodesAssumption == IsFiniteSet(Nodes)
ASSUME KindAssumption ==
  Kind \in [Nodes -> {"start", "agent", "human", "condition", "end"}]
ASSUME OutcomesAssumption ==
  Plain \in Outcomes /\ Outcomes \cap {"none", "running", "failed", "blocked"} = {}
ASSUME AlwaysAssumption == Always \notin SUBSET Outcomes
ASSUME GraphsAssumption == Graphs \subseteq SUBSET Edge
ASSUME AgainAssumption == MaxAgain \in Nat

VARIABLES
  graph,    \* workflow_snapshot of the execution
  status,   \* task_status
  node,     \* current_node
  outcome,  \* of the first subtask of every node
  rounds,   \* the nodes of every round of the context
  again     \* results that were posted for a subtask that had one

vars == <<graph, status, node, outcome, rounds, again>>

Init ==
  /\ graph \in Graphs
  /\ status = "running"
  /\ node = "dispatch_decision"
  /\ outcome = [n \in Nodes |-> "none"]
  /\ rounds = <<>>
  /\ again = 0
-----------------------------------------------------------------------------
(* Readiness *)

In(n) == {e \in graph : e.to = n}
FromStart(e) == Kind[e.from] = "start"
HasStart == \E n \in Nodes : Kind[n] = "start"
Completed == {n \in Nodes : outcome[n] \in Outcomes}

\* _condition_matches, for an edge whose source is completed
ConditionMatches(e) == e.when = Always \/ outcome[e.from] \in e.when

\* Nodes the loop of _skipped_node_ids may still add.
Pending == {n \in Nodes \ Completed : Kind[n] # "start"}

\* Variant: the condition is looked up before its source has completed.
PossibleNow(e, S) == e.from \notin S /\ ConditionMatches(e)

Possible(e, S) == e.from \notin S /\ (e.from \in Completed => ConditionMatches(e))

Dead(n, S) ==
  /\ \E e \in In(n) : ~FromStart(e)
  /\ \A e \in In(n) : ~FromStart(e) => ~Possible(e, S)

\* Variant: one pass instead of the fixpoint.
SkippedInOnePass == {n \in Pending : Dead(n, {})}

(* _skipped_node_ids: the loop adds a node none of whose edges can fire any *)
(* more until nothing changes, which gives the least set closed under Dead. *)
SkippedNodes ==
  LET closed == {S \in SUBSET Pending : \A n \in Pending \ S : ~Dead(n, S)}
  IN  {n \in Pending : \A S \in closed : n \in S}

\* Variant: any completed branch opens a join.
AnyDependencyReady(deps) ==
  deps = {} \/ \E e \in deps : e.from \in Completed /\ ConditionMatches(e)

\* Variant: a completed branch opens a conditional join whatever it decided.
CompletedDependencyReady(deps) ==
  \/ \A e \in deps : e.from \in Completed
  \/ \E e \in deps : e.when # Always /\ e.from \in Completed

(* _dependencies_ready: a join with a condition among its edges takes the   *)
(* first branch that comes, any other join waits for all of them.           *)
DependenciesReady(deps) ==
  \/ \A e \in deps : e.when = Always /\ e.from \in Completed
  \/ /\ \E e \in deps : e.when # Always
     /\ \E e \in deps : e.from \in Completed /\ ConditionMatches(e)

Ready(n, skipped) ==
  LET valid == {e \in In(n) : e.from \notin skipped}
  IN  /\ HasStart => valid # {}
      /\ DependenciesReady({e \in valid : ~FromStart(e)})

ReadyNodes ==
  LET skipped == SkippedNodes IN {n \in Pending \ skipped : Ready(n, skipped)}

Runnable == {n \in ReadyNodes : Kind[n] \in {"agent", "human", "condition"}}
-----------------------------------------------------------------------------
(* The loop of run *)

\* The runner has been called; at human_execution it would return at once.
FlowRuns == status = "running" /\ node \in {"dispatch_decision", "context_update"}

\* What the subtasks of the nodes R may come to within the round.
RoundResults(R) ==
  {result \in [R -> Outcomes \cup {"running", "failed"}] :
     \A n \in R : result[n] \in CASE Kind[n] = "human" -> {"running"}
                                  [] Kind[n] = "agent" -> {Plain, "failed"}
                                  [] OTHER             -> Outcomes \cup {"failed"}}

\* Variant: the final node is not written.
FinishWithoutNode(candidate) == status' = candidate /\ node' = node

Finish(candidate) == status' = candidate /\ node' = "completion_judge"

RunRound ==
  LET R == Runnable IN
  /\ FlowRuns /\ R # {}
  /\ \E result \in RoundResults(R) :
       LET some(what) == \E n \in R : result[n] = what IN
       /\ outcome' = [n \in Nodes |-> IF n \in R THEN result[n] ELSE outcome[n]]
       /\ \/ some("failed") /\ Finish("failed")
          \/ /\ ~some("failed") /\ some("running")
             /\ node' = "human_execution" /\ UNCHANGED status
          \/ /\ ~some("failed") /\ ~some("running")
             /\ node' = "context_update" /\ UNCHANGED status
  /\ rounds' = Append(rounds, R)
  /\ UNCHANGED <<graph, again>>

(* A node that is dispatched again has one subtask id in both rounds, and   *)
(* _find_subtask returns the first: the subtask of a later round is never   *)
(* answered.  result is the outcome of the first ones.                      *)
IsFirst(n, i) == n \in rounds[i] /\ \A j \in 1..(i - 1) : n \notin rounds[j]
StatusIn(result, n, i) == IF IsFirst(n, i) THEN result[n] ELSE "running"

\* Variant: one result is enough to go on.
RoundGoesOn(i, result) == TRUE

\* No subtask of the round waits for its human any more.
RoundDone(i, result) == \A m \in rounds[i] : StatusIn(result, m, i) # "running"

\* Only end nodes are ready; finalize asks a human if evidence is missing.
CompleteWorkflow ==
  /\ FlowRuns /\ Runnable = {} /\ ReadyNodes # {}
  /\ \/ /\ Finish("succeeded")
        /\ \A i \in DOMAIN rounds : \A n \in rounds[i] :
             StatusIn(outcome, n, i) \notin {"running", "failed"}
     \/ node' = "human_intervention" /\ UNCHANGED status
  /\ UNCHANGED <<graph, outcome, rounds, again>>

MarkWorkflowBlocked ==
  /\ FlowRuns /\ ReadyNodes = {}
  /\ Finish("blocked")
  /\ UNCHANGED <<graph, outcome, rounds, again>>

(* submit_subtask_result for the node n: the code looks at the status of    *)
(* the task, and takes a result for a subtask that has one.  The result     *)
(* that leaves its round without open work calls the runner again.          *)
HumanResult(n) ==
  /\ status = "running" /\ outcome[n] # "none"
  /\ \/ outcome[n] = "running" /\ UNCHANGED again
     \/ outcome[n] # "running" /\ again < MaxAgain /\ again' = again + 1
  /\ \/ \E d \in Outcomes :
          /\ outcome' = [outcome EXCEPT ![n] = d]
          /\ node' = IF \A i \in DOMAIN rounds : IsFirst(n, i) => RoundDone(i, outcome')
                     THEN "context_update" ELSE "human_execution"
          /\ UNCHANGED status
     \/ \E f \in {"failed", "blocked"} :
          /\ outcome' = [outcome EXCEPT ![n] = f]
          /\ Finish(f)
  /\ UNCHANGED <<graph, rounds>>

Next == RunRound \/ CompleteWorkflow \/ MarkWorkflowBlocked \/ \E n \in Nodes : HumanResult(n)

Spec == Init /\ [][Next]_vars
-----------------------------------------------------------------------------
(* Properties *)

Dispatched == {n \in Nodes : \E i \in DOMAIN rounds : n \in rounds[i]}

(* Types, and what belongs together: a task has ended exactly when it       *)
(* stands at completion_judge.                                              *)
TypeOK ==
  /\ graph \in SUBSET Edge
  /\ status \in {"running", "succeeded", "failed", "blocked"}
  /\ node \in {"dispatch_decision", "human_execution", "context_update",
               "completion_judge", "human_intervention"}
  /\ status = "running" <=> node # "completion_judge"
  /\ outcome \in [Nodes -> Outcomes \cup {"none", "running", "failed", "blocked"}]
  /\ rounds \in Seq(SUBSET Nodes)
  /\ again \in 0..MaxAgain

(* No agent and no condition is executed twice in one execution, however    *)
(* the graph joins, branches or turns back and whatever results are posted  *)
(* again; and a human is asked twice only after a result was posted again   *)
(* (_ready_nodes only leaves out completed nodes, so a flow that goes on    *)
(* over an open human round dispatches the open nodes once more).           *)
NodesRunOnce ==
  \A i, j \in DOMAIN rounds : i # j =>
    \A n \in rounds[i] \cap rounds[j] : Kind[n] = "human" /\ again > 0

(* As long as no result is posted again, no node runs on a branch that no   *)
(* decision has chosen: one of its edges comes from a start node, or from a *)
(* completed node whose outcome satisfies the edge (roots aside).           *)
RunsOnLivePath ==
  again = 0 => \A n \in Dispatched :
    \/ In(n) = {}
    \/ \E e \in In(n) : FromStart(e) \/ (e.from \in Completed /\ ConditionMatches(e))

(* What has been ruled out stays out as long as no result is posted again   *)
(* (another decision on a completed node may revive a branch): every call   *)
(* of the runner computes the skipped nodes anew and finds more of them.    *)
SkippedForGood == [][again' = 0 => SkippedNodes \subseteq SkippedNodes']_vars

(* A join whose edges carry no condition has waited for all its branches:   *)
(* when it has been dispatched, each of them is completed or ruled out, if  *)
(* no result was posted again.                                              *)
JoinsWait ==
  LET decided == Completed \cup SkippedNodes IN
  again = 0 => \A n \in Dispatched : (\A e \in In(n) : e.when = Always) =>
    \A e \in In(n) : FromStart(e) \/ e.from \in decided

(* A graph as the template editor draws it: no cycle, nothing behind an end *)
(* node, and with a start node nothing that hangs in the air.               *)
Acyclic ==
  \A S \in SUBSET Nodes : S # {} =>
    \E n \in S : \A e \in In(n) : e.from \notin S

WellFormed ==
  /\ Acyclic
  /\ \A e \in graph : Kind[e.from] # "end"
  /\ HasStart => \A n \in Nodes : Kind[n] # "start" => In(n) # {}

(* On such a graph the flow never gives up early, results posted again or   *)
(* not: when it has no node left to run, each node has been executed or     *)
(* ruled out, and it ends the task as blocked only if every end node is     *)
(* ruled out.                                                               *)
EverythingDecided ==
  LET skipped == SkippedNodes IN
  FlowRuns /\ Runnable = {} /\ WellFormed =>
    \A n \in Nodes :
      CASE Kind[n] = "start" -> TRUE
        [] Kind[n] = "end"   -> n \in skipped \/ Ready(n, skipped)
        [] OTHER             -> n \in skipped \cup Completed
-----------------------------------------------------------------------------
(* The flow as module TaskService has it *)

HumanNodes == {n \in Nodes : Kind[n] = "human"}

\* The task as module TaskService sees it; its rounds hold the human subtasks.
View ==
  [status |-> status, node |-> node, contract |-> TRUE, active |-> 1,
   rounds |-> [i \in DOMAIN rounds |->
                [n \in HumanNodes |->
                   IF n \notin rounds[i] THEN "none"
                   ELSE IF StatusIn(outcome, n, i) \in Outcomes THEN "succeeded"
                   ELSE StatusIn(outcome, n, i)]],
   awaiting |-> node = "human_intervention", depctx |-> FALSE]

Service == INSTANCE TaskService WITH
             Tasks <- {"t"}, Workflow <- {"t"}, Deps <- [t \in {"t"} |-> {}],
             Threads <- {"thread"}, Slots <- HumanNodes, Keys <- {"key"}, NoKey <- "none",
             NoThread <- "none", Failures <- {"failed", "blocked"},
             MaxAttempts <- [t \in {"t"} |-> 1],
             MaxRounds <- [t \in {"t"} |-> Cardinality(Nodes)], Resubmit <- FALSE, Durable <- TRUE,
             task <- [t \in {"t"} |-> View], executions <- [t \in {"t"} |-> <<>>],
             lock <- [t \in {"t"} |-> "none"], thread <- <<>>

\* A result of the flow, or a round without a human after which the loop goes on.
RunMayGive ==
  Service!FlowResults("t", View)
    \cup {[Service!AddRound(View, {}) EXCEPT !.node = "context_update"]}

\* What the service stores for a result of the human node n in round i.
ResultMayGive(i, n) ==
  LET posted(result) == [View EXCEPT !.rounds[i][n] = result]
      more == Service!RoundHasRunningSubtasks(posted("succeeded"), i)
  IN  {Service!Finalize([posted(f) EXCEPT !.node = "context_update"], f, FALSE) :
         f \in {"failed", "blocked"}}
      \cup {[posted("succeeded") EXCEPT
               !.node = IF more THEN "human_execution" ELSE "context_update"]}

(* Whatever the graph is and the agents and humans decide, the template     *)
(* runner does what the service takes the flow of a workflow task to do:    *)
(* it waits with open human work in a new round, ends the task, asks for a  *)
(* decision on it, or goes on; and it finds each result where the service   *)
(* has put it.  (A result posted again makes rounds that the service does   *)
(* not count with, see its run resubmit.)                                   *)
FlowAsExpected ==
  [][again' = 0 =>
       IF FlowRuns THEN View' \in RunMayGive
       ELSE \E i \in DOMAIN rounds : \E n \in HumanNodes \cap rounds[i] :
              View' \in ResultMayGive(i, n)]_vars
=============================================================================
