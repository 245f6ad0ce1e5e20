------------------------ MODULE WorkflowTemplateProofs ------------------------
(***************************************************************************)
(* Proofs about WorkflowTemplate, for any nodes and any graphs.  As long as *)
(* no result is posted again, the skipped nodes only ever grow, a node runs *)
(* at most once and only on a live path, and every step leaves the task as  *)
(* TaskService expects it.  Whatever is posted again, no agent runs twice,  *)
(* and on a well-formed graph the flow stops only when every node is        *)
(* decided.                                                                 *)
(***************************************************************************)
EXTENDS WorkflowTemplate, FiniteSetTheorems, FunctionTheorems, TLAPS

AllOutcomes == Outcomes \cup {"none", "running", "failed", "blocked"}

\* A set of pending nodes to which the skip loop has nothing to add.
IsClosed(S) == S \in SUBSET Pending /\ \A n \in Pending \ S : ~Dead(n, S)

LEMMA SkippedChar ==
  ASSUME NEW n
  PROVE  n \in SkippedNodes <=> n \in Pending /\ \A S : IsClosed(S) => n \in S
BY DEF SkippedNodes, IsClosed

\* A larger set of skipped nodes kills at least as much.
LEMMA DeadMonotone ==
  ASSUME NEW n, NEW S, NEW T, S \subseteq T, Dead(n, S)
  PROVE  Dead(n, T)
BY DEF Dead, Possible

\* The skipped nodes are closed themselves: the loop has reached its end.
LEMMA SkippedIsClosed == IsClosed(SkippedNodes)
<1>1. SkippedNodes \in SUBSET Pending
  BY DEF SkippedNodes
<1>2. ASSUME NEW n \in Pending \ SkippedNodes, Dead(n, SkippedNodes)
      PROVE  FALSE
  <2>1. PICK S : IsClosed(S) /\ n \notin S
    BY <1>2, SkippedChar
  <2>2. SkippedNodes \subseteq S
    BY <2>1, SkippedChar
  <2>3. Dead(n, S)
    BY <1>2, <2>2, DeadMonotone
  <2> QED BY <1>2, <2>1, <2>3 DEF IsClosed
<1> QED BY <1>1, <1>2 DEF IsClosed

-----------------------------------------------------------------------------
(* What a step may do to the outcomes: completed subtasks keep theirs, and  *)
(* no skipped node completes.                                               *)
Progress ==
  /\ graph' = graph
  /\ \A n \in Completed : n \in Completed' /\ outcome'[n] = outcome[n]
  /\ \A n \in SkippedNodes : n \notin Completed'

\* An edge that cannot fire any more never will.
LEMMA ImpossibleStays ==
  ASSUME Progress, NEW e, NEW S, NEW T, S \subseteq T, ~Possible(e, S)
  PROVE  ~Possible(e, T)'
BY DEF Progress, Possible, ConditionMatches

LEMMA DeadStays ==
  ASSUME Progress, NEW n, NEW S, NEW T, S \subseteq T, Dead(n, S)
  PROVE  Dead(n, T)'
<1>1. In(n)' = In(n)
  BY DEF Progress, In
<1>2. \A e \in In(n) : ~FromStart(e) => ~Possible(e, T)'
  BY ImpossibleStays DEF Dead
<1> QED BY <1>1, <1>2 DEF Dead, FromStart

LEMMA SkippedGrow ==
  ASSUME Progress
  PROVE  SkippedNodes \subseteq SkippedNodes'
<1> SUFFICES ASSUME NEW x \in SkippedNodes
             PROVE  x \in SkippedNodes'
  OBVIOUS
<1>1. \A n \in SkippedNodes : n \in Pending'
  BY DEF SkippedNodes, Pending, Progress
<1>2. ASSUME NEW T, IsClosed(T)'
      PROVE  x \in T
  <2> DEFINE S == T \cap SkippedNodes
  <2>1. IsClosed(S)
    <3>1. S \in SUBSET Pending
      BY DEF SkippedNodes
    <3>2. ASSUME NEW n \in Pending, Dead(n, S)
          PROVE  n \in S
      <4>1. Dead(n, SkippedNodes)
        BY <3>2, DeadMonotone
      <4>2. n \in SkippedNodes
        BY <4>1, SkippedIsClosed DEF IsClosed
      <4>3. Dead(n, T)'
        BY <3>2, DeadStays
      <4>4. n \in T
        BY <1>1, <1>2, <4>2, <4>3 DEF IsClosed
      <4> QED BY <4>2, <4>4
    <3> QED BY <3>1, <3>2 DEF IsClosed
  <2> QED BY <2>1, SkippedChar
<1>3. x \in SkippedNodes' <=> x \in Pending' /\ \A T : IsClosed(T)' => x \in T
  BY DEF SkippedNodes, IsClosed
<1> QED BY <1>1, <1>2, <1>3

-----------------------------------------------------------------------------
(* A node that has been chosen: nothing but start edges lead to it, or one  *)
(* of its branches has completed and satisfies its edge.                    *)
Chosen(n) ==
  \/ \A e \in In(n) : FromStart(e)
  \/ \E e \in In(n) : ~FromStart(e) /\ e.from \in Completed /\ ConditionMatches(e)

\* A chosen node is not skipped: the least closed set can do without it.
LEMMA ChosenNotSkipped ==
  ASSUME NEW n, Chosen(n)
  PROVE  n \notin SkippedNodes
<1> DEFINE S == SkippedNodes \ {n}
<1>1. S \in SUBSET Pending
  BY DEF SkippedNodes
<1>2. ASSUME NEW m \in Pending \ S, Dead(m, S)
      PROVE  FALSE
  <2>1. CASE m = n
    <3>1. PICK e \in In(n) : ~FromStart(e) /\ e.from \in Completed /\ ConditionMatches(e)
      BY <1>2, <2>1 DEF Chosen, Dead
    <3>2. e.from \notin S
      BY <1>1, <3>1 DEF Pending
    <3>3. Possible(e, S)
      BY <3>1, <3>2 DEF Possible
    <3> QED BY <1>2, <2>1, <3>1, <3>3 DEF Dead
  <2>2. CASE m # n
    <3>1. Dead(m, SkippedNodes)
      BY <1>2, DeadMonotone
    <3> QED BY <1>2, <2>2, <3>1, SkippedIsClosed DEF IsClosed
  <2> QED BY <2>1, <2>2
<1>3. IsClosed(S)
  BY <1>1, <1>2 DEF IsClosed
<1> QED BY <1>3, SkippedChar

\* A node whose live edges are all gone is skipped, so a ready node is chosen.
LEMMA ReadyIsChosen ==
  ASSUME NEW n \in ReadyNodes
  PROVE  Chosen(n)
<1> DEFINE valid == {e \in In(n) : e.from \notin SkippedNodes}
           deps == {e \in valid : ~FromStart(e)}
<1>1. n \in Pending /\ n \notin SkippedNodes /\ DependenciesReady(deps)
  BY DEF ReadyNodes, Ready
<1>2. ~Dead(n, SkippedNodes)
  BY <1>1, SkippedIsClosed DEF IsClosed
<1>3. CASE \E e \in deps : e.from \in Completed /\ ConditionMatches(e)
  BY <1>3 DEF Chosen
<1>4. CASE \A e \in deps : e.when = Always /\ e.from \in Completed
  <2>1. CASE deps # {}
    BY <1>4, <2>1 DEF Chosen, ConditionMatches
  <2>2. CASE deps = {}
    <3>1. \A e \in In(n) : ~FromStart(e) => ~Possible(e, SkippedNodes)
      BY <2>2 DEF Possible
    <3> QED BY <1>2, <3>1 DEF Dead, Chosen
  <2> QED BY <2>1, <2>2
<1> QED BY <1>1, <1>3, <1>4 DEF DependenciesReady

\* A ready join without conditions has all its branches decided.
LEMMA ReadyJoinDecided ==
  ASSUME NEW n \in ReadyNodes, \A e \in In(n) : e.when = Always
  PROVE  \A e \in In(n) : FromStart(e) \/ e.from \in Completed \cup SkippedNodes
BY DEF ReadyNodes, Ready, DependenciesReady

(* On a well-formed graph the flow stops only when all nodes are decided    *)
(* (run leaves its loop when _ready_nodes gives nothing to run): a node     *)
(* that is neither executed nor ruled out and has no such node before it    *)
(* would be ready.                                                          *)
LEMMA DecidedWhenDone ==
  ASSUME TypeOK, \A n \in Nodes : Kind[n] = "end" => n \notin Completed
  PROVE  EverythingDecided
<1> SUFFICES ASSUME Runnable = {}, WellFormed,
                    NEW n \in Nodes, Kind[n] # "start",
                    Kind[n] = "end" => n \notin SkippedNodes /\ ~Ready(n, SkippedNodes),
                    Kind[n] # "end" => n \notin SkippedNodes \cup Completed
             PROVE  FALSE
  BY DEF EverythingDecided
<1> DEFINE U == {m \in Pending \ SkippedNodes : Kind[m] = "end" => ~Ready(m, SkippedNodes)}
<1>1. n \in U
  BY DEF Pending
<1>2. PICK m \in U : \A e \in In(m) : e.from \notin U
  <2>1. U \in SUBSET Nodes
    BY DEF Pending
  <2> QED BY <1>1, <2>1 DEF WellFormed, Acyclic
<1>3. \A e \in In(m) : FromStart(e) \/ e.from \in Completed \cup SkippedNodes
  <2>1. \A e \in In(m) : e.from \in Nodes /\ Kind[e.from] # "end"
    BY DEF In, WellFormed, TypeOK, Edge
  <2> QED BY <1>2, <2>1 DEF Pending, FromStart
<1> DEFINE valid == {e \in In(m) : e.from \notin SkippedNodes}
           deps == {e \in valid : ~FromStart(e)}
<1>4. ~Dead(m, SkippedNodes)
  BY <1>2, SkippedIsClosed DEF IsClosed
<1>5. HasStart => valid # {}
  <2>1. HasStart => In(m) # {}
    BY <1>2 DEF WellFormed, Pending
  <2>2. \A e \in In(m) : e.from \in SkippedNodes => ~FromStart(e) /\ ~Possible(e, SkippedNodes)
    BY DEF SkippedNodes, Pending, FromStart, Possible
  <2> QED BY <1>4, <2>1, <2>2 DEF Dead
<1>6. DependenciesReady(deps)
  <2>1. \A e \in deps : e.from \in Completed
    BY <1>3
  <2>2. CASE \A e \in deps : e.when = Always
    BY <2>1, <2>2 DEF DependenciesReady
  <2>3. CASE \E e \in deps : e.when # Always
    <3>1. PICK e \in In(m) : ~FromStart(e) /\ Possible(e, SkippedNodes)
      BY <1>4, <2>3 DEF Dead
    <3>2. e \in deps
      BY <3>1 DEF Possible
    <3> QED BY <2>1, <2>3, <3>1, <3>2 DEF DependenciesReady, Possible
  <2> QED BY <2>2, <2>3
<1>7. m \in ReadyNodes /\ Kind[m] # "end"
  BY <1>2, <1>5, <1>6 DEF ReadyNodes, Ready
<1>8. m \in Runnable
  BY <1>7, KindAssumption DEF Runnable, ReadyNodes, Pending
<1> QED BY <1>8

-----------------------------------------------------------------------------
(* The inductive invariant, for a flow without results posted again *)

OncePerNode == \A i, j \in DOMAIN rounds : i # j => rounds[i] \cap rounds[j] = {}

JoinDecided(n) ==
  (\A e \in In(n) : e.when = Always) =>
    \A e \in In(n) : FromStart(e) \/ e.from \in Completed \cup SkippedNodes

(* The subtasks of the context and their outcomes: while the task runs, a   *)
(* dispatched node is completed or waits for its human, in the last round,  *)
(* and nobody is waited for unless the task stands at human_execution.      *)
Bookkeeping ==
  /\ \A n \in Nodes : outcome[n] # "none" <=> n \in Dispatched
  /\ \A n \in Dispatched : Kind[n] \in {"agent", "human", "condition"}
  /\ status = "running" => \A n \in Dispatched : outcome[n] \in Outcomes \cup {"running"}
  /\ \A n \in Nodes : outcome[n] = "running" => rounds # <<>> /\ n \in rounds[Len(rounds)]
  /\ status = "running" /\ node # "human_execution" =>
       \A n \in Nodes : outcome[n] # "running"

AllChosen == \A n \in Dispatched : Chosen(n)
AllJoined == \A n \in Dispatched : JoinDecided(n)

IInv == TypeOK /\ Bookkeeping /\ OncePerNode /\ AllChosen /\ AllJoined

\* Every subtask is the first of its node.
LEMMA AllAreFirst ==
  ASSUME TypeOK, OncePerNode, NEW i \in DOMAIN rounds, NEW n
  PROVE  IsFirst(n, i) <=> n \in rounds[i]
<1>1. \A j \in 1..(i - 1) : j \in DOMAIN rounds /\ j # i
  BY DEF TypeOK
<1> QED BY <1>1 DEF IsFirst, OncePerNode

LEMMA StatusIsOutcome ==
  ASSUME TypeOK, OncePerNode, NEW i \in DOMAIN rounds, NEW n \in rounds[i], NEW result
  PROVE  StatusIn(result, n, i) = result[n]
BY AllAreFirst DEF StatusIn

LEMMA StatusIsOutcomeNext ==
  ASSUME TypeOK', OncePerNode', NEW i \in DOMAIN rounds', NEW n \in rounds'[i]
  PROVE  StatusIn(outcome, n, i)' = outcome'[n]
<1>1. \A j \in 1..(i - 1) : j \in DOMAIN rounds' /\ j # i
  BY DEF TypeOK
<1> QED BY <1>1 DEF IsFirst, OncePerNode, StatusIn

LEMMA RoundDoneIs ==
  ASSUME TypeOK, OncePerNode, NEW i \in DOMAIN rounds, NEW result
  PROVE  RoundDone(i, result) <=> \A m \in rounds[i] : result[m] # "running"
BY StatusIsOutcome DEF RoundDone

\* The first result for a subtask, as long as none was posted again.
LEMMA FirstResult ==
  ASSUME TypeOK, NEW n \in Nodes, HumanResult(n), again' = 0
  PROVE  outcome[n] = "running" /\ again = 0
BY AgainAssumption DEF HumanResult, TypeOK

LEMMA AgainStays == ASSUME TypeOK, [Next]_vars, again' = 0 PROVE again = 0
<1>1. ASSUME NEW n \in Nodes, HumanResult(n) PROVE again = 0
  BY <1>1, FirstResult
<1> QED BY <1>1 DEF Next, vars, RunRound, CompleteWorkflow, MarkWorkflowBlocked

\* A dispatched node is not skipped.
LEMMA DispatchedNotSkipped ==
  ASSUME AllChosen
  PROVE  Dispatched \cap SkippedNodes = {}
BY ChosenNotSkipped DEF AllChosen

LEMMA InitIInv == Init => IInv
<1> SUFFICES ASSUME Init PROVE IInv
  OBVIOUS
<1>1. Dispatched = {}
  BY DEF Init, Dispatched
<1>2. TypeOK
  BY GraphsAssumption, AgainAssumption DEF Init, TypeOK
<1>3. Bookkeeping
  BY <1>1 DEF Init, Bookkeeping
<1> QED BY <1>1, <1>2, <1>3 DEF Init, IInv, OncePerNode, AllChosen, AllJoined

\* The effect of a round on the record.
LEMMA RoundEffect ==
  ASSUME IInv, RunRound
  PROVE  /\ Dispatched' = Dispatched \cup Runnable
         /\ \A n \in Nodes : n \in Runnable => outcome[n] = "none"
         /\ \A n \in Nodes : n \notin Runnable => outcome'[n] = outcome[n]
         /\ Runnable \cap SkippedNodes = {}
<1>1. rounds' = Append(rounds, Runnable) /\ rounds \in Seq(SUBSET Nodes) /\ Runnable \in SUBSET Nodes
  BY DEF RunRound, IInv, TypeOK, Runnable, ReadyNodes, Pending
<1>2. Dispatched' = Dispatched \cup Runnable
  BY <1>1 DEF Dispatched
<1>3. Runnable \cap SkippedNodes = {} /\ Runnable \cap Completed = {}
  BY DEF Runnable, ReadyNodes, Pending
<1>4. FlowRuns => \A n \in Dispatched : n \in Completed
  BY DEF IInv, Bookkeeping, FlowRuns, Completed, Dispatched
<1>5. \A n \in Runnable : n \notin Dispatched /\ outcome[n] = "none"
  BY <1>1, <1>3, <1>4 DEF RunRound, IInv, Bookkeeping
<1>6. \A n \in Nodes : n \notin Runnable => outcome'[n] = outcome[n]
  BY DEF RunRound
<1> QED BY <1>2, <1>3, <1>5, <1>6

\* The effect of a human result.
LEMMA HumanEffect ==
  ASSUME IInv, NEW n \in Nodes, HumanResult(n), again' = 0
  PROVE  /\ n \in Dispatched /\ Dispatched' = Dispatched
         /\ n \notin Completed
         /\ \A m \in Nodes : m # n => outcome'[m] = outcome[m]
         /\ outcome'[n] \in Outcomes \cup {"failed", "blocked"}
<1>1. outcome[n] = "running" /\ rounds' = rounds
  BY FirstResult DEF HumanResult, IInv
<1>2. n \in Dispatched /\ Dispatched' = Dispatched
  BY <1>1 DEF IInv, Bookkeeping, Dispatched
<1>3. n \notin Completed
  BY <1>1, OutcomesAssumption DEF Completed
<1>4. outcome \in [Nodes -> AllOutcomes]
  BY DEF IInv, TypeOK, AllOutcomes
<1> QED BY <1>2, <1>3, <1>4 DEF HumanResult

LEMMA StepProgress ==
  ASSUME IInv, [Next]_vars, again' = 0
  PROVE  Progress
<1>0. graph' = graph
  BY DEF Next, vars, RunRound, CompleteWorkflow, MarkWorkflowBlocked, HumanResult
<1>1. CASE RunRound
  <2>1. \A n \in Nodes : n \in Completed \/ n \in SkippedNodes => n \notin Runnable
    BY <1>1, RoundEffect, OutcomesAssumption DEF Completed
  <2>2. \A n \in Nodes : n \notin Runnable => outcome'[n] = outcome[n]
    BY <1>1, RoundEffect
  <2> QED BY <1>0, <2>1, <2>2 DEF Progress, Completed, SkippedNodes, Pending
<1>2. ASSUME NEW n \in Nodes, HumanResult(n)
      PROVE  Progress
  <2>1. n \notin Completed /\ n \notin SkippedNodes
    BY <1>2, HumanEffect, DispatchedNotSkipped DEF IInv
  <2>2. \A m \in Nodes : m # n => outcome'[m] = outcome[m]
    BY <1>2, HumanEffect
  <2> QED BY <1>0, <2>1, <2>2 DEF Progress, Completed, SkippedNodes, Pending
<1>3. CASE UNCHANGED outcome
  BY <1>0, <1>3 DEF Progress, Completed, SkippedNodes, Pending
<1> QED BY <1>1, <1>2, <1>3 DEF Next, vars, CompleteWorkflow, MarkWorkflowBlocked

\* Choices and decided joins survive a step that keeps the nodes dispatched.
LEMMA ChosenStays ==
  ASSUME Progress, NEW n, Chosen(n)
  PROVE  Chosen(n)'
BY DEF Progress, Chosen, In, FromStart, ConditionMatches

LEMMA JoinStays ==
  ASSUME Progress, NEW n, JoinDecided(n)
  PROVE  JoinDecided(n)'
<1>1. SkippedNodes \subseteq SkippedNodes' /\ Completed \subseteq Completed'
  BY SkippedGrow DEF Progress
<1> QED BY <1>1 DEF Progress, JoinDecided, In, FromStart

LEMMA StepKeepsPaths ==
  ASSUME IInv, [Next]_vars, again' = 0
  PROVE  AllChosen' /\ AllJoined'
<1>1. Progress
  BY StepProgress
<1>2. \A n \in Dispatched : Chosen(n) /\ JoinDecided(n)
  BY DEF IInv, AllChosen, AllJoined
<1>3. \A n \in Runnable : Chosen(n) /\ JoinDecided(n)
  BY ReadyIsChosen, ReadyJoinDecided DEF Runnable, JoinDecided
<1>4. \A n \in Dispatched' : n \in Dispatched \/ n \in Runnable
  <2>1. CASE RunRound
    BY <2>1, RoundEffect
  <2>2. ASSUME NEW n \in Nodes, HumanResult(n) PROVE Dispatched' = Dispatched
    BY <2>2, HumanEffect
  <2>3. CASE UNCHANGED rounds
    BY <2>3 DEF Dispatched
  <2> QED BY <2>1, <2>2, <2>3 DEF Next, vars, CompleteWorkflow, MarkWorkflowBlocked
<1>5. \A n \in Dispatched' : Chosen(n)' /\ JoinDecided(n)'
  BY <1>1, <1>2, <1>3, <1>4, ChosenStays, JoinStays
<1> QED BY <1>5 DEF AllChosen, AllJoined

LEMMA RoundKeeps ==
  ASSUME IInv, RunRound
  PROVE  TypeOK' /\ Bookkeeping' /\ OncePerNode'
<1>1. PICK result \in RoundResults(Runnable) :
        /\ outcome' = [n \in Nodes |-> IF n \in Runnable THEN result[n] ELSE outcome[n]]
        /\ \/ Finish("failed")
           \/ /\ \A n \in Runnable : result[n] # "failed"
              /\ node' = "human_execution" /\ UNCHANGED status
           \/ /\ \A n \in Runnable : result[n] \notin {"failed", "running"}
              /\ node' = "context_update" /\ UNCHANGED status
  BY DEF RunRound
<1>2. \A n \in Runnable : result[n] \in Outcomes \cup {"running", "failed"}
  BY DEF RoundResults
<1>3. Runnable \in SUBSET Nodes /\ (\A n \in Runnable : Kind[n] \in {"agent", "human", "condition"})
  BY DEF Runnable, ReadyNodes, Pending
<1>4. rounds \in Seq(SUBSET Nodes) /\ rounds' = Append(rounds, Runnable) /\ status = "running"
      /\ node # "human_execution" /\ graph' = graph /\ again' = again
  BY DEF RunRound, FlowRuns, IInv, TypeOK
<1>5. TypeOK'
  BY <1>1, <1>2, <1>3, <1>4 DEF IInv, TypeOK, Finish
<1>6. \A n \in Nodes : outcome[n] # "running"
  BY <1>4 DEF IInv, Bookkeeping
<1>7. Dispatched' = Dispatched \cup Runnable /\ Runnable \cap Dispatched = {}
  BY RoundEffect DEF IInv, Bookkeeping, Dispatched
<1>8. Bookkeeping'
  <2>1. \A n \in Nodes : outcome'[n] # "none" <=> n \in Dispatched'
    BY <1>1, <1>2, <1>7, OutcomesAssumption DEF IInv, Bookkeeping
  <2>2. \A n \in Dispatched' : Kind[n] \in {"agent", "human", "condition"}
    BY <1>3, <1>7 DEF IInv, Bookkeeping
  <2>3. status' = "running" => \A n \in Dispatched' : outcome'[n] \in Outcomes \cup {"running"}
    BY <1>1, <1>2, <1>4, <1>7 DEF IInv, Bookkeeping, Finish, Dispatched
  <2>4. \A n \in Nodes : outcome'[n] = "running" => rounds' # <<>> /\ n \in rounds'[Len(rounds')]
    <3>1. rounds' # <<>> /\ rounds'[Len(rounds')] = Runnable
      BY <1>4
    <3> QED BY <1>1, <1>6, <3>1
  <2>5. status' = "running" /\ node' # "human_execution" =>
          \A n \in Nodes : outcome'[n] # "running"
    BY <1>1, <1>6 DEF Finish
  <2> QED BY <2>1, <2>2, <2>3, <2>4, <2>5 DEF Bookkeeping
<1>9. OncePerNode'
  <2> SUFFICES ASSUME NEW i \in DOMAIN rounds', NEW j \in DOMAIN rounds', i # j
               PROVE  rounds'[i] \cap rounds'[j] = {}
    BY DEF OncePerNode
  <2>1. \A k \in DOMAIN rounds' :
          \/ k \in DOMAIN rounds /\ rounds'[k] = rounds[k] /\ rounds[k] \in SUBSET Nodes
          \/ k = Len(rounds) + 1 /\ rounds'[k] = Runnable
    BY <1>4
  <2>2. \A k \in DOMAIN rounds : rounds[k] \cap Runnable = {}
    BY <1>3, <1>7 DEF Dispatched
  <2> QED BY <2>1, <2>2 DEF IInv, OncePerNode
<1> QED BY <1>5, <1>8, <1>9

LEMMA HumanKeeps ==
  ASSUME IInv, NEW n \in Nodes, HumanResult(n), again' = 0
  PROVE  TypeOK' /\ Bookkeeping' /\ OncePerNode'
<1>1. rounds' = rounds /\ graph' = graph /\ status = "running" /\ outcome[n] = "running"
  BY FirstResult DEF HumanResult, IInv
<1>2. n \in Dispatched /\ Dispatched' = Dispatched
      /\ (\A m \in Nodes : m # n => outcome'[m] = outcome[m])
      /\ outcome'[n] \in Outcomes \cup {"failed", "blocked"}
  BY HumanEffect
<1>3. TypeOK'
  BY <1>1, AgainAssumption DEF IInv, TypeOK, HumanResult, Finish
<1>4. Bookkeeping'
  <2>1. \A m \in Nodes : outcome'[m] # "none" <=> m \in Dispatched'
    BY <1>2, OutcomesAssumption DEF IInv, Bookkeeping
  <2>2. \A m \in Nodes : outcome'[m] = "running" => m # n /\ outcome[m] = "running"
    BY <1>2, OutcomesAssumption
  <2>3. status' = "running" => outcome'[n] \in Outcomes
    BY <1>1 DEF HumanResult, Finish, IInv, TypeOK
  <2>4. status' = "running" => \A m \in Dispatched' : outcome'[m] \in Outcomes \cup {"running"}
    BY <1>1, <1>2, <2>3 DEF IInv, Bookkeeping, Dispatched
  <2>5. ASSUME status' = "running", node' # "human_execution"
        PROVE  \A m \in Nodes : outcome'[m] # "running"
    <3>1. \A i \in DOMAIN rounds : n \in rounds[i] => \A m \in rounds[i] : outcome'[m] # "running"
      <4>1. \A i \in DOMAIN rounds : IsFirst(n, i) => RoundDone(i, outcome')
        BY <2>5 DEF HumanResult, Finish
      <4> QED BY <4>1, AllAreFirst, RoundDoneIs DEF IInv
    <3>2. rounds # <<>> /\ n \in rounds[Len(rounds)] /\ Len(rounds) \in DOMAIN rounds
      BY <1>1 DEF IInv, Bookkeeping, TypeOK
    <3>3. \A m \in rounds[Len(rounds)] : outcome'[m] # "running"
      BY <3>1, <3>2
    <3> QED BY <2>2, <3>3 DEF IInv, Bookkeeping
  <2> QED BY <1>1, <1>2, <2>1, <2>2, <2>4, <2>5 DEF IInv, Bookkeeping
<1> QED BY <1>1, <1>3, <1>4 DEF IInv, OncePerNode

LEMMA NextIInv ==
  ASSUME IInv, [Next]_vars, again' = 0
  PROVE  IInv'
<1>1. AllChosen' /\ AllJoined'
  BY StepKeepsPaths
<1>2. TypeOK' /\ Bookkeeping' /\ OncePerNode'
  <2>1. CASE RunRound
    BY <2>1, RoundKeeps
  <2>2. ASSUME NEW n \in Nodes, HumanResult(n)
        PROVE  TypeOK' /\ Bookkeeping' /\ OncePerNode'
    BY <2>2, HumanKeeps
  <2>3. CASE CompleteWorkflow
    BY <2>3 DEF CompleteWorkflow, FlowRuns, Finish, IInv, TypeOK, Bookkeeping, OncePerNode, Dispatched
  <2>4. CASE MarkWorkflowBlocked
    BY <2>4 DEF MarkWorkflowBlocked, FlowRuns, Finish, IInv, TypeOK, Bookkeeping, OncePerNode, Dispatched
  <2>5. CASE UNCHANGED vars
    BY <2>5 DEF vars, IInv, TypeOK, Bookkeeping, OncePerNode, Dispatched
  <2> QED BY <2>1, <2>2, <2>3, <2>4, <2>5 DEF Next
<1> QED BY <1>1, <1>2 DEF IInv

-----------------------------------------------------------------------------
(* Whatever is posted again *)

(* A subtask of an agent or of a condition is completed while the task runs *)
(* and is never dispatched a second time.                                   *)
Executed ==
  /\ \A n \in Nodes : outcome[n] # "none" <=> n \in Dispatched
  /\ \A n \in Dispatched : Kind[n] \in {"agent", "human", "condition"}
  /\ status = "running" =>
       \A n \in Dispatched : Kind[n] # "human" => outcome[n] \in Outcomes
  /\ \A i, j \in DOMAIN rounds : i # j =>
       \A n \in rounds[i] \cap rounds[j] : Kind[n] = "human"

Inv == TypeOK /\ Executed /\ (again = 0 => IInv)

LEMMA InitInv == Init => Inv
<1>1. Init => Dispatched = {}
  BY DEF Init, Dispatched
<1> QED BY <1>1, InitIInv DEF Init, Inv, IInv, Executed

LEMMA RoundExecutes ==
  ASSUME TypeOK, Executed, RunRound
  PROVE  TypeOK' /\ Executed'
<1>1. PICK result \in RoundResults(Runnable) :
        /\ outcome' = [n \in Nodes |-> IF n \in Runnable THEN result[n] ELSE outcome[n]]
        /\ \/ Finish("failed")
           \/ /\ \A n \in Runnable : result[n] # "failed"
              /\ node' \in {"human_execution", "context_update"} /\ UNCHANGED status
  BY DEF RunRound
<1>2. \A n \in Runnable : /\ result[n] \in Outcomes \cup {"running", "failed"}
                          /\ result[n] = "running" => Kind[n] = "human"
  BY OutcomesAssumption DEF RoundResults, Runnable
<1>3. Runnable \in SUBSET Nodes /\ (\A n \in Runnable : Kind[n] \in {"agent", "human", "condition"})
      /\ Runnable \cap Completed = {}
  BY DEF Runnable, ReadyNodes, Pending
<1>4. rounds \in Seq(SUBSET Nodes) /\ rounds' = Append(rounds, Runnable) /\ status = "running"
      /\ node # "completion_judge" /\ graph' = graph /\ again' = again
  BY DEF RunRound, FlowRuns, TypeOK
<1>5. TypeOK'
  BY <1>1, <1>2, <1>3, <1>4 DEF TypeOK, Finish
<1>6. Dispatched' = Dispatched \cup Runnable
  BY <1>3, <1>4 DEF Dispatched
<1>7. \A n \in Nodes : outcome'[n] # "none" <=> n \in Dispatched'
  BY <1>1, <1>2, <1>6, OutcomesAssumption DEF Executed
<1>8. \A n \in Dispatched' : Kind[n] \in {"agent", "human", "condition"}
  BY <1>3, <1>6 DEF Executed
<1>9. status' = "running" => \A n \in Dispatched' : Kind[n] # "human" => outcome'[n] \in Outcomes
  BY <1>1, <1>2, <1>4, <1>6 DEF Executed, Finish, Dispatched
<1>10. ASSUME NEW i \in DOMAIN rounds', NEW j \in DOMAIN rounds', i # j,
              NEW n \in rounds'[i] \cap rounds'[j]
       PROVE  Kind[n] = "human"
  <2>1. \A k \in DOMAIN rounds' :
          \/ k \in DOMAIN rounds /\ rounds'[k] = rounds[k] /\ rounds[k] \in SUBSET Nodes
          \/ k = Len(rounds) + 1 /\ rounds'[k] = Runnable
    BY <1>4
  <2>2. \A k \in DOMAIN rounds : n \in rounds[k] \cap Runnable => Kind[n] = "human"
    BY <1>3, <1>4 DEF Dispatched, Executed, Completed
  <2> QED BY <1>10, <2>1, <2>2 DEF Executed
<1> QED BY <1>5, <1>7, <1>8, <1>9, <1>10 DEF Executed

LEMMA ResultExecutes ==
  ASSUME TypeOK, Executed, NEW n \in Nodes, HumanResult(n)
  PROVE  TypeOK' /\ Executed'
<1>1. rounds' = rounds /\ graph' = graph /\ status = "running" /\ Dispatched' = Dispatched
      /\ outcome[n] # "none"
  BY DEF HumanResult, Dispatched
<1>2. PICK d : /\ outcome' = [outcome EXCEPT ![n] = d]
               /\ \/ /\ d \in Outcomes /\ UNCHANGED status
                     /\ node' \in {"context_update", "human_execution"}
                  \/ d \in {"failed", "blocked"} /\ Finish(d)
  BY DEF HumanResult
<1>3. again' \in 0..MaxAgain
  BY AgainAssumption DEF HumanResult, TypeOK
<1>4. TypeOK'
  BY <1>1, <1>2, <1>3 DEF TypeOK, Finish
<1>5. \A m \in Nodes : outcome'[m] = IF m = n THEN d ELSE outcome[m]
  BY <1>2 DEF TypeOK
<1>6. \A m \in Nodes : outcome'[m] # "none" <=> m \in Dispatched'
  BY <1>1, <1>2, <1>5, OutcomesAssumption DEF Executed
<1>7. status' = "running" => \A m \in Dispatched' : Kind[m] # "human" => outcome'[m] \in Outcomes
  BY <1>1, <1>2, <1>5 DEF Executed, Finish, Dispatched
<1> QED BY <1>1, <1>4, <1>6, <1>7 DEF Executed

LEMMA NextInv == Inv /\ [Next]_vars => Inv'
<1> SUFFICES ASSUME Inv, [Next]_vars PROVE Inv'
  OBVIOUS
<1>1. TypeOK' /\ Executed'
  <2>1. CASE RunRound
    BY <2>1, RoundExecutes DEF Inv
  <2>2. ASSUME NEW n \in Nodes, HumanResult(n) PROVE TypeOK' /\ Executed'
    BY <2>2, ResultExecutes DEF Inv
  <2>3. CASE CompleteWorkflow
    BY <2>3 DEF CompleteWorkflow, FlowRuns, Finish, Inv, TypeOK, Executed, Dispatched
  <2>4. CASE MarkWorkflowBlocked
    BY <2>4 DEF MarkWorkflowBlocked, FlowRuns, Finish, Inv, TypeOK, Executed, Dispatched
  <2>5. CASE UNCHANGED vars
    BY <2>5 DEF vars, Inv, TypeOK, Executed, Dispatched
  <2> QED BY <2>1, <2>2, <2>3, <2>4, <2>5 DEF Next
<1>2. again' = 0 => IInv'
  BY AgainStays, NextIInv DEF Inv
<1> QED BY <1>1, <1>2 DEF Inv

\* The inductive invariant holds in every state of the runner.
THEOREM Invariance == Spec => []Inv
BY InitInv, NextInv, PTL DEF Spec

\* The record of the task keeps its type.
THEOREM TypeCorrect == Spec => []TypeOK
<1>1. Inv => TypeOK
  BY DEF Inv
<1> QED BY <1>1, Invariance, PTL

(* No graph, cyclic or not, and no result posted again makes the runner     *)
(* execute an agent or a condition twice; and no graph makes it ask a human *)
(* twice unless a result was posted again.                                  *)
THEOREM RunOnce == Spec => []NodesRunOnce
<1>1. Inv => NodesRunOnce
  <2> SUFFICES ASSUME Inv, NEW i \in DOMAIN rounds, NEW j \in DOMAIN rounds, i # j,
                      NEW n \in rounds[i] \cap rounds[j]
               PROVE  Kind[n] = "human" /\ again > 0
    BY DEF NodesRunOnce
  <2>1. Kind[n] = "human"
    BY DEF Inv, Executed
  <2>2. again # 0
    BY DEF Inv, IInv, OncePerNode
  <2>3. again \in Nat
    BY AgainAssumption DEF Inv, TypeOK
  <2> QED BY <2>1, <2>2, <2>3
<1> QED BY <1>1, Invariance, PTL

\* If no result is posted again, every executed node lies on a branch that
\* the decisions have chosen.
THEOREM LivePaths == Spec => []RunsOnLivePath
<1>1. Inv => RunsOnLivePath
  BY DEF Inv, IInv, AllChosen, Chosen, RunsOnLivePath
<1> QED BY <1>1, Invariance, PTL

\* If no result is posted again, every executed join without conditions has
\* waited for all its branches.
THEOREM JoinsDoWait == Spec => []JoinsWait
<1>1. Inv => JoinsWait
  BY DEF Inv, IInv, AllJoined, JoinDecided, JoinsWait
<1> QED BY <1>1, Invariance, PTL

\* Until a result is posted again, a skipped node stays skipped, whatever
\* completes later.
THEOREM SkipsAreFinal == Spec => SkippedForGood
<1>1. Inv /\ [Next]_vars => [again' = 0 => SkippedNodes \subseteq SkippedNodes']_vars
  BY AgainStays, StepProgress, SkippedGrow DEF Inv
<1> QED BY <1>1, Invariance, PTL DEF Spec, SkippedForGood

(* On a graph without cycles and loose ends the flow stops only when every  *)
(* node is executed or ruled out, also after results posted again: a task   *)
(* is never blocked while an end can still be reached.                      *)
THEOREM NothingForgotten == Spec => []EverythingDecided
<1>1. Inv => EverythingDecided
  <2> SUFFICES ASSUME Inv PROVE EverythingDecided
    OBVIOUS
  <2>1. \A n \in Nodes : Kind[n] = "end" => n \notin Completed
    BY OutcomesAssumption DEF Inv, Executed, Completed
  <2> QED BY <2>1, DecidedWhenDone DEF Inv
<1> QED BY <1>1, Invariance, PTL
-----------------------------------------------------------------------------
(* The flow as the service has it: the task as a row of TaskService, and    *)
(* what the operators of that module make of such a row.                    *)

Yes == TRUE
No == FALSE

Row(s, n, rs, w) ==
  [status |-> s, node |-> n, contract |-> Yes, active |-> 1, rounds |-> rs,
   awaiting |-> w, depctx |-> No]

Shown(S) ==
  [n \in HumanNodes |->
     IF n \notin S THEN "none" ELSE IF outcome[n] \in Outcomes THEN "succeeded" ELSE outcome[n]]
Rows == [i \in DOMAIN rounds |-> Shown(rounds[i])]

\* The changes of a row, one field at a time.
AtNode(v, n) == [v EXCEPT !.node = n]
WithRounds(v, rs) == [v EXCEPT !.rounds = rs]
Over(v, s, w) == [v EXCEPT !.status = s, !.node = "completion_judge", !.awaiting = w]
Asking(v, w) == [v EXCEPT !.node = "human_intervention", !.awaiting = w]

LEMMA RowAtNode ==
  ASSUME NEW s, NEW n, NEW rs, NEW w, NEW m
  PROVE  AtNode(Row(s, n, rs, w), m) = Row(s, m, rs, w)
BY DEF AtNode, Row

LEMMA RowWithRounds ==
  ASSUME NEW s, NEW n, NEW rs, NEW w, NEW rs2
  PROVE  WithRounds(Row(s, n, rs, w), rs2) = Row(s, n, rs2, w)
BY DEF WithRounds, Row

LEMMA RowAsking ==
  ASSUME NEW s, NEW n, NEW rs, NEW w, NEW x
  PROVE  Asking(Row(s, n, rs, w), x) = Row(s, "human_intervention", rs, x)
<1>1. PICK u : u = [Row(s, n, rs, w) EXCEPT !.node = "human_intervention"]
  OBVIOUS
<1>2. u = Row(s, "human_intervention", rs, w)
  BY <1>1 DEF Row
<1>3. [u EXCEPT !.awaiting = x] = Row(s, "human_intervention", rs, x)
  BY <1>2 DEF Row
<1> QED BY <1>1, <1>3 DEF Asking

LEMMA RowOver ==
  ASSUME NEW s, NEW n, NEW rs, NEW w, NEW x, NEW y
  PROVE  Over(Row(s, n, rs, w), x, y) = Row(x, "completion_judge", rs, y)
<1>1. PICK u : u = [Row(s, n, rs, w) EXCEPT !.status = x]
  OBVIOUS
<1>2. u = Row(x, n, rs, w)
  BY <1>1 DEF Row
<1>3. PICK u2 : u2 = [u EXCEPT !.node = "completion_judge"]
  OBVIOUS
<1>4. u2 = Row(x, "completion_judge", rs, w)
  BY <1>2, <1>3 DEF Row
<1>5. [u2 EXCEPT !.awaiting = y] = Row(x, "completion_judge", rs, y)
  BY <1>4 DEF Row
<1> QED BY <1>1, <1>3, <1>5 DEF Over

LEMMA ViewIsRow ==
  ASSUME TypeOK, OncePerNode, NEW w, w = (node = "human_intervention")
  PROVE  View = Row(status, node, Rows, w)
<1>1. \A i \in DOMAIN rounds : \A n \in rounds[i] : StatusIn(outcome, n, i) = outcome[n]
  BY StatusIsOutcome
<1>2. Rows = [i \in DOMAIN rounds |->
               [n \in HumanNodes |->
                  IF n \notin rounds[i] THEN "none"
                  ELSE IF StatusIn(outcome, n, i) \in Outcomes THEN "succeeded"
                  ELSE StatusIn(outcome, n, i)]]
  BY <1>1 DEF Rows, Shown
<1> QED BY <1>2 DEF View, Row, Yes, No

LEMMA NextViewIsRow ==
  ASSUME TypeOK', OncePerNode', NEW w, w = (node' = "human_intervention")
  PROVE  View' = Row(status', node', Rows', w)
<1>1. \A i \in DOMAIN rounds' : \A n \in rounds'[i] : StatusIn(outcome, n, i)' = outcome'[n]
  BY StatusIsOutcomeNext
<1>2. Rows' = [i \in DOMAIN rounds |->
               [n \in HumanNodes |->
                  IF n \notin rounds[i] THEN "none"
                  ELSE IF StatusIn(outcome, n, i) \in Outcomes THEN "succeeded"
                  ELSE StatusIn(outcome, n, i)]]'
  BY <1>1 DEF Rows, Shown
<1> QED BY <1>2 DEF View, Row, Yes, No

-----------------------------------------------------------------------------
(* What the service makes of a row. *)

LEMMA FinalizeRow ==
  ASSUME NEW s, NEW n, NEW rs, NEW w, NEW v,
         v = Row(s, n, rs, w), NEW x,
         x # "succeeded" \/ ~Service!HasBlocking(v)
  PROVE  Service!Finalize(v, x, No) = Row(x, "completion_judge", rs, No)
<1>1. Service!Finalize(v, x, FALSE) = Over(v, x, FALSE)
  BY DEF Service!Finalize, Over
<1>2. Over(v, x, No) = Row(x, "completion_judge", rs, No)
  BY ONLY v = Row(s, n, rs, w), RowOver
<1> QED BY <1>1, <1>2 DEF No

LEMMA FinalizeAsks ==
  ASSUME NEW s, NEW n, NEW rs, NEW w, NEW v,
         v = Row(s, n, rs, w)
  PROVE  Service!Finalize(v, "succeeded", Yes) = Row(s, "human_intervention", rs, Yes)
<1>1. Service!Finalize(v, "succeeded", TRUE) = Asking(v, TRUE)
  BY ONLY TRUE DEF Service!Finalize, Asking
<1>2. Asking(v, Yes) = Row(s, "human_intervention", rs, Yes)
  BY ONLY v = Row(s, n, rs, w), RowAsking
<1> QED BY <1>1, <1>2 DEF Yes

LEMMA AddRoundRow ==
  ASSUME NEW s, NEW n, NEW rs, NEW w, NEW v,
         v = Row(s, n, rs, w), NEW H
  PROVE  Service!AddRound(v, H) = Row(s, n, Append(rs, Service!NewRound(H)), w)
<1>1. v.rounds = rs
  BY DEF Row
<1>2. PICK x : x = Append(rs, Service!NewRound(H))
  OBVIOUS
<1>3. Service!AddRound(v, H) = WithRounds(v, x)
  BY <1>1, <1>2 DEF Service!AddRound, WithRounds
<1> QED BY ONLY <1>2, <1>3, v = Row(s, n, rs, w), RowWithRounds

(* What a flow that does not wait for a human may give.                     *)
LEMMA MayGive ==
  ASSUME NEW v, v.node # "human_execution"
  PROVE  Service!FlowResults("t", v) =
           Service!Pauses("t", v) \cup Service!FailedRounds("t", v)
             \cup Service!Proposals("t", v) \cup Service!DeadEnds("t", v)
BY DEF Service!FlowResults, Service!WaitsForHuman

-----------------------------------------------------------------------------
(* A flow has at most as many rounds as its template has nodes.             *)

RoundsFilled == \A i \in DOMAIN rounds : rounds[i] # {}

LEMMA DisjointAreFew ==
  ASSUME NEW rs \in Seq(SUBSET Nodes), \A i \in DOMAIN rs : rs[i] # {},
         \A i, j \in DOMAIN rs : i # j => rs[i] \cap rs[j] = {}
  PROVE  Len(rs) <= Cardinality(Nodes) /\ Cardinality(Nodes) \in Nat
<1> DEFINE f == [i \in 1..Len(rs) |-> CHOOSE n \in rs[i] : TRUE]
<1>1. \A i \in 1..Len(rs) : f[i] \in rs[i] /\ rs[i] \subseteq Nodes
  OBVIOUS
<1>2. f \in Injection(1..Len(rs), Nodes)
  <2>1. f \in [1..Len(rs) -> Nodes]
    BY <1>1
  <2>2. \A i, j \in 1..Len(rs) : f[i] = f[j] => i = j
    BY <1>1
  <2> HIDE DEF f
  <2> QED BY <2>1, <2>2, Fun_IsInj
<1> HIDE DEF f
<1>3. Cardinality(1..Len(rs)) <= Cardinality(Nodes)
  BY <1>2, NodesAssumption, FS_Injection
<1>4. Cardinality(1..Len(rs)) = Len(rs)
  <2>1. Len(rs) \in Nat /\ Len(rs) \in Int /\ 1 \in Int
    OBVIOUS
  <2>2. Cardinality(1..Len(rs)) = IF 1 > Len(rs) THEN 0 ELSE Len(rs) - 1 + 1
    BY ONLY <2>1, FS_Interval
  <2> QED BY <2>1, <2>2
<1>5. Cardinality(Nodes) \in Nat
  BY NodesAssumption, FS_CardinalityType
<1> QED BY <1>3, <1>4, <1>5

LEMMA FewRoundsNext ==
  ASSUME TypeOK', OncePerNode', RoundsFilled'
  PROVE  Len(rounds') <= Cardinality(Nodes) /\ Cardinality(Nodes) \in Nat
BY DisjointAreFew DEF TypeOK, OncePerNode, RoundsFilled

LEMMA StepFilled ==
  ASSUME TypeOK, RoundsFilled, [Next]_vars
  PROVE  RoundsFilled'
<1>1. CASE UNCHANGED rounds
  BY <1>1 DEF RoundsFilled
<1>2. CASE RunRound
  BY <1>2 DEF RunRound, RoundsFilled, TypeOK, Runnable, ReadyNodes, Pending
<1> QED BY <1>1, <1>2 DEF Next, vars, CompleteWorkflow, MarkWorkflowBlocked, HumanResult

-----------------------------------------------------------------------------
(* The rows of a round. *)

SubtaskStates == {"none", "running", "succeeded", "failed", "blocked"}

LEMMA RowsType ==
  ASSUME TypeOK
  PROVE  /\ Rows \in Seq([HumanNodes -> SubtaskStates])
         /\ Len(Rows) = Len(rounds) /\ DOMAIN Rows = 1..Len(rounds) /\ Len(rounds) \in Nat
         /\ \A i \in 1..Len(rounds) : Rows[i] = Shown(rounds[i])
<1>1. Len(rounds) \in Nat /\ DOMAIN rounds = 1..Len(rounds)
  BY DEF TypeOK
<1>2. \A S : Shown(S) \in [HumanNodes -> SubtaskStates]
  BY DEF Shown, TypeOK, SubtaskStates, HumanNodes
<1>3. Rows \in [1..Len(rounds) -> [HumanNodes -> SubtaskStates]]
  BY <1>1, <1>2 DEF Rows
<1> QED BY <1>1, <1>3 DEF Rows

LEMMA RowsTypeNext ==
  ASSUME TypeOK'
  PROVE  /\ Rows' \in Seq([HumanNodes -> SubtaskStates])
         /\ Len(Rows') = Len(rounds') /\ DOMAIN Rows' = 1..Len(rounds') /\ Len(rounds') \in Nat
         /\ (\A i \in 1..Len(rounds) : Rows[i] = Shown(rounds[i]))'
<1>1. Len(rounds') \in Nat /\ DOMAIN rounds' = 1..Len(rounds')
  BY DEF TypeOK
<1>2. \A S : Shown(S)' \in [HumanNodes -> SubtaskStates]
  BY DEF Shown, TypeOK, SubtaskStates, HumanNodes
<1>3. Rows' \in [1..Len(rounds') -> [HumanNodes -> SubtaskStates]]
  BY <1>1, <1>2 DEF Rows
<1> QED BY <1>1, <1>3 DEF Rows

LEMMA NothingBlocks ==
  ASSUME TypeOK, OncePerNode,
         \A n \in Nodes : outcome[n] \notin {"running", "failed", "blocked"}
  PROVE  ~Service!HasBlocking(View)
<1>1. \A i \in DOMAIN rounds : \A n \in HumanNodes : Shown(rounds[i])[n] \notin {"running", "failed", "blocked"}
  BY DEF Shown, HumanNodes
<1>2. View.rounds = Rows
  <2>1. PICK w : w = (node = "human_intervention")
    OBVIOUS
  <2>2. View = Row(status, node, Rows, w)
    BY <2>1, ViewIsRow
  <2> QED BY <2>2 DEF Row
<1>3. DOMAIN Rows = DOMAIN rounds /\ \A i \in DOMAIN rounds : Rows[i] = Shown(rounds[i])
  BY DEF Rows
<1> QED BY <1>1, <1>2, <1>3 DEF Service!HasBlocking

(* The step that ends the loop leaves the rounds as they are.               *)
LEMMA SameRows == ASSUME UNCHANGED <<outcome, rounds>> PROVE Rows' = Rows
BY DEF Rows, Shown

LEMMA CompleteExpected ==
  ASSUME IInv, IInv', CompleteWorkflow
  PROVE  View' \in RunMayGive
<1>1. PICK rs, v : rs = Rows /\ v = View
  OBVIOUS
<1>2. /\ node \in {"dispatch_decision", "context_update"} /\ status = "running"
      /\ UNCHANGED <<outcome, rounds>> /\ TypeOK
  BY DEF CompleteWorkflow, FlowRuns, IInv
<1>3. v = Row("running", node, rs, No)
  <2>1. No = (node = "human_intervention")
    BY <1>1, <1>2 DEF No
  <2> QED BY <1>1, <1>2, <2>1, ViewIsRow DEF IInv
<1>4. Service!Proposals("t", v) \subseteq RunMayGive /\ v \in Service!Worked("t", v)
  <2>1. v.node = node
    BY <1>3 DEF Row
  <2> QED BY <1>1, <1>2, <2>1, MayGive DEF RunMayGive, Service!Worked
<1>5. \A gaps \in BOOLEAN : Service!Finalize(v, "succeeded", gaps) \in RunMayGive
  BY <1>4 DEF Service!Proposals
<1>6. CASE Finish("succeeded")
  <2>1. \A n \in Nodes : outcome[n] \notin {"running", "failed", "blocked"}
    BY <1>2, OutcomesAssumption DEF IInv, Bookkeeping, TypeOK
  <2>2. ~Service!HasBlocking(v)
    BY <1>1, <1>2, <2>1, NothingBlocks DEF IInv
  <2>3. Service!Finalize(v, "succeeded", No) = Row("succeeded", "completion_judge", rs, No)
    BY ONLY <1>1, <1>3, <2>2, FinalizeRow
  <2>4. View' = Row("succeeded", "completion_judge", rs, No)
    <3>1. node' = "completion_judge" /\ status' = "succeeded" /\ Rows' = rs
      BY <1>1, <1>2, <1>6, SameRows DEF Finish
    <3>2. No = (node' = "human_intervention")
      BY <1>1, <3>1 DEF No
    <3> QED BY <1>1, <3>1, <3>2, NextViewIsRow DEF IInv
  <2> QED BY <1>5, <2>3, <2>4 DEF No
<1>7. CASE node' = "human_intervention" /\ UNCHANGED status
  <2>1. Service!Finalize(v, "succeeded", Yes) = Row("running", "human_intervention", rs, Yes)
    BY ONLY <1>1, <1>3, FinalizeAsks
  <2>2. View' = Row("running", "human_intervention", rs, Yes)
    <3>1. Yes = (node' = "human_intervention") /\ Rows' = rs
      BY <1>1, <1>2, <1>7, SameRows DEF Yes
    <3> QED BY <1>1, <1>2, <1>7, <3>1, NextViewIsRow DEF IInv
  <2> QED BY <1>5, <2>1, <2>2 DEF Yes
<1> QED BY <1>6, <1>7 DEF CompleteWorkflow

LEMMA BlockedExpected ==
  ASSUME IInv, IInv', MarkWorkflowBlocked
  PROVE  View' \in RunMayGive
<1>1. PICK rs, v : rs = Rows /\ v = View
  OBVIOUS
<1>2. /\ node \in {"dispatch_decision", "context_update"} /\ status = "running"
      /\ node' = "completion_judge" /\ status' = "blocked" /\ Rows' = rs
  BY <1>1, SameRows DEF MarkWorkflowBlocked, FlowRuns, Finish
<1>3. v = Row("running", node, rs, No)
  <2>1. No = (node = "human_intervention")
    BY <1>1, <1>2 DEF No
  <2> QED BY <1>1, <1>2, <2>1, ViewIsRow DEF IInv
<1>4. Service!DeadEnds("t", v) \subseteq RunMayGive
  <2>1. v.node = node
    BY <1>3 DEF Row
  <2> QED BY <1>1, <1>2, <2>1, MayGive DEF RunMayGive
<1>5. Service!Finalize(v, "blocked", No) \in RunMayGive
  BY <1>4 DEF Service!DeadEnds, No
<1>6. Service!Finalize(v, "blocked", No) = Row("blocked", "completion_judge", rs, No)
  BY ONLY <1>1, <1>3, FinalizeRow
<1>7. View' = Row("blocked", "completion_judge", rs, No)
  <2>1. No = (node' = "human_intervention")
    BY <1>1, <1>2 DEF No
  <2> QED BY <1>1, <1>2, <2>1, NextViewIsRow DEF IInv
<1> QED BY <1>1, <1>5, <1>6, <1>7

-----------------------------------------------------------------------------
(* A round. *)

(* The rows of the rounds before stay, the new one is that of its humans.   *)
LEMMA RoundRows ==
  ASSUME IInv, RunRound, TypeOK', NEW H, H = {n \in HumanNodes : n \in Runnable}
  PROVE  Rows' = Append(Rows, Service!NewRound(H))
<1>1. PICK result \in RoundResults(Runnable) :
        outcome' = [n \in Nodes |-> IF n \in Runnable THEN result[n] ELSE outcome[n]]
  BY DEF RunRound
<1>2. \A n \in H : outcome'[n] = "running"
  BY <1>1 DEF RoundResults, HumanNodes
<1>3. rounds' = Append(rounds, Runnable) /\ rounds \in Seq(SUBSET Nodes) /\ Runnable \in SUBSET Nodes
  BY DEF RunRound, IInv, TypeOK, Runnable, ReadyNodes, Pending
<1>4. ASSUME NEW i \in 1..Len(rounds) PROVE Rows'[i] = Rows[i]
  <2>1. i \in DOMAIN rounds' /\ rounds'[i] = rounds[i]
    BY <1>3
  <2>2. \A n \in rounds[i] : outcome'[n] = outcome[n]
    <3>1. \A n \in rounds[i] : n \in Dispatched
      BY <1>3 DEF Dispatched
    <3>2. \A n \in Dispatched : n \in Nodes /\ n \notin Runnable
      BY RoundEffect DEF IInv, Bookkeeping, Dispatched
    <3> QED BY <3>1, <3>2, RoundEffect
  <2>3. Rows'[i] = [n \in HumanNodes |->
          IF n \notin rounds[i] THEN "none" ELSE IF outcome'[n] \in Outcomes THEN "succeeded" ELSE outcome'[n]]
    BY <2>1 DEF Rows, Shown
  <2>4. Rows[i] = [n \in HumanNodes |->
          IF n \notin rounds[i] THEN "none" ELSE IF outcome[n] \in Outcomes THEN "succeeded" ELSE outcome[n]]
    BY <1>3 DEF Rows, Shown
  <2> QED BY <2>2, <2>3, <2>4
<1>5. Rows'[Len(rounds) + 1] = Service!NewRound(H)
  <2>1. Len(rounds) + 1 \in DOMAIN rounds' /\ rounds'[Len(rounds) + 1] = Runnable
    BY <1>3
  <2>2. Rows'[Len(rounds) + 1] = [n \in HumanNodes |->
          IF n \notin Runnable THEN "none" ELSE IF outcome'[n] \in Outcomes THEN "succeeded" ELSE outcome'[n]]
    BY <2>1 DEF Rows, Shown
  <2>3. "running" \notin Outcomes
    BY OutcomesAssumption
  <2> QED BY <1>2, <2>2, <2>3 DEF Service!NewRound
<1>6. Len(rounds') = Len(rounds) + 1
  BY <1>3
<1>7. Rows \in Seq([HumanNodes -> SubtaskStates]) /\ Rows' \in Seq([HumanNodes -> SubtaskStates])
      /\ Len(Rows) = Len(rounds) /\ Len(Rows') = Len(rounds') /\ Len(rounds) \in Nat
  BY RowsType, RowsTypeNext DEF IInv
<1> QED
  <2>1. PICK rs, rs2, x, S : rs = Rows /\ rs2 = Rows' /\ x = Service!NewRound(H)
                             /\ S = [HumanNodes -> SubtaskStates]
    OBVIOUS
  <2>2. rs \in Seq(S) /\ rs2 \in Seq(S) /\ Len(rs2) = Len(rs) + 1 /\ rs2[Len(rs) + 1] = x
        /\ \A i \in 1..Len(rs) : rs2[i] = rs[i]
    BY <1>4, <1>5, <1>6, <1>7, <2>1
  <2>3. x \in S
    BY <2>2
  <2>4. rs2 = Append(rs, x)
    BY ONLY <2>2, <2>3
  <2> QED BY <2>1, <2>4

LEMMA RoundExpected ==
  ASSUME IInv, IInv', RoundsFilled, RoundsFilled', RunRound
  PROVE  View' \in RunMayGive
<1>1. PICK rs, v, H : rs = Rows /\ v = View /\ H = {n \in HumanNodes : n \in Runnable}
  OBVIOUS
<1>2. PICK rs2 : rs2 = Append(rs, Service!NewRound(H))
  OBVIOUS
<1>3. /\ node \in {"dispatch_decision", "context_update"} /\ status = "running" /\ Rows' = rs2
  BY <1>1, <1>2, RoundRows DEF RunRound, FlowRuns, IInv
<1>4. v = Row("running", node, rs, No)
  <2>1. No = (node = "human_intervention")
    BY <1>3 DEF No
  <2> QED BY <1>1, <1>3, <2>1, ViewIsRow DEF IInv
<1>5. v.rounds = rs /\ v.node = node
  BY <1>4 DEF Row
<1>6. Service!CanGrow("t", v)
  <2>1. Len(rounds') <= Cardinality(Nodes) /\ Cardinality(Nodes) \in Nat
    <3>1. TypeOK' /\ OncePerNode' /\ RoundsFilled'
      BY DEF IInv
    <3> QED BY <3>1, FewRoundsNext
  <2>2. Len(rounds') = Len(rounds) + 1 /\ Len(rounds) \in Nat /\ Len(rs) = Len(rounds)
    BY <1>1, RowsType DEF IInv, TypeOK, RunRound
  <2> QED BY <1>5, <2>1, <2>2 DEF Service!CanGrow
<1>7. Service!AddRound(v, H) = Row("running", node, rs2, No)
  BY ONLY <1>2, <1>4, AddRoundRow
<1>8. Service!Pauses("t", v) \subseteq RunMayGive /\ Service!FailedRounds("t", v) \subseteq RunMayGive
      /\ [Service!AddRound(v, {}) EXCEPT !.node = "context_update"] \in RunMayGive
  BY <1>1, <1>3, <1>5, MayGive DEF RunMayGive
<1>9. H \in SUBSET HumanNodes
  BY <1>1
<1>10. PICK result \in RoundResults(Runnable) :
         LET some(what) == \E n \in Runnable : result[n] = what IN
         \/ some("failed") /\ Finish("failed")
         \/ /\ ~some("failed") /\ some("running")
            /\ node' = "human_execution" /\ UNCHANGED status
         \/ /\ ~some("failed") /\ ~some("running")
            /\ node' = "context_update" /\ UNCHANGED status
  BY DEF RunRound
<1>11. CASE Finish("failed")
  <2>1. Service!Finalize(Service!AddRound(v, H), "failed", FALSE) \in RunMayGive
    BY <1>6, <1>8, <1>9 DEF Service!FailedRounds
  <2>2. Service!Finalize(Service!AddRound(v, H), "failed", No) = Row("failed", "completion_judge", rs2, No)
    <3>1. PICK u : u = Service!AddRound(v, H)
      OBVIOUS
    <3>2. Service!Finalize(u, "failed", No) = Row("failed", "completion_judge", rs2, No)
      BY ONLY <1>7, <3>1, FinalizeRow
    <3> QED BY <3>1, <3>2
  <2>3. View' = Row("failed", "completion_judge", rs2, No)
    <3>1. No = (node' = "human_intervention")
      BY <1>11 DEF Finish, No
    <3> QED BY <1>3, <1>11, <3>1, NextViewIsRow DEF Finish, IInv
  <2> QED BY <2>1, <2>2, <2>3 DEF No
<1>12. CASE node' = "human_execution" /\ UNCHANGED status /\ \E n \in Runnable : result[n] = "running"
  <2>1. H # {}
    <3>1. PICK n \in Runnable : result[n] = "running"
      BY <1>12
    <3>2. Kind[n] = "human" /\ n \in Nodes
      BY <3>1, OutcomesAssumption DEF RoundResults, Runnable, ReadyNodes, Pending
    <3> QED BY <1>1, <3>1, <3>2 DEF HumanNodes
  <2>2. [Service!AddRound(v, H) EXCEPT !.node = "human_execution"] \in RunMayGive
    BY <1>6, <1>8, <1>9, <2>1 DEF Service!Pauses
  <2>3. [Service!AddRound(v, H) EXCEPT !.node = "human_execution"] = Row("running", "human_execution", rs2, No)
    <3>1. AtNode(Service!AddRound(v, H), "human_execution") = Row("running", "human_execution", rs2, No)
      BY ONLY <1>7, RowAtNode
    <3> QED BY <3>1 DEF AtNode
  <2>4. View' = Row("running", "human_execution", rs2, No)
    <3>1. No = (node' = "human_intervention")
      BY <1>12 DEF No
    <3> QED BY <1>3, <1>12, <3>1, NextViewIsRow DEF IInv
  <2> QED BY <2>2, <2>3, <2>4
<1>13. CASE node' = "context_update" /\ UNCHANGED status /\ ~\E n \in Runnable : result[n] = "running"
  <2>1. H = {}
    BY <1>1, <1>13 DEF RoundResults, HumanNodes
  <2>2. [Service!AddRound(v, {}) EXCEPT !.node = "context_update"] = Row("running", "context_update", rs2, No)
    <3>1. AtNode(Service!AddRound(v, H), "context_update") = Row("running", "context_update", rs2, No)
      BY ONLY <1>7, RowAtNode
    <3> QED BY <2>1, <3>1 DEF AtNode
  <2>3. View' = Row("running", "context_update", rs2, No)
    <3>1. No = (node' = "human_intervention")
      BY <1>13 DEF No
    <3> QED BY <1>3, <1>13, <3>1, NextViewIsRow DEF IInv
  <2> QED BY <1>8, <2>2, <2>3
<1> QED BY <1>10, <1>11, <1>12, <1>13

-----------------------------------------------------------------------------
(* A human's result. *)

OnlyHumansAreOpen == \A n \in Nodes : outcome[n] = "running" => Kind[n] = "human"

LEMMA StepOpen ==
  ASSUME IInv, OnlyHumansAreOpen, [Next]_vars, again' = 0
  PROVE  OnlyHumansAreOpen'
<1>1. CASE UNCHANGED outcome
  BY <1>1 DEF OnlyHumansAreOpen
<1>2. CASE RunRound
  <2>1. PICK result \in RoundResults(Runnable) :
          outcome' = [n \in Nodes |-> IF n \in Runnable THEN result[n] ELSE outcome[n]]
    BY <1>2 DEF RunRound
  <2>2. \A n \in Nodes \cap Runnable : result[n] = "running" => Kind[n] = "human"
    BY OutcomesAssumption DEF RoundResults, Runnable
  <2> QED BY <2>1, <2>2 DEF OnlyHumansAreOpen
<1>3. ASSUME NEW n \in Nodes, HumanResult(n)
      PROVE  OnlyHumansAreOpen'
  <2>1. \A m \in Nodes : m # n => outcome'[m] = outcome[m]
    BY <1>3, HumanEffect
  <2>2. outcome'[n] # "running"
    BY <1>3, HumanEffect, OutcomesAssumption
  <2> QED BY <2>1, <2>2 DEF OnlyHumansAreOpen
<1> QED BY <1>1, <1>2, <1>3 DEF Next, vars, CompleteWorkflow, MarkWorkflowBlocked

Stored(rs, i, n, r) == [rs EXCEPT ![i][n] = r]
Posted(v, i, n, r) == [v EXCEPT !.rounds[i][n] = r]

LEMMA RowPosted ==
  ASSUME NEW s, NEW m, NEW rs, NEW w, NEW i, NEW n, NEW r
  PROVE  Posted(Row(s, m, rs, w), i, n, r) = Row(s, m, Stored(rs, i, n, r), w)
BY DEF Posted, Row, Stored

(* The result is stored in the row of its round and in no other.            *)
LEMMA ResultRows ==
  ASSUME IInv, TypeOK', NEW n \in HumanNodes, HumanResult(n), again' = 0, NEW i \in DOMAIN rounds,
         n \in rounds[i], NEW r,
         r = IF outcome'[n] \in Outcomes THEN "succeeded" ELSE outcome'[n]
  PROVE  Rows' = Stored(Rows, i, n, r)
<1>1. n \in Nodes /\ rounds' = rounds
  BY DEF HumanNodes, HumanResult
<1>2. \A m \in Nodes : m # n => outcome'[m] = outcome[m]
  BY <1>1, HumanEffect
<1>3. \A j \in DOMAIN rounds : j # i => n \notin rounds[j]
  BY DEF IInv, OncePerNode
<1>4. \A j \in DOMAIN rounds : Rows'[j] = [m \in HumanNodes |->
        IF m \notin rounds[j] THEN "none" ELSE IF outcome'[m] \in Outcomes THEN "succeeded" ELSE outcome'[m]]
  BY <1>1 DEF Rows, Shown
<1>5. \A j \in DOMAIN rounds : Rows[j] = [m \in HumanNodes |->
        IF m \notin rounds[j] THEN "none" ELSE IF outcome[m] \in Outcomes THEN "succeeded" ELSE outcome[m]]
  BY DEF Rows, Shown
<1>6. HumanNodes \subseteq Nodes
  BY DEF HumanNodes
<1>7. \A j \in DOMAIN rounds : j # i => Rows'[j] = Rows[j]
  <2> SUFFICES ASSUME NEW j \in DOMAIN rounds, j # i
               PROVE  Rows'[j] = Rows[j]
    OBVIOUS
  <2>1. \A m \in HumanNodes : m \in rounds[j] => outcome'[m] = outcome[m]
    BY <1>2, <1>3, <1>6
  <2>2. Rows'[j] = [m \in HumanNodes |->
          IF m \notin rounds[j] THEN "none" ELSE IF outcome'[m] \in Outcomes THEN "succeeded" ELSE outcome'[m]]
    BY <1>4
  <2>3. Rows[j] = [m \in HumanNodes |->
          IF m \notin rounds[j] THEN "none" ELSE IF outcome[m] \in Outcomes THEN "succeeded" ELSE outcome[m]]
    BY <1>5
  <2> QED BY ONLY <2>1, <2>2, <2>3
<1>8. Rows'[i] = [Rows[i] EXCEPT ![n] = r]
  <2>1. PICK f, g : f = Rows[i] /\ g = Rows'[i]
    OBVIOUS
  <2>2. g = [m \in HumanNodes |->
          IF m \notin rounds[i] THEN "none" ELSE IF outcome'[m] \in Outcomes THEN "succeeded" ELSE outcome'[m]]
    BY <1>4, <2>1
  <2>3. f = [m \in HumanNodes |->
          IF m \notin rounds[i] THEN "none" ELSE IF outcome[m] \in Outcomes THEN "succeeded" ELSE outcome[m]]
    BY <1>5, <2>1
  <2>4. g = [m \in HumanNodes |-> g[m]] /\ f = [m \in HumanNodes |-> f[m]]
    BY ONLY <2>2, <2>3
  <2>5. g[n] = r
    BY ONLY <2>2, n \in HumanNodes, n \in rounds[i],
            r = IF outcome'[n] \in Outcomes THEN "succeeded" ELSE outcome'[n]
  <2>6. \A m \in HumanNodes : m # n => g[m] = f[m]
    BY ONLY <1>2, <1>6, <2>2, <2>3
  <2>7. g = [f EXCEPT ![n] = r]
    BY ONLY <2>4, <2>5, <2>6
  <2> QED BY <2>1, <2>7
<1>9. Rows' = [j \in DOMAIN rounds |-> Rows'[j]] /\ Rows = [j \in DOMAIN rounds |-> Rows[j]]
  BY <1>1 DEF Rows
<1> QED BY <1>7, <1>8, <1>9 DEF Stored

LEMMA ResultExpected ==
  ASSUME IInv, IInv', OnlyHumansAreOpen', NEW n \in HumanNodes, HumanResult(n), again' = 0,
         NEW i \in DOMAIN rounds, n \in rounds[i]
  PROVE  View' \in ResultMayGive(i, n)
<1>1. PICK rs, v : rs = Rows /\ v = View
  OBVIOUS
<1>2. n \in Nodes /\ rounds' = rounds /\ status = "running" /\ outcome[n] = "running"
  BY FirstResult DEF HumanNodes, HumanResult, IInv
<1>3. node = "human_execution"
  BY <1>2 DEF IInv, Bookkeeping
<1>4. v = Row("running", "human_execution", rs, No)
  <2>1. No = (node = "human_intervention")
    BY <1>1, <1>3 DEF No
  <2> QED BY <1>1, <1>2, <1>3, <2>1, ViewIsRow DEF IInv
<1>5. PICK r : r = IF outcome'[n] \in Outcomes THEN "succeeded" ELSE outcome'[n]
  OBVIOUS
<1>6. PICK rs2 : rs2 = Stored(rs, i, n, r)
  OBVIOUS
<1>7. Rows' = rs2
  BY <1>1, <1>5, <1>6, ResultRows DEF IInv
<1>8. PICK u : u = Posted(v, i, n, r)
  OBVIOUS
<1>9. u = Row("running", "human_execution", rs2, No)
  BY ONLY <1>4, <1>6, <1>8, RowPosted
<1>10. outcome'[n] \in Outcomes \cup {"failed", "blocked"} /\ outcome \in [Nodes -> AllOutcomes]
  BY <1>2, HumanEffect DEF IInv, TypeOK, AllOutcomes
<1>11. CASE Finish(outcome'[n]) /\ outcome'[n] \in {"failed", "blocked"}
  <2>1. r = outcome'[n]
    BY <1>5, <1>11, OutcomesAssumption
  <2>2. PICK x : x = [u EXCEPT !.node = "context_update"]
    OBVIOUS
  <2>3. x = Row("running", "context_update", rs2, No)
    <3>1. AtNode(u, "context_update") = Row("running", "context_update", rs2, No)
      BY ONLY <1>9, RowAtNode
    <3> QED BY <2>2, <3>1 DEF AtNode
  <2>4. Service!Finalize(x, r, No) = Row(r, "completion_judge", rs2, No)
    <3>1. r # "succeeded"
      BY <1>11, <2>1
    <3> QED BY ONLY <2>3, <3>1, FinalizeRow
  <2>5. Service!Finalize(x, r, FALSE) \in ResultMayGive(i, n)
    BY <1>1, <1>8, <1>11, <2>1, <2>2 DEF ResultMayGive, Posted
  <2>6. View' = Row(r, "completion_judge", rs2, No)
    <3>1. No = (node' = "human_intervention")
      BY <1>11 DEF Finish, No
    <3> QED BY <1>7, <1>11, <2>1, <3>1, NextViewIsRow DEF Finish, IInv
  <2> QED BY <2>4, <2>5, <2>6 DEF No
<1>12. CASE outcome'[n] \in Outcomes /\ UNCHANGED status
            /\ node' = IF \A j \in DOMAIN rounds : IsFirst(n, j) => RoundDone(j, outcome')
                       THEN "context_update" ELSE "human_execution"
  <2>1. r = "succeeded"
    BY <1>5, <1>12
  <2>2. (\A j \in DOMAIN rounds : IsFirst(n, j) => RoundDone(j, outcome'))
          <=> RoundDone(i, outcome')
    BY AllAreFirst DEF IInv, OncePerNode
  <2>3. RoundDone(i, outcome') <=> ~Service!RoundHasRunningSubtasks(u, i)
    <3>1. u.rounds = rs2
      BY <1>9 DEF Row
    <3>2. Service!RoundHasRunningSubtasks(u, i) <=> \E m \in HumanNodes : rs2[i][m] = "running"
      BY <3>1 DEF Service!RoundHasRunningSubtasks, Service!Running
    <3>3. rs2[i] = [m \in HumanNodes |->
            IF m \notin rounds[i] THEN "none" ELSE IF outcome'[m] \in Outcomes THEN "succeeded" ELSE outcome'[m]]
      BY <1>2, <1>7 DEF Rows, Shown
    <3>4. \A m \in rounds[i] : outcome'[m] = "running" => m \in HumanNodes
      <4>1. rounds[i] \subseteq Nodes
        BY DEF IInv, TypeOK
      <4> QED BY <4>1 DEF HumanNodes, OnlyHumansAreOpen
    <3>5. RoundDone(i, outcome') <=> \A m \in rounds[i] : outcome'[m] # "running"
      BY RoundDoneIs DEF IInv
    <3> QED BY <3>2, <3>3, <3>4, <3>5, OutcomesAssumption
  <2>4. PICK x : x = [u EXCEPT !.node = node']
    OBVIOUS
  <2>5. x \in ResultMayGive(i, n)
    <3>1. node' = IF Service!RoundHasRunningSubtasks(u, i) THEN "human_execution" ELSE "context_update"
      BY <1>12, <2>2, <2>3
    <3> QED BY <1>1, <1>8, <2>1, <2>4, <3>1 DEF ResultMayGive, Posted
  <2>6. x = Row("running", node', rs2, No)
    <3>1. PICK m : m = node'
      OBVIOUS
    <3>2. AtNode(u, m) = Row("running", m, rs2, No)
      BY ONLY <1>9, RowAtNode
    <3> QED BY <2>4, <3>1, <3>2 DEF AtNode
  <2>7. View' = Row("running", node', rs2, No)
    <3>1. No = (node' = "human_intervention")
      BY <1>12 DEF No
    <3> QED BY <1>2, <1>7, <1>12, <3>1, NextViewIsRow DEF IInv
  <2> QED BY <2>5, <2>6, <2>7
<1>13. \/ Finish(outcome'[n]) /\ outcome'[n] \in {"failed", "blocked"}
       \/ /\ outcome'[n] \in Outcomes /\ UNCHANGED status
          /\ node' = IF \A j \in DOMAIN rounds : IsFirst(n, j) => RoundDone(j, outcome')
                     THEN "context_update" ELSE "human_execution"
  BY <1>2, <1>10 DEF HumanResult
<1> QED BY <1>11, <1>12, <1>13

-----------------------------------------------------------------------------
(* The invariant and the step *)

Filled == Inv /\ RoundsFilled /\ (again = 0 => OnlyHumansAreOpen)

LEMMA InitFilled == Init => Filled
BY InitInv, OutcomesAssumption DEF Filled, Init, RoundsFilled, OnlyHumansAreOpen

LEMMA NextFilled == Filled /\ [Next]_vars => Filled'
BY NextInv, AgainStays, StepFilled, StepOpen DEF Filled, Inv

LEMMA StepExpected ==
  ASSUME Filled, Filled', Next, again' = 0
  PROVE  IF FlowRuns THEN View' \in RunMayGive
         ELSE \E i \in DOMAIN rounds : \E n \in HumanNodes \cap rounds[i] :
                View' \in ResultMayGive(i, n)
<1>0. IInv /\ IInv' /\ RoundsFilled /\ RoundsFilled' /\ OnlyHumansAreOpen /\ OnlyHumansAreOpen'
  BY AgainStays DEF Filled, Inv
<1>1. CASE RunRound
  BY <1>0, <1>1, RoundExpected DEF RunRound
<1>2. CASE CompleteWorkflow
  BY <1>0, <1>2, CompleteExpected DEF CompleteWorkflow
<1>3. CASE MarkWorkflowBlocked
  BY <1>0, <1>3, BlockedExpected DEF MarkWorkflowBlocked
<1>4. ASSUME NEW n \in Nodes, HumanResult(n)
      PROVE  ~FlowRuns /\ \E i \in DOMAIN rounds : \E m \in HumanNodes \cap rounds[i] :
                View' \in ResultMayGive(i, m)
  <2>1. n \in HumanNodes /\ ~FlowRuns
    <3>1. outcome[n] = "running" /\ status = "running"
      BY <1>0, <1>4, FirstResult DEF HumanResult, IInv
    <3> QED BY <1>0, <3>1 DEF OnlyHumansAreOpen, HumanNodes, IInv, Bookkeeping, FlowRuns
  <2>2. PICK i \in DOMAIN rounds : n \in rounds[i]
    BY <1>0, <1>4, HumanEffect DEF Dispatched
  <2>3. View' \in ResultMayGive(i, n)
    BY <1>0, <1>4, <2>1, <2>2, ResultExpected
  <2> QED BY <2>1, <2>2, <2>3
<1> QED BY <1>1, <1>2, <1>3, <1>4 DEF Next

(* For every graph, and whatever the agents and humans decide: a round, the *)
(* end of the flow and a human's first result leave the task as TaskService *)
(* takes them to, until a result is posted again.  Only the bound on the    *)
(* rounds needs finitely many nodes.                                        *)
THEOREM FlowIsAsExpected == Spec => FlowAsExpected
<1>1. Filled /\ Filled' /\ [Next]_vars =>
        [again' = 0 =>
           IF FlowRuns THEN View' \in RunMayGive
           ELSE \E i \in DOMAIN rounds : \E n \in HumanNodes \cap rounds[i] :
                  View' \in ResultMayGive(i, n)]_vars
  BY StepExpected
<1> QED BY <1>1, InitFilled, NextFilled, PTL DEF Spec, FlowAsExpected
=============================================================================
