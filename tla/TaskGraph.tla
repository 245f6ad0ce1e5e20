------------------------------ MODULE TaskGraph ------------------------------
(***************************************************************************)
(* The automatic flow of a planned task (app/workflows/task_graph.py): the *)
(* LangGraph nodes round_dispatch, subtask_execution, context_update,      *)
(* completion_judge and human_intervention, the agent threads of a round   *)
(* with their model calls and tools, and the requests that call the flow   *)
(* again.  One run works on one Task object and saves it once, at its end: *)
(* a run that raises leaves nothing behind in a store that returns copies. *)
(*                                                                         *)
(* Module TaskService has the whole flow as one step, FlowResults; that    *)
(* the graph does nothing else is the property FlowAsPromised.             *)
(***************************************************************************)
EXTENDS Naturals, Sequences, FiniteSets

CONSTANTS
  Width,        \* bound: subtasks of one plan
  MaxLoop,      \* max_loop_count of the task
  MaxParallel,  \* max_parallel_agent_subtasks
  MaxRetries,   \* execution_config.max_retries of the agents, after its cap
  MaxAgain,     \* bound: results posted for subtasks that have one
  Durable       \* database store (copies) or in-memory (the object itself)

ASSUME BoundsAssumption == Width \in Nat \ {0} /\ MaxRetries \in Nat
ASSUME MaxLoopAssumption == MaxLoop \in Nat \ {0}
ASSUME MaxParallelAssumption == MaxParallel \in Nat \ {0}
ASSUME AgainAssumption == MaxAgain \in Nat
ASSUME DurableAssumption == Durable \in BOOLEAN

VARIABLES
  task,    \* the Task object the run works on; between runs, the stored one
  plan,    \* round_plan of the graph state
  at,      \* the graph node to run next
  agent,   \* the agent thread of every position of the plan
  run,     \* who called the run, and the task it would fall back to
  mock,    \* the system's mock fallback is enabled
  acted,   \* tools executed, as <<round, position>>, but what a raise has lost
  again    \* results that were posted for a subtask that had one

vars == <<task, plan, at, agent, run, mock, acted, again>>
-----------------------------------------------------------------------------
(* Types *)

Positions == 1..Width
Kind == {"agent",   \* assigned to an agent that is still there
         "stray",   \* no such agent
         "human"}

Plan == [continue : BOOLEAN, parallel : BOOLEAN,
         work : UNION {[1..n -> Kind] : n \in 0..Width}]

Subtask == [kind : {"agent", "human"}, status : {"running", "succeeded", "failed"},
            tools : {"none", "ok", "failed"}]

\* An output in the context is named by its round and position.
Outputs == (1..MaxLoop) \X Positions

Round == [index : 1..MaxLoop, before : SUBSET Outputs,
          work : UNION {[1..n -> Subtask] : n \in 0..Width}]

Task == [status : {"running", "succeeded", "failed"},
         node : {"dispatch_decision", "subtask_execution", "human_execution",
                 "context_update", "completion_judge", "human_intervention"},
         loop : 0..MaxLoop, rounds : Seq(Round), summary : SUBSET Outputs,
         awaiting : BOOLEAN, started : BOOLEAN]

Thread == [pc : {"off", "queued", "asking", "tools", "telling",
                 "succeeded", "failed", "raised"},
           left : 0..MaxRetries, tools : {"none", "ok", "failed"},
           twice : BOOLEAN]  \* its tools were executed again

Off == [pc |-> "off", left |-> 0, tools |-> "none", twice |-> FALSE]
NoPlan == [continue |-> FALSE, parallel |-> FALSE, work |-> <<>>]
Confirmed == [status |-> "running", node |-> "dispatch_decision", loop |-> 0,
              rounds |-> <<>>, summary |-> {}, awaiting |-> FALSE, started |-> FALSE]

NoRun == [claimed |-> FALSE, from |-> Confirmed, saved |-> Confirmed]

Init ==
  /\ task = Confirmed
  /\ plan = NoPlan
  /\ at = "idle"
  /\ agent = [s \in Positions |-> Off]
  /\ run = NoRun
  /\ mock \in BOOLEAN
  /\ acted = {}
  /\ again = 0
-----------------------------------------------------------------------------
(* Helpers *)

\* Variant: one finished subtask is enough.
OpenAltogether(work) == work # <<>> /\ \A s \in DOMAIN work : work[s].status = "running"

Open(work) == \E s \in DOMAIN work : work[s].status = "running"
Blocking(work) == \E s \in DOMAIN work : work[s].status # "succeeded"
Done(r) == {<<r.index, s>> : s \in {p \in DOMAIN r.work : r.work[p].status # "running"}}

\* The tools of the subtask o (a round and a position) are in the rounds of t.
Recorded(t, o) ==
  \E i \in DOMAIN t.rounds :
    /\ t.rounds[i].index = o[1] /\ o[2] \in DOMAIN t.rounds[i].work
    /\ t.rounds[i].work[o[2]].tools # "none"

\* Variant: the gaps of the report alone stand in the way.
FinalizeOnGapsOnly(t, candidate, gaps) ==
  IF candidate = "succeeded" /\ gaps
  THEN [t EXCEPT !.node = "human_intervention", !.awaiting = TRUE]
  ELSE [t EXCEPT !.status = candidate, !.node = "completion_judge", !.awaiting = FALSE]

\* CompletionService.finalize, as in module TaskService
Finalize(t, candidate, gaps) ==
  IF candidate = "succeeded"
     /\ (gaps \/ \E i \in DOMAIN t.rounds : Blocking(t.rounds[i].work))
  THEN [t EXCEPT !.node = "human_intervention", !.awaiting = TRUE]
  ELSE [t EXCEPT !.status = candidate, !.node = "completion_judge", !.awaiting = FALSE]

NewRound(t, work) == [index |-> t.loop, before |-> t.summary, work |-> work]

\* Variant: the round is left out.
AppendNothing(t, work) == t

\* _append_pending_round
AppendPendingRound(t, work) ==
  IF \E i \in DOMAIN t.rounds : t.rounds[i].index = t.loop THEN t
  ELSE [t EXCEPT !.rounds = Append(@, NewRound(t, work))]

\* Variant: only what the humans said is merged.
MergeHumanOutputs(t, i) ==
  [t EXCEPT !.node = "context_update",
            !.summary = t.rounds[i].before \cup
              {o \in Done(t.rounds[i]) : t.rounds[i].work[o[2]].kind = "human"}]

\* _merge_completed_round: the summary is what it was before the round, and the round
MergeCompletedRound(t, i) ==
  [t EXCEPT !.node = "context_update", !.summary = t.rounds[i].before \cup Done(t.rounds[i])]

MockPlan ==
  IF task.rounds # <<>> THEN {NoPlan}
  ELSE {[continue |-> TRUE, parallel |-> TRUE, work |-> <<k>>] : k \in {"agent", "stray"}}

\* What the planner may answer; it raises without an answer and without mock fallback.
Planned == Plan \cup (IF mock THEN MockPlan ELSE {})

ShouldCreateDraftHumanGate(p, draft) ==
  draft = "human" /\ task.loop = 0 /\ task.rounds = <<>> /\ ~p.continue /\ p.work = <<>>

HumanGate == [continue |-> TRUE, parallel |-> FALSE, work |-> <<"human">>]

LimitReached(t) == t.loop >= MaxLoop

\* Variant: the round is not counted.
CountNothing(t, p) == t

\* The counter goes up for a round with work, before the round is run.
CountRound(t, p) == IF p.continue /\ p.work # <<>> THEN [t EXCEPT !.loop = @ + 1] ELSE t

RouteAfterPlan(t, p) ==
  IF LimitReached(t) /\ p.continue THEN "human_intervention"
  ELSE IF p.continue /\ p.work # <<>> THEN "subtask_execution"
  ELSE "completion_judge"
-----------------------------------------------------------------------------
(* The run begins, ends or raises *)

\* _started_execution_can_resume_after_human_round
ResumesAfterHumanRound(t) ==
  /\ t.node = "context_update" /\ t.rounds # <<>>
  /\ LET latest == t.rounds[Len(t.rounds)].work
     IN  /\ \E s \in DOMAIN latest : latest[s].kind = "human"
         /\ ~Open(latest)

\* _claim_execution and _run_claimed_execution: a first run, or one after a human round
Claim ==
  /\ at = "idle" /\ task.status = "running"
  /\ ~task.started \/ ResumesAfterHumanRound(task)
  /\ task' = [task EXCEPT !.node = "dispatch_decision", !.started = TRUE]
  /\ run' = [claimed |-> TRUE, from |-> task', saved |-> task']
  /\ at' = "round_dispatch"
  /\ UNCHANGED <<plan, agent, mock, acted, again>>

Ends(t) ==
  /\ task' = t
  /\ at' = "idle"
  /\ run' = NoRun
  /\ UNCHANGED <<mock, acted, again>>

(* An exception leaves the graph, its Task object being t.  A claimed run   *)
(* fails the stored task; a request that ran the flow itself fails: its     *)
(* task is as it was stored, or in memory as far as the run had come.  The  *)
(* tools it executed and did not record are lost.                           *)
Raise(t) ==
  /\ task' = IF run.claimed THEN Finalize(run.saved, "failed", FALSE)
             ELSE IF Durable THEN run.saved
             ELSE t
  /\ at' = "idle"
  /\ plan' = NoPlan
  /\ agent' = [s \in Positions |-> Off]
  /\ acted' = {o \in acted : Recorded(task', o)}
  /\ run' = NoRun
  /\ UNCHANGED <<mock, again>>
-----------------------------------------------------------------------------
(* The nodes of the graph *)

RoundDispatch ==
  LET t == [task EXCEPT !.node = "dispatch_decision"]
      go(p) == /\ task' = CountRound(t, p)
               /\ plan' = p
               /\ at' = RouteAfterPlan(task', p)
               /\ UNCHANGED <<agent, run, mock, acted, again>>
  IN  /\ at = "round_dispatch"
      /\ \/ LimitReached(t) /\ go([NoPlan EXCEPT !.continue = TRUE])
         \/ /\ ~LimitReached(t)
            /\ \E p \in Planned, draft \in {"human", "agent"} :
                 go(IF ShouldCreateDraftHumanGate(p, draft) THEN HumanGate ELSE p)

\* No plan and no mock fallback, or a planner that raises.
PlannerRaises ==
  /\ at = "round_dispatch" /\ ~LimitReached(task)
  /\ Raise([task EXCEPT !.node = "dispatch_decision"])

\* subtask_execution, first half: humans are told, agents are queued
Distribute ==
  /\ at = "subtask_execution"
  /\ task' = [task EXCEPT !.node = "subtask_execution"]
  /\ agent' = [s \in Positions |->
                 IF s \in DOMAIN plan.work /\ plan.work[s] # "human"
                 THEN [Off EXCEPT !.pc = "queued", !.left = MaxRetries] ELSE Off]
  /\ at' = "agents"
  /\ UNCHANGED <<plan, run, mock, acted, again>>

Agents == {s \in DOMAIN plan.work : plan.work[s] # "human"}
InFlight == {s \in Agents : agent[s].pc \in {"asking", "tools", "telling"}}
InPool == plan.parallel /\ Cardinality(Agents) > 1
Finished(s) == agent[s].pc \in {"succeeded", "failed"}

\* The pool starts its items in order; without a pool one follows the other.
MayStart(s) ==
  IF InPool THEN /\ Cardinality(InFlight) < MaxParallel
                 /\ \A r \in Agents : r < s => agent[r].pc # "queued"
            ELSE \A r \in Agents : r < s => Finished(r)

AgentGoes(s, a) == agent' = [agent EXCEPT ![s] = a]

\* _resolve_agent, with what follows if there is no agent at all
StartAgent(s) ==
  /\ agent[s].pc = "queued" /\ MayStart(s)
  /\ \E pc \in IF plan.work[s] = "agent" THEN {"asking"}
               ELSE IF mock THEN {"asking", "succeeded"} ELSE {"raised"} :
       AgentGoes(s, [agent[s] EXCEPT !.pc = pc])
  /\ UNCHANGED acted

\* Variant: the mock answer comes before the look at the tools.
AfterErrorMockFirst(a) == IF mock THEN "succeeded" ELSE "failed"

\* The model has failed for good, before or after the tools.
AfterError(a) ==
  IF a.tools # "failed" /\ mock THEN "succeeded" ELSE "failed"

\* Variant: calls of the follow-up are executed too.
AfterReplyAlwaysTools(a, calls, output) ==
  IF calls THEN "tools"
  ELSE IF a.tools # "failed" /\ output THEN "succeeded" ELSE "failed"

\* The model has answered; calls of a follow-up are noted and not executed.
AfterReply(a, calls, output) ==
  IF a.pc = "asking" /\ calls THEN "tools"
  ELSE IF a.tools # "failed" /\ output THEN "succeeded" ELSE "failed"

(* execute_subtask_with_tools_model: an answer, a refusal that is tried     *)
(* again while attempts are left, or an error that ends it.                 *)
ModelCall(s) ==
  LET a == agent[s] IN
  /\ a.pc \in {"asking", "telling"}
  /\ \/ \E calls, output \in BOOLEAN :
          LET pc == AfterReply(a, calls, output) IN
          AgentGoes(s, [a EXCEPT !.pc = pc,
                                 !.left = IF pc = "tools" THEN MaxRetries ELSE 0])
     \/ a.left > 0 /\ AgentGoes(s, [a EXCEPT !.left = @ - 1])
     \/ AgentGoes(s, [a EXCEPT !.pc = AfterError(a), !.left = 0])
  /\ UNCHANGED acted

\* tool_executor.execute for the calls of the answer, one failure fails them.
RunTools(s) ==
  /\ agent[s].pc = "tools"
  /\ \E outcome \in {"ok", "failed"} :
       AgentGoes(s, [agent[s] EXCEPT !.pc = "telling", !.tools = outcome,
                                    !.twice = agent[s].tools # "none"])
  /\ acted' = acted \cup {<<task.loop, s>>}

AgentStep(s) ==
  /\ at = "agents" /\ s \in Agents
  /\ StartAgent(s) \/ ModelCall(s) \/ RunTools(s)
  /\ UNCHANGED <<task, plan, at, run, mock, again>>

(* The exception of an agent reaches the graph thread: at once without a    *)
(* pool, else when the pool has nothing in flight; what is queued is dropped.*)
AgentRaises ==
  /\ at = "agents" /\ InFlight = {}
  /\ \E s \in Agents : /\ agent[s].pc = "raised"
                       /\ \A r \in Agents : r < s => Finished(r)
  /\ Raise(task)

\* The subtasks after their outcomes have been applied.
Applied == [s \in DOMAIN plan.work |->
             [kind   |-> IF s \in Agents THEN "agent" ELSE "human",
              status |-> IF s \in Agents THEN agent[s].pc ELSE "running",
              tools  |-> agent[s].tools]]

\* subtask_execution, second half: a failure ends the task, a human makes it wait.
Collect ==
  /\ at = "agents"
  /\ \A s \in Agents : Finished(s)
  /\ agent' = [s \in Positions |-> Off]
  /\ LET failed == \E s \in DOMAIN Applied : Applied[s].status = "failed"
         t == AppendPendingRound(task, Applied)
     IN  \/ failed /\ Ends(Finalize(t, "failed", FALSE)) /\ plan' = NoPlan
         \/ /\ ~failed /\ Open(Applied) /\ plan' = NoPlan
            /\ Ends([t EXCEPT !.node = "human_execution"])
         \/ /\ ~failed /\ ~Open(Applied)
            /\ task' = [task EXCEPT
                 !.node = "context_update",
                 !.rounds = Append(@, NewRound(task, Applied)),
                 !.summary = @ \cup Done(NewRound(task, Applied))]
            /\ at' = "completion_judge"
            /\ UNCHANGED <<plan, run, mock, acted, again>>

CompletionJudge ==
  LET t == [task EXCEPT !.node = "completion_judge"] IN
  /\ at = "completion_judge"
  /\ \/ /\ plan.continue /\ plan.work # <<>>
        /\ task' = t
        /\ at' = IF LimitReached(t) THEN "human_intervention" ELSE "round_dispatch"
        /\ UNCHANGED <<plan, agent, run, mock, acted, again>>
     \/ /\ ~(plan.continue /\ plan.work # <<>>)
        /\ \E gaps \in BOOLEAN : Ends(Finalize(t, "succeeded", gaps))
        /\ plan' = NoPlan /\ UNCHANGED agent

HumanIntervention ==
  /\ at = "human_intervention"
  /\ Ends([task EXCEPT !.node = "human_intervention"])
  /\ plan' = NoPlan /\ UNCHANGED agent
-----------------------------------------------------------------------------
(* Requests between the runs *)

Stores(t) ==
  /\ task' = t
  /\ UNCHANGED <<plan, at, agent, run, mock, acted>>

\* A request that runs the flow itself, on a copy that is saved at its end or,
\* in memory, on the stored object.
RunsInline(t) ==
  /\ task' = [t EXCEPT !.started = TRUE]
  /\ run' = [claimed |-> FALSE, from |-> task',
             saved |-> IF Durable THEN task ELSE task']
  /\ at' = "round_dispatch"
  /\ UNCHANGED <<plan, agent, mock, acted>>

(* submit_subtask_result for subtask s of round i, whoever worked on it and  *)
(* whether or not it has a result: the code looks at the task's status only. *)
HumanResult(i, s) ==
  LET posted(status) == [task EXCEPT !.rounds[i].work[s].status = status]
      merged(status) == MergeCompletedRound(posted(status), i)
      more == Open(posted("succeeded").rounds[i].work)
  IN  /\ at = "idle" /\ task.status = "running"
      /\ \/ task.rounds[i].work[s].status = "running" /\ UNCHANGED again
         \/ /\ task.rounds[i].work[s].status # "running"
            /\ again < MaxAgain /\ again' = again + 1
      /\ \/ Stores(Finalize(merged("failed"), "failed", FALSE))
         \/ more /\ Stores([posted("succeeded") EXCEPT !.node = "human_execution"])
         \/ ~more /\ Stores(merged("succeeded"))
         \/ ~more /\ RunsInline(merged("succeeded"))

\* submit_result at human_intervention: a verdict, or a success that is to go on
SubmitResult ==
  /\ at = "idle" /\ task.status = "running" /\ task.node = "human_intervention"
  /\ UNCHANGED again
  /\ \/ \E result \in {"succeeded", "failed"}, gaps \in BOOLEAN :
          Stores(Finalize(task, result, gaps))
     \/ ~task.awaiting /\ RunsInline(task)
-----------------------------------------------------------------------------
GraphStep ==
  \/ RoundDispatch \/ PlannerRaises \/ Distribute \/ AgentRaises
  \/ Collect \/ CompletionJudge \/ HumanIntervention

Request ==
  \/ Claim
  \/ \E i \in DOMAIN task.rounds : \E s \in DOMAIN task.rounds[i].work : HumanResult(i, s)
  \/ SubmitResult

Next == Request \/ GraphStep \/ \E s \in Positions : AgentStep(s)

Spec == Init /\ [][Next]_vars

\* The threads of a run are scheduled, and its model and tool calls have timeouts.
FairSpec == Spec /\ WF_vars(GraphStep) /\ \A s \in Positions : WF_vars(AgentStep(s))
-----------------------------------------------------------------------------
(* Properties *)

TypeOK ==
  /\ task \in Task
  /\ plan \in Plan
  /\ at \in {"idle", "round_dispatch", "subtask_execution", "agents",
             "completion_judge", "human_intervention"}
  /\ agent \in [Positions -> Thread]
  /\ run \in [claimed : BOOLEAN, from : Task, saved : Task]
  /\ mock \in BOOLEAN
  /\ acted \in SUBSET Outputs
  /\ again \in 0..MaxAgain

(* What docs/iterations says of max_loop_count: a task goes on to the next   *)
(* round until its rounds exceed the limit, and only then to a human.       *)
LimitLeavesAllRounds ==
  at = "idle" /\ task.node = "human_intervention" /\ ~task.awaiting
    => Len(task.rounds) >= MaxLoop

(* As long as every subtask gets one result: a stored task waits at         *)
(* human_execution exactly while somebody owes it one, and the open work is *)
(* in its last round.  Always: every round is kept under a number of its    *)
(* own (_append_pending_round drops a round whose number is taken).         *)
WaitHasWork ==
  /\ at = "idle" /\ task.status = "running" /\ again = 0 =>
       /\ task.node = "human_execution"
            <=> \E i \in DOMAIN task.rounds : Open(task.rounds[i].work)
       /\ \A i \in DOMAIN task.rounds : i < Len(task.rounds) => ~Open(task.rounds[i].work)
  /\ \A i, j \in DOMAIN task.rounds : i < j => task.rounds[i].index < task.rounds[j].index

(* As long as every subtask gets one result, the planner is never asked on  *)
(* a stale context: the summary holds the output of every subtask of every  *)
(* round, of the agents of a round that waited for humans too, also when    *)
(* several runs and results made it.                                        *)
ContextComplete ==
  at = "round_dispatch" /\ again = 0 =>
    task.summary = UNION {Done(task.rounds[i]) : i \in DOMAIN task.rounds}

(* No success over unfinished work, also when the flow was started over an  *)
(* open round by a result that came twice, or by one that came after a run  *)
(* had raised.                                                              *)
NoSuccessOverOpenWork ==
  task.status = "succeeded" => \A i \in DOMAIN task.rounds : ~Blocking(task.rounds[i].work)

(* The record says what the tools did outside.  A subtask acts once however *)
(* often its model is asked; one whose tool failed is not passed off as     *)
(* done by a later answer or by the mock; and when a run ends, failed,      *)
(* waiting or done, each act is in the rounds, which is all that the check  *)
(* before a rerun looks at.  Only a run that raises loses what it did.      *)
ToolsAccountedFor ==
  /\ \A s \in Positions : ~agent[s].twice
  /\ \A i \in DOMAIN task.rounds : \A s \in DOMAIN task.rounds[i].work :
       LET sub == task.rounds[i].work[s] IN
       sub.tools = "failed" => sub.status = "failed"
  /\ at = "idle" => \A o \in acted : Recorded(task, o)

(* A run comes to its end: agents give up, plans run out or the limit does. *)
RunEnds == at # "idle" ~> at = "idle"

\* The task as module TaskService sees it.
View(t) ==
  [status |-> t.status, node |-> t.node, contract |-> TRUE, active |-> 1,
   rounds |-> [i \in DOMAIN t.rounds |->
                [s \in Positions |->
                   IF s \in DOMAIN t.rounds[i].work /\ t.rounds[i].work[s].kind = "human"
                   THEN t.rounds[i].work[s].status ELSE "none"]],
   awaiting |-> t.awaiting, depctx |-> FALSE]

Service == INSTANCE TaskService WITH
             Tasks <- {"t"}, Workflow <- {}, Deps <- [t \in {"t"} |-> {}],
             Threads <- {"thread"}, Slots <- Positions, Keys <- {"key"}, NoKey <- "none",
             NoThread <- "none", Failures <- {"failed"}, MaxAttempts <- [t \in {"t"} |-> 1],
             MaxRounds <- [t \in {"t"} |-> MaxLoop], Resubmit <- FALSE, task <- [t \in {"t"} |-> View(task)],
             executions <- [t \in {"t"} |-> <<>>], lock <- [t \in {"t"} |-> "none"], thread <- <<>>

HumanAt(v) == {i \in DOMAIN v.rounds : Service!Human(v.rounds[i])}

(* u and v are the same but for rounds without a human, which are many here *)
(* and one there: their rounds with a human correspond, in their order.     *)
SameForHumans(u, v) ==
  /\ v = [u EXCEPT !.rounds = v.rounds]
  /\ \E f \in [HumanAt(u) -> HumanAt(v)] :
       /\ \A j \in HumanAt(v) : \E i \in HumanAt(u) : f[i] = j
       /\ \A i, j \in HumanAt(u) : i < j => f[i] < f[j]
       /\ \A i \in HumanAt(u) : v.rounds[f[i]] = u.rounds[i]

\* What the service expects of the run that is under way.
Promised ==
  LET from == View(run.from) IN
  Service!FlowResults("t", from) \cup
    IF run.claimed THEN {Service!Finalize(from, "failed", FALSE)}
    ELSE IF Durable THEN {View(run.saved)}
    ELSE Service!RaisedResults("t", from)

(* Whatever the planner, the agents and their tools do, a run gives the     *)
(* service a task that its model of the flow allows.                        *)
FlowAsPromised ==
  [][at # "idle" /\ at' = "idle" => \E v \in Promised : SameForHumans(View(task'), v)]_vars
=============================================================================
