# TLA+ verification of TaskHub

TaskHub (`app/`) is a FastAPI server that takes tasks from people and business systems, plans them
with an LLM or a workflow template, lets agents and humans work on them round by round, and keeps a
history of executions for every task. `taskhub-codex-runner/` is a client that answers human
subtasks on a user's machine; `frontend/` is the web console. This directory models the parts whose
correctness depends on the order in which things happen.

## 1. Inventory

| Part | State | Operations | Depends on |
|---|---|---|---|
| **TaskService** `app/services/task_service.py` | `Task` rows in a store, one re-entrant lock per task | create, confirm, cancel, claim and run in a background thread, result of a task, result of a human subtask, rerun, release of dependents, start-up migration | store, ExecutionService, CompletionService, the two flows |
| **ExecutionService** `execution_service.py` | `Task.executions`, `active_execution_id` | `create_initial`, `preflight`, `create_rerun`, `mark_started`, `sync_projection` | called under the task lock |
| **CompletionService** `completion_service.py` | completion report of a task | `finalize`, evaluation of criteria and files | ArtifactService |
| **Task graph** `workflows/task_graph.py` | the task it is given | dispatch a round, execute subtasks, update the context, judge completion | planner, agents, tools |
| **Workflow runner** `workflows/template_runner.py` | the task and a snapshot of a graph | ready and skipped nodes, rounds, completion, blocking | task graph (to execute a round) |
| **Stores** `storage.py` | tasks in memory (shared objects) or MySQL (copies); agents, users, workflows, attachments in files or tables | get, list, save, delete | |
| **Artifacts, deliverables** `artifact_service.py`, `deliverable_materializer.py` | artifacts of the task, files on disk | register, revalidate, replace, materialize | file system |
| **Contract confirmation** `task_contract_service.py` | none | normalise and merge acceptance items | |
| **Tools** `tool_executor.py`, **model client** `model_client.py`, **planners** | none | calls with time limits and retries | network |
| **Codex runner** `taskhub_codex_runner.py`, `runner_cli.py` | local claims, pending manual reviews, request and response files | poll, reconcile, handle, submit, web console, command broker | HTTP API, file system |
| **HTTP layer** `api/`, **web console** `frontend/` | session | one handler per request | TaskService |

How they interact. Every request becomes one or more sections `with self._task_lock(task_id)`: load,
check, change, save. One request may go through several of them (confirm, claim, run, resume of
dependents), each in the thread of the request or of a background thread, and anything may happen
between two sections. The flow (task graph or workflow runner) runs inside one section on a deep
copy; its pauses are human subtasks, whose results come back as requests. The end of a task wakes up
the tasks that name it in `dependency_task_ids`. (The code honours that field everywhere; at this
commit only stored rows carry it.)

What is hard here, and what each part must guarantee:

* *TaskService and ExecutionService*: two threads in one execution; a late result in a newer
  attempt; repeated requests; a release that comes too early or is lost; results for rounds that are
  over; a crash between a claim and its result. Correct means: one open execution, a frozen history,
  one claim, no start before each prerequisite has succeeded, no success over open work, a task that
  stands at `human_execution` exactly while a result is owed, and progress.
* *Workflow runner*: joins, conditions and skips over graphs nobody validated. Correct means: a node
  runs once and only on a chosen branch, a join waits, a skip is final, and the flow does not give
  up while an end can be reached; what of this survives a result that is posted twice.
* *Task graph*: agent threads with retries and tools that act outside, a round counter that is
  compared before and after it goes up, rounds that wait for humans while their agents are done,
  runs that raise. Correct means: every act is in the record, the planner sees all outputs, a wait
  has its work, a run ends, and it does nothing the service does not expect.
* *Codex runner*: stale polls, double submissions, child processes that outlive the runner, commands
  that take effect after their deadline.
* *Artifacts, deliverables, completion evidence*: artifacts are registered once and looked at again,
  files are written before the task is stored, and change between check and use. Correct means: a
  report names what is there, a delivery is never written over, a missing one is not passed over.
* *Stores*: lost updates of whole-file registries, references that are deleted meanwhile. Correct
  means: what was acknowledged is kept, or the reason why not is one of the known ones.

`PROJECT.json` lists these hazards at their lines with the properties that would notice.

## 2. Modules

### TaskService.tla

One state machine for TaskService, ExecutionService and CompletionService, because one lock section
runs through all three.

* `task[t]` is the row: status, `current_node`, whether there is a contract, the number of the
  active execution, the rounds with their *human* subtasks, `awaiting`
  (`completion_report.awaiting_human_decision`) and `depctx` (the prerequisites' outputs are in the
  context). `executions[t]` is `Task.executions`. `lock` and `thread` are the locks and what a
  Python frame keeps between two lock sections.
* A lock section is one step that needs the lock free. Four sections read *other* tasks, the
  prerequisites, before they save their own: `confirm_task_details`, `create_rerun`,
  `_claim_execution` and each iteration of `_resume_unblocked_tasks`. Only the lock of their own
  task is held meanwhile, so they are two steps with that lock held (`ConfirmBegin`/`ConfirmEnd`,
  `RerunBegin`/`RerunEnd`, `ClaimBegin`/`ClaimEnd`, `ResumeScan`/`Release`), and a prerequisite may
  be rerun between the two.
* `Save` contains `sync_projection`, as every `_save` in the code is preceded by it.
* `FlowResults` is the set of rows the automatic flow may return, `RaisedResults` what it leaves in
  the in-memory object when it raises inside a result handler (the database copy is discarded).
* `Crash` (database store only) loses every thread and every lock.

| Action | Code |
|---|---|
| `CreateRequest`, `CancelUnconfirmed` | `create_request`, `cancel_unconfirmed_task` |
| `ConfirmBegin`, `ConfirmEnd` | `confirm_task_details`, then `confirm_task` or the async branch |
| `ClaimBegin`, `ClaimEnd`, `RunClaimed` | `_claim_execution` before and after its look at the prerequisites, `_run_claimed_execution` |
| `ResumeScan`, `Release`, `ResumeNext` | `_resume_unblocked_tasks`: one task of the scan up to the prerequisites, the rest of it, one task to run |
| `SubmitResult`, `SubmitSubtaskResult` | `submit_result`, `submit_subtask_result` |
| `RerunBegin`, `RerunEnd` | `create_rerun` with `preflight` and `ExecutionService.create_rerun` |

Abstractions. Agent subtasks, permissions, texts and artifacts are left out; which criteria lack
evidence is a choice (`gaps`). `Failures` names the unsuccessful statuses an instance uses.
`schedule_confirmed_task` only writes an event. The scan's look at title and description (:1060) is
left out, as every confirmed task has both. `SubmitSubtaskResult` is about human subtasks; a result
somebody posts for an agent's subtask is left out with those. Side-effect confirmation of reruns is
left out. The guards of `submit_result` on a review that is *not* an adjudication are weaker than
the code's, and the order of nested resumes is arbitrary (`ready` is one set): both allow more
behaviours, so the safety results carry over. `DependenciesSatisfied` reads all prerequisites at
once, which is exact with one prerequisite. Replaying a key while its execution runs changes nothing
and is a stuttering step.

### ExecutionLedger.tla

What readers of the history are promised: attempts are opened one at a time under fresh keys,
started before they end, and closed for good. `TaskService!Ledger` maps a row to it.

### WorkflowTemplate.tla

The loop of `WorkflowTemplateRunner.run` over a graph that is a variable fixed by `Init`: the server
validates nothing, so `Graphs` is any set of edge sets. A condition is the set of outcomes that
satisfy it, which stands for all operators of `_condition_matches`. The loop of `_skipped_node_ids`
adds nodes until nothing changes; `SkippedNodes` is the least set closed under that rule. `RunRound`
executes the ready nodes and ends in `failed`, `human_execution` or `context_update`; `HumanResult`
is `submit_subtask_result` seen from the runner. As in the code it looks at the status of the task
only: a subtask that has a result takes another one, with another decision perhaps, and the flow is
started again. `again` counts such results, up to `MaxAgain`. A node that is dispatched a second
time has the same subtask id in both rounds, and `_find_subtask` finds the first (`IsFirst`). The
second readiness check at the end of the loop body repeats the first one of the next iteration and
is the same step. `"blocked"` stands for `partial` too in human results.

Results posted twice break what is promised of those posted once. So `RunsOnLivePath`, `JoinsWait`,
`SkippedForGood` and `FlowAsExpected` carry the premise that there was none (`again = 0`) in their
statements. `NodesRunOnce` does not: it says what is left without it, no agent and no condition is
executed twice, a human may be asked twice. `EverythingDecided` holds for all results.

`FlowAsExpected` instantiates `TaskService` with `task <- View`, a row whose rounds hold the human
subtasks of the template, and says that each step of the runner is one `TaskService` counts on: a
result of `FlowResults`, a round without a human after which the loop goes on, or what
`SubmitSubtaskResult` stores for a human. `MaxRounds` is the number of nodes there: a flow never
needs more rounds. `TaskService` allows a bounded number of rounds, and a template cannot exceed it.

### CodexRunner.tla

The process of one user: `claimed` is `local_claimed`, `pending` is `pending_manual`, `poll` is the
main thread between the answer of a poll and the end of its loop, `thread` holds the handler threads
and the requests of the web console. The server appears as the status of each subtask. The two tests
it really makes differ: a listing asks for the status of the *subtask*, a submission for the status
of the *task*. So `"stranded"` (open in a task that has ended) is listed and refused, and
`"answered"` is not listed and accepted again.

| Action | Code |
|---|---|
| `Ask`, `Reconcile`, `Claim` | `poll_once`: the listing, `reconcile_remote_human_subtasks`, one candidate |
| `CodexSubmits`, `CodexAsksForReview`, `CodexFails`, `PromptAnswered`, `PromptSkipped` | `_handle_subtask` |
| `PostBegins` | `POST /api/manual-results` up to the submission |
| `Send`, `Arrives`, `NoAnswer`, `Succeeds`, `Fails` | `TaskHubClient._request` for both, and what follows |
| `LateRequest`, `LostRequest` | a request whose sender has given up |
| `Crash`, `Restart` | end of the process (an error of the poll, `start_runner.sh stop`), `main` |
| `OrphanEnds` | the end of a `codex exec` whose runner is gone |
| `Appear`, `AnsweredElsewhere`, `TaskEnds` | the server, for other people |

A death ends the threads of the process and not the `codex exec` children they wait for: each
handler at `"working"` leaves one behind, counted in `orphans`. Nobody reads what it prints and
nobody stops it, as the time limit of `subprocess.run` has died too.

Left out: `--once`, `--dry-run`, and what an answer says. `unheard` remembers the subtasks some
answer to which never came back; it only occurs in a property. A connection that never delivers a
request is `LostRequest` after `NoAnswer`.

### CommandBroker.tla

Two processes that talk through files: `requests`, `processing` and `responses` are the directories,
`call` and `broker` where each program is. One step is one file operation, except for the temporary
files, which nobody else reads. `Deadline` and `Withdraw` are two steps, as a broker may take the
request in between. `Execute` is a command at the server: `executed` counts what happened there, the
reply what the broker learnt of it.

### TaskGraph.tla

The flow of a planned task, which `TaskService!FlowResults` takes in one step, node by node. `task`
is the Task object the run works on and, between runs, the stored one; `plan` and `at` are the state
of the LangGraph graph, `agent[s]` is the thread at position `s` of the plan. `run` keeps who called
the run and what is stored if it raises. `acted` (tools that acted outside and are not lost by a
raise) and `again` (results posted for a subtask that had one, at most `MaxAgain`) only occur in
properties and in the bound.

| Action | Code |
|---|---|
| `RoundDispatch`, `PlannerRaises` | `_round_dispatch`, the planner's answer, the mock plan, the draft's human gate, `_route_after_plan` |
| `Distribute`, `Collect` | `_subtask_execution` before and after the agents, `_append_pending_round`, `_context_update` |
| `StartAgent`, `ModelCall`, `RunTools`, `AgentRaises` | the thread pool, `_resolve_agent`, `execute_subtask_with_tools_model`, `tool_executor.execute` |
| `CompletionJudge`, `HumanIntervention` | the nodes of that name and the edges behind them |
| `Claim`, `HumanResult`, `SubmitResult` | `_claim_execution`, `submit_subtask_result`, `submit_result`, as far as they touch the flow |

`HumanResult` takes a result for any subtask while the task runs, agents' subtasks included, as
`submit_subtask_result` does. A result posted again for a round merges it from the summary it had
before (`MergeCompletedRound`), which drops the rounds since, and starts the flow over an open one.
Therefore `WaitHasWork` (its wait, not its round numbers) and `ContextComplete` are stated for
`again = 0`; the other properties hold whatever is posted. The module stores a result and then
claims in a second step; what may come between is `TaskService`'s.

A model call is an answer with or without tool calls and output, a refusal that is tried again while
attempts are left, or an error. Which plan comes is any list of at most `Width` subtasks.
`FlowAsPromised` instantiates `TaskService` with `task <- View(task)`, and says that the task a run
leaves is one of `FlowResults`, `RaisedResults` or the failed row `RunClaimed` stores: this is what
makes the one step of `TaskService` sound. Since rounds without a human are left out there, both
sides are compared on their rounds with humans, which must correspond in their order
(`SameForHumans`).

Two things follow from the code and are modelled as they are: a plan with `should_continue` false
and subtasks is finalized without executing them, and the loop test of `_route_after_judge` never
fires, as the counter stands below the limit there. The branches behind
`execute_subtask_with_tools_model` for agents without a model and for deterministic subtasks are
reached by no caller and left out. With `Width` 2 the pool limit is not reached in the run (the
proofs hold for any).

### Deliverables.tla

What stands behind a success: `disk` is the delivery file of every execution and the file a tool
wrote, `artifacts` and `report` are those of the active execution as stored, `earlier` what earlier
executions registered. `job` is the copy of a run or request under way; files are written at once,
the task at the end, so that `Dies` loses the one and keeps the other.

| Action | Code |
|---|---|
| `StartFlow`, `Pause` | a run of the flow, with its copy of the task |
| `ToolWrites`, `RegisterToolResult` | the file tool; `register_tool_result` at the end of the round |
| `FlowFinalizes`, `ResultFinalizes`, `VerdictFinalizes` | the callers of `CompletionService.finalize`, with the evidence they ask for |
| `CheckDelivery`, `Materialize`, `ReadBack` | `finalize` up to the selection: `_has_valid_tool_file_delivery`, `materialize`, `read_managed_delivery`, `register_task_file_output` |
| `Revalidate`, `WriteReport` | `revalidate_artifact` of each selected artifact, the report |
| `Rerun` | a new execution without artifacts |
| `SomebodyElse` | other tasks' tools, operators |

A file contract comes from a stored task only: `TaskConfirm` (`models.py:362-386`), through which
every confirmation of the API passes, turns `deliverable_kind` into `text`. So the branches of a
file contract are in use for rows that were confirmed before.

`ReadBack` registers what reads back as it was written. The branch of
`completion_service.py:122-126`, which registers without comparing when `read_managed_delivery`
raises `ValueError`, is left out as no run reaches it: what raises it there (contract, file name,
execution, the path of the URI) has been checked by `materialize` for the same task just before, and
links or files that are not regular raise `OSError`.

A content stands for its checksum. `contract.fits` says that the file name and format of the tool
are those of the contract; the choice between `delivery_content` and the output is part of the
output. Whether a criterion is met is the model's answer: by design of the code gaps in the
artifacts never block a success, so the module does not claim that they do. The store is the one
that copies. Files of tools lie outside of the directories of the executions: the tool of a rerun
writes over the file an earlier execution vouched for (`disk.tool` is one file), which is why
`DeliveryStands` speaks of delivery files only, although the design wants the files of the history
left alone (`docs/superpowers/specs/2026-07-21-file-deliverable-guarantee-design.md`).

### Registries.tla

Agents and workflow templates behind their routes, in a database (`database`, a row per record) or
in files that every change reads, truncates and writes as a whole. A record is reduced to the agent
a template names. `request[r]` is a thread of the server's pool; no lock is taken.

| Action | Code |
|---|---|
| `Begin` | a request of `routes_agents.py`, `routes_workflows.py` |
| `CheckReferences` | the look of `delete_agent` at the workflows |
| `Read`, `Truncate`, `Write` | `list_*` and `write_text` in each change of the file stores; the statements of the database stores |
| `Dies` | end of the process and its restart; what was truncated stays empty |

`known` is what clients were told, `spoiled` the files whose writers overlapped or died, `excused`
the templates that were written with an agent that was gone or about to be: nothing in the code
checks that agent when a template is saved. Users and attachments are left out.

### MCTaskService.tla, MCWorkflowTemplate.tla, MCCodexRunner.tla, MCCommandBroker.tla, MCTaskGraph.tla, MCDeliverables.tla, MCRegistries.tla

Constants of the instances. The operators marked `Variant` in the specifications are the faulty
forms against which each property is tested.

## 3. Runs

| Run | Instance | Shows |
|---|---|---|
| `history` | one task, 2 threads, 3 attempts, 1 round, repeated results, crashes (84,477 states) | history, keys, frozen executions, results on their own execution, refinement of the ledger |
| `prerequisites` | a workflow task that may be rerun and one that waits for it, two humans a round, failed and blocked ends, each human answers once, server stays up (94,268) | one claim per execution; `human_execution` exactly while a result is owed; starts only after each prerequisite has succeeded; released tasks start and the flow settles unless a prerequisite is rerun |
| `workflow` | 3,456 graphs over six nodes, all decisions and failures, one result posted again (224,915) | agents and conditions run once, on live paths; joins wait; skips are final; nothing is forgotten; the service's row changes as `TaskService` expects |
| `runner` | one subtask, 3 threads, one console window, two deaths, all configurations (56,660) | no claim left behind, one handler a subtask and one Codex more per death, no answer repeated; answered reviews disappear; open subtasks are answered or shown |
| `broker` | two calls, two brokers, two deaths (66,674) | commands run at most once; reported successes ran; withdrawn requests do not |
| `graph` | plans of up to two subtasks, limit 3, one retry, one result posted again, in memory (248,641) | waits, contexts, round numbers, tools; no success over open work; a run ends, in a task the service allows |
| `deliverables` | two executions, two contents, two changes by others (744,389) | evidence and deliveries stand; a missing delivery is reported |
| `registry` | three threads, an agent, two templates, files and database (745,605) | acknowledged changes are kept; no dangling agent without one of the known causes |
| `limit` | plans of one subtask, limit 2, in a database | **violated**: a task asks for a human before it has had its rounds |
| `rerun_strands` | two tasks, two attempts, server stays up | **violated**: a dependent stays unstarted for ever |
| `context` | two tasks, first attempts only | **violated**: a dependent starts without its prerequisite's outputs |
| `resubmit` | one task, 2 rounds, a result posted again | **violated**: the flow goes on over an open round |

Why the bounds are enough. Every race here is between two requests on one task, or between a task
and its prerequisite: two threads and two tasks show each of them. Three attempts are needed for two
reruns under one key; two rounds for a result that comes back after its round; two humans for a
round that is half answered. `MaxAttempts` and `MaxRounds` are given task by task: in
`prerequisites` it is the prerequisite that is rerun, the other task that has a round. (With one
round the part of `PauseDiscipline` about earlier rounds is empty there; it was checked with two,
409,640 states in three minutes, and is proved for any number.) Six nodes hold a fork, a join of two
branches, a condition with two exits, a skipped chain of two nodes and a cycle. One result posted
again is enough to start a flow over an open round, to turn a decision and to reset a context
(`MaxAgain`). In the runner a handler, a request of the console and a third thread for the next
poll's claim show each of its races; subtasks meet only in the listing and in the number of threads,
and one that is listed again after a death and a stale poll is the case that matters (the proofs
hold for any number). Two brokers and two calls give each broker a listing with an entry the other
one took. In the task graph the limit 3 gives two full rounds and the one that is cut off, so that a
round that waits meets one before and one after it; two subtasks give every pair of agent, stray and
human; one retry is used up and refilled by the tools (the proofs hold for either store). Two
executions give a rerun, two contents a file that is written over, two changes one for each file.
Three requests are needed for a writer that overlaps two others, and two templates for an update
that is lost (two agents with two threads were checked too, 3.6 million states). Threads are
interchangeable, which the safety runs use as symmetry; the liveness runs do not. `CHECK_DEADLOCK
FALSE` everywhere: a system whose clients ask for nothing, or whose attempts are used up, stops.

Fairness. `UpSpec` has weak fairness of `ThreadStep(th)` for every thread, and no `Crash`: a thread
that can go on is scheduled again by the interpreter, and a lock is held only for a bounded section.
Nothing is assumed of clients: nobody has to confirm, answer or rerun, so the liveness properties
only promise what the server does on its own. `CodexRunner!FairSpec` has weak fairness of the main
thread (it polls in a loop), of a restart (a user who wants to see reviews starts the runner again;
deaths are bounded) and of each thread: Codex has a time limit, a request 30 seconds. A user at the
terminal may leave a question open for ever, and nobody has to use the console. `TaskGraph!FairSpec`
has weak fairness of the graph thread and of each agent: they are scheduled, and a model call or a
tool ends by its time limit. The planner's answers need no fairness: the loop limit ends the run
whatever they are.

## 4. What the violated runs mean

1. `rerun_strands`. `_resume_unblocked_tasks` looks only at tasks at `waiting_dependencies`. A
   dependent confirmed while its prerequisite had succeeded stands at `dispatch_decision`; if the
   prerequisite is rerun before the claim, the claim is refused and no later completion wakes the
   task. The iteration log promises the release.
2. `context`. `confirm_task` saves `waiting_dependencies` and claims in a second section. If the
   prerequisite succeeds in between, the claim wins over the resume, which is the only place that
   writes the prerequisite's outputs into the context.
3. `resubmit`. `submit_subtask_result` checks the task, not the subtask. A second result for a
   finished round merges it again and restarts the flow although a later round waits for a human.
4. `limit`. `_route_after_plan` compares the counter after it has gone up for the round just
   planned, so that round is never executed: with the default `max_loop_count` of 10 nine rounds are
   run. `docs/iterations/技术方案与业务流程.md:141-145` and `:334-335` say that the task goes back to
   `round_dispatch` as long as the maximum is not exceeded, and to `human_intervention` only when it
   is (`超过最大轮数时进入`).

The four stand for claims of the documents. The third has more consequences than the one it shows,
and `TaskGraph` and `WorkflowTemplate` have them all: an open human node is dispatched a second
time, under the same subtask id, so that nobody can answer the second one; another decision on a
completed node revives a branch that was skipped, and makes what ran on the first one a branch
nobody chose; the context of the next plan goes back to what it was before the repeated round. The
properties these would break say `again = 0`, and hold for clients that answer each subtask once.
What holds for all clients is said without that premise: `NoSuccessOverOpenWork`, `NodesRunOnce` for
agents and conditions, `EverythingDecided`, the numbers of the rounds in `WaitHasWork`,
`FlowAsPromised`, and in `TaskService` everything `history` checks.

Also visible, without a document that says otherwise: after a crash between a claim and its result a
task stays at `dispatch_decision`, as nothing looks for claimed executions at start-up; and a
workflow whose edge leads back into an unconditional join (such as `review` in
`frontend/src/workflowBuilder.ts:buildWorkflowDefinition`) is blocked before that join has run once,
which is why `EverythingDecided` asks for graphs without cycles. In `TaskService`: a claim may start
a task over a prerequisite whose rerun came between the claim's look at it and its save, so that
`StartsAfterPrerequisites` promises only that the prerequisite has succeeded before; and a dependent
that comes back from a human round while its prerequisite is being rerun is refused at
`context_update`, and nobody looks at it again either (`FlowSettles` excepts it). In the runner:
after a death Codex may work on one subtask more than once at a time, as the child of the dead
process is not killed and the next process knows nothing of it (`OneCodexPerLife` counts them); a
review that is approved while Codex still works comes back when Codex ends, until the next poll; a
subtask stranded in a failed task is listed for ever, and without the console Codex works on it
again after every refusal. In the broker: a request that dies with its broker stays as a
`.processing` file, and a command taken before the deadline may take effect after the client has
reported a failure. These bound what `AnswersOnce` and `WithdrawnNeverRuns` say. In the task graph:
a planner that raises, or an agent that cannot be resolved, takes the run's rounds and the record of
what its tools did with it: `acted` drops what such a run did, so `ToolsAccountedFor` is about runs
that come to an end. In the registries: two writers of a file, or a death between truncating and
writing it, lose records, and a template may be saved with an agent that is not there; `Kept` and
`References` say that nothing else does this.

## 5. Proofs

**TaskServiceProofs.tla**, for any tasks, threads, keys, slots and bounds, under the named
assumptions of `TaskService` only. `Spec => []` of `TypeOK`, `HistoryOK`, `KeysUnique`,
`NoSuccessOverOpenWork`; the action properties `FinishedFrozen`, `StartsAfterPrerequisites`,
`ResultsLandOnOwnExecution`; and `Refinement`: `Spec => ImplementsLedger`.

The invariant is `IInv == TypeOK /\ RowOK of every task /\ HolderOK of every thread`. `HistoryOK`
alone is not inductive: that a rerun may open an attempt rests on what its thread checked *before*
it saves, and on the lock that nobody else holds in between (`HolderOK`); that a save projects onto
an open execution rests on the link of row and active execution (`RowOK`). Instead of one case per
action and conjunct, the row of a task is shown to move in five ways only (created, goes to another
node or status, raises, starts, opens an attempt): every action's lemma says which move it makes
(`StepTouches`), and every property is proved once per move. The refinement maps each move to one
action of the ledger or to a stutter. `StartsLate` (`StartsAfterPrerequisites`) cannot cite the
guard of the step that starts, as the prerequisite may have changed by then: `HolderOK` keeps, from
the look to the save, that some attempt of each prerequisite succeeded, and finished attempts are
frozen. `SuccessIsClean` is about all instances; the run `graph` checks the same of `TaskGraph`.

**WorkflowTemplateProofs.tla**, for any finite set of nodes and any graphs: `TypeOK`,
`NodesRunOnce`, `RunsOnLivePath`, `JoinsWait`, `SkippedForGood`, `EverythingDecided`,
`FlowAsExpected`. The heart is `SkippedGrow`: a step that only completes nodes that are not skipped
makes the least closed set larger (for any set closed after the step, its intersection with the old
skipped nodes was closed before it). The invariant adds to the properties that a dispatched node is
*chosen*: only start edges lead to it, or a completed branch satisfies its edge. A chosen node is
never skipped, which is what makes the step satisfy that premise. `EverythingDecided` takes a
minimal undecided node of an acyclic graph and shows that it would be ready. For `FlowAsExpected`
the rows before and after a step are written down field by field (`Row`) and compared with what
`Finalize`, `AddRound` and a posted result make of a row. It needs two more facts of the invariant:
a round is never empty, and only human subtasks stay open. Rounds that are disjoint and not empty
are at most as many as there are nodes (`DisjointAreFew`, an injection into the nodes), which is the
only use of finiteness. The four that need it have the premise `again = 0` in their statements, and
the invariant carries their parts under that premise; `RunOnce` has the part that needs none, since
a node with an outcome is never runnable again unless it is a human's.

**CodexRunnerProofs.tla**, for any subtasks, finite set of threads and number of deaths: `TypeOK`,
`ClaimsAreHeld`, `OneCodexPerLife`, `AnswersOnce`. The listing a poll brings is stale when it is
used; what saves the runner is that it is stale in one direction only (`ListingOK`): a subtask the
runner has to do with that is missing in it is answered for good, and one in it that is being worked
on is still claimed, as only the main thread forgets claims of subtasks with a handler. So a life
has one handler for a subtask, and leaves one Codex at most; `OneCodexPerLife` adds these up over
the deaths. `OneOK` adds that nothing which could answer is left once an answer was heard: neither a
thread, nor a review, nor an unclaimed entry of the listing. The invariant is a conjunction over
subtasks, and a step of a thread is shown to leave the other subtasks alone (`ThreadFrame`).
`ReviewsRunOut` is the part of `AnsweredGoesAway` that needs no fairness: the review of an answered
subtask can come back only through a listing in hand that still names it, or through the handler at
work on it, each time it does so that chance is gone, and no step makes a new one (`ChancesLeft`).

**CommandBrokerProofs.tla**, for any calls, brokers and deaths: `TypeOK`, `AtMostOnce`,
`SuccessIsExecution`, `WithdrawnNeverRuns`. The rename moves a request from `requests` to
`processing` once, so that a call is in the hand of one broker at most and was not executed before
it was taken; a response says `ok` only after the execution.

**TaskServicePauseProofs.tla**, for any tasks, threads and bounds, under the assumption
`Resubmit = FALSE` (a client does not answer one subtask twice; the run `resubmit` shows why it is needed):
`ClaimExclusive` and `PauseDiscipline`. Neither is inductive without the other. A thread that has
claimed a task keeps it from being claimed again only as long as nothing moves it back to a node
that can be claimed; what could is a human result, and there is none to give while the task stands
at `waiting_dependencies` or `dispatch_decision`, as a task owes work only at `human_execution`. The
invariant `PInv` adds to `IInv` what every row owes and where the task of every claim stands, and
the lemmas follow the same moves as in `TaskServiceProofs`.

The same module proves what the two liveness properties rest on, while the server stays up.
`ReadyHeld`: a task that could start is always about to be claimed by some thread, carried by a
resume loop, or on the list of a scan. `UnsettledHeld` (in the database, where a flow that raises
leaves nothing behind): a task whose flow is not settled is in the hands of a thread that claims it,
carries it or runs it. So a task is never left behind, and weak fairness of the threads does the
rest. Both hold along every behaviour in which no succeeded prerequisite is run again
(`PrerequisitesKept`); the run `rerun_strands` shows a task that such a rerun leaves behind. With
one attempt a task nothing can break that premise, and `OneAttemptHeld` and
`OneAttemptUnsettledHeld` hold without it. (The run `prerequisites` reruns the prerequisite and
checks what is left then, `ReadyTaskRunsUnlessRerun`.) The argument is a handover: the thread that
ends the last prerequisite lists the tasks *after* it saved, so a task that waits is on its list
(`Announces`), and a thread between the halves of a confirmation saw prerequisites that still stand,
or somebody will look again (`Promised`).

**TaskGraphProofs.tla**, for any width, limit, pool, number of retries and either store: `TypeOK`,
`WaitHasWork`, `ContextComplete`, `NoSuccessOverOpenWork` (`GraphSuccessIsClean`),
`ToolsAccountedFor`, and `LimitCosts`: a task that asks for a human for lack of rounds has run fewer
than the limit. `GInv` says what a stored task is (`StoredOK`) and what the task of a run is before
each node (`WorkedOK`), whatever results were posted again, and what more they are while none was
(`Fresh`, `Current`). No round has a number above the counter (`Counted`), the one being run has a
new one (`Counting`), and once the limit was reached by a round that was not run none has that
number (`Limited`); so the number a new round gets is never taken and `_append_pending_round` always
appends. As long as results come once, the summary is the outputs of all rounds, or, while a round
waits, what it was before that round is kept in the round. An act is in a round or in the hands of
its agent (`Acting`), and `ThreadOK` says that an agent has not used its tools before it is at them.
A run that raises falls back to a task that was stored, which is why `GInv` says the same of
`run.saved`.

`FlowAsPromised` is proved from `GInv` and a link between the run and the task it started from
(`RunOK`): the rounds the task had then are as they were, and those added since hold no human, as
the first round with one ends the run. So the rounds with humans on both sides correspond to each
other one to one, and at most one more comes last (`SamePlaces`, `OneRoundMore`). Two theorems are
what `RunEnds` rests on: `RunsComeNearer` (every step of a run lowers the number of nodes it may
still visit, or keeps it and lowers the calls one of its agents may still make) and
`AgentsAreNeverStuck` (until all agents of a round are done one of them can go on, or one has raised
with nobody before it and the run fails).

**DeliverablesProofs.tla**, for any contents, executions and changes: `DeliveryStands`,
`EvidenceStands`, `NoSilentLoss`, and the types. The invariant says that a completion that is about
to write has no registered delivery in the active execution (`JobOK`), that a file which was looked
at is as its artifact says or was touched since (`Looked`), and that a file task that selects is
carrying a delivery or a gap (`Promise`).

**RegistriesProofs.tla**, for any threads and ids: `Kept`, `References`, and the types. As long as a
file is not spoiled it has one writer at most, and what that writer has read is what the file still
contains (`FileOK`); and an agent that is being deleted after the look is named by excused templates
only (`DeletingOK`).

Only model-checked: liveness itself, as fairness and `ENABLED` are out of the prover's reach, that
is `ReadyTaskRunsUnlessRerun`, `FlowSettles`, `AnsweredGoesAway`, `OpenIsSeen` and `RunEnds`. What
each of them needs besides fairness is proved: `ReadyHeld`, `UnsettledHeld`, `ReviewsRunOut`,
`ClaimsAreHeld`, and `RunsComeNearer` with `AgentsAreNeverStuck`. Recursive definitions cannot be
proved about by induction over data here; the modules use none.

## 6. Not modelled

* *Completion*: the start-up migration of criteria-only tasks, which finalizes once more with the
  evidence that is stored. It runs in every process that starts, without coordination; it is listed
  as a hazard without a property.
* *Stores*: users (a partial update loses fields, the root user can be deleted and is restored at
  the start), attachments (a file, then a row), the transaction of `DatabaseTaskStore` and the
  migrations of its schema. `Registries` has the same two kinds of store for agents and templates.
* *Runner*: two console windows that answer one review at once. Both find it and both submit
  (`AnswersOnce` is checked and proved for one window).
* *Contract confirmation*: a pure merge of acceptance items, tested in `tests/`.
* *Model client*, *planners*, *tools*: which answer comes is a choice; the retries and the follow-up
  after tools are in `TaskGraph`. Prompts, transports, parsing, text extraction, mail and search are
  I/O without order.
* *HTTP layer*, *seed scripts*, *web console*: wiring and rendering. What their requests do is in
  `TaskService` and `Registries`.

What is worth doing next, in this order: the migration next to a running server; agents, attachments
and users in one registry module with their partial updates; `ReadyHeld` and `UnsettledHeld` for the
store in memory, whose flows may leave a half-written task behind; the retry loop of the model
client checked against a reference.
