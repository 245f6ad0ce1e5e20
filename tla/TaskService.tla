----------------------------- MODULE TaskService -----------------------------
(***************************************************************************)
(* The life of a task in TaskHub: draft, confirmation, claim, automatic    *)
(* flow, human results, completion, rerun, and the release of the tasks    *)
(* that waited for it (app/services/task_service.py, execution_service.py, *)
(* completion_service.py).                                                 *)
(*                                                                         *)
(* Every handler works inside `with self._task_lock(task_id)` sections and *)
(* one request goes through several of them (details, claim, run, resume). *)
(* A section that reads other tasks before it saves its own is two steps,  *)
(* with lock[t] held between them; every other section is one step that    *)
(* needs the lock free.  A thread keeps what the Python frame keeps        *)
(* between two sections.                                                   *)
(*                                                                         *)
(* The automatic flow itself (LangGraph or workflow template) is here the  *)
(* set of task records it may return; module TaskGraph has its inside.     *)
(***************************************************************************)
EXTENDS Naturals, Sequences, FiniteSets

CONSTANTS
  Tasks,        \* task ids
  Workflow,     \* the tasks run by a workflow template, not by the planner
  Deps,         \* dependency_task_ids of each task
  Threads,      \* request and background threads
  Slots,        \* the human subtasks one round may hold
  Keys,         \* idempotency keys a client may send
  NoKey,        \* the key of an initial execution
  NoThread,     \* nobody holds the lock
  Failures,     \* the unsuccessful statuses results use in this instance
  MaxAttempts,  \* bound: executions of each task
  MaxRounds,    \* bound: rounds of an execution of each task
  Resubmit,     \* may a client post a result for a subtask that has one?
  Durable       \* database store (copies, survives a crash) or in-memory

ASSUME TasksAssumption == Tasks # {}
ASSUME DepsAssumption == Deps \in [Tasks -> SUBSET Tasks]
ASSUME KindAssumption == Workflow \subseteq Tasks
ASSUME NoKeyAssumption == NoKey \notin Keys
ASSUME NoThreadAssumption == NoThread \notin Threads
ASSUME FailuresAssumption == Failures \subseteq {"failed", "blocked", "partial"}
                             /\ "failed" \in Failures
ASSUME BoundsAssumption == MaxAttempts \in [Tasks -> Nat] /\ MaxRounds \in [Tasks -> Nat]
ASSUME ModesAssumption == Resubmit \in BOOLEAN /\ Durable \in BOOLEAN

VARIABLES
  task,        \* the Task row of every id
  executions,  \* Task.executions
  lock,        \* the RLock of every task
  thread       \* where every thread is

vars == <<task, executions, lock, thread>>
-----------------------------------------------------------------------------
(* Types *)

Status == {"absent", "running", "succeeded", "cancelled"} \cup Failures

Node == {"human_confirmation", "waiting_dependencies", "dispatch_decision",
         "subtask_execution", "human_execution", "context_update",
         "completion_judge", "human_intervention"}

SubtaskStatus == {"none", "running", "succeeded"} \cup Failures

\* A round: its human subtasks; "none" is a slot the round does not use.
Round == [Slots -> SubtaskStatus]

TaskRecord ==
  [status : Status, node : Node, contract : BOOLEAN, active : Nat,
   rounds : Seq(Round),
   awaiting : BOOLEAN,  \* completion_report.awaiting_human_decision
   depctx : BOOLEAN]    \* the outputs of the prerequisites are in the context

Execution ==
  [status : Status, node : Node, rounds : Seq(Round), awaiting : BOOLEAN,
   start : Node, started : BOOLEAN, finished : BOOLEAN,
   key : Keys \cup {NoKey}, source : Nat]

ThreadState ==
  [pc : {"idle", "confirm", "rerun", "claim", "claiming", "run", "resume", "release"},
   task : Tasks, exec : Nat, sat : BOOLEAN,
   todo : SUBSET Tasks,             \* tasks a resume scan has still to look at
   ready : SUBSET (Tasks \X Nat)]   \* tasks it released and has yet to run

AnyTask == CHOOSE t \in Tasks : TRUE
Idle == [pc |-> "idle", task |-> AnyTask, exec |-> 0, sat |-> FALSE,
         todo |-> {}, ready |-> {}]

Absent == [status |-> "absent", node |-> "human_confirmation",
           contract |-> FALSE, active |-> 0, rounds |-> <<>>,
           awaiting |-> FALSE, depctx |-> FALSE]

Init ==
  /\ task = [t \in Tasks |-> Absent]
  /\ executions = [t \in Tasks |-> <<>>]
  /\ lock = [t \in Tasks |-> NoThread]
  /\ thread = [th \in Threads |-> Idle]
-----------------------------------------------------------------------------
(* Helpers *)

Created == {t \in Tasks : task[t].status # "absent"}
Free(t) == lock[t] = NoThread

\* Variant: a prerequisite only has to be over.
DependenciesFinished(t) == \A d \in Deps[t] : task[d].status \notin {"absent", "running"}
DependenciesSatisfied(t) == \A d \in Deps[t] : task[d].status = "succeeded"

NewRound(H) == [h \in Slots |-> IF h \in H THEN "running" ELSE "none"]
Running(round) == \E h \in Slots : round[h] = "running"
Human(round) == \E h \in Slots : round[h] # "none"
HasRunningHuman(rec) == \E i \in DOMAIN rec.rounds : Running(rec.rounds[i])

\* _blocking_subtask_statuses anywhere in the rounds keep a task from success.
HasBlocking(rec) ==
  \E i \in DOMAIN rec.rounds, h \in Slots :
     rec.rounds[i][h] \in {"running"} \cup Failures

\* Variant: the subtasks are not looked at.
FinalizeOnGapsOnly(rec, candidate, gaps) ==
  IF candidate = "succeeded" /\ gaps
  THEN [rec EXCEPT !.node = "human_intervention", !.awaiting = TRUE]
  ELSE [rec EXCEPT !.status = candidate, !.node = "completion_judge",
                   !.awaiting = FALSE]

\* Variant: gaps end the task as blocked instead of asking a human.
FinalizeBlockedByGaps(rec, candidate, gaps) ==
  [rec EXCEPT !.status = IF candidate = "succeeded" /\ (gaps \/ HasBlocking(rec))
                         THEN "blocked" ELSE candidate,
              !.node = "completion_judge", !.awaiting = FALSE]

(* CompletionService.finalize: gaps (or blocking subtasks) turn a success   *)
(* into a wait for a human decision; anything else ends the task.           *)
Finalize(rec, candidate, gaps) ==
  IF candidate = "succeeded" /\ (gaps \/ HasBlocking(rec))
  THEN [rec EXCEPT !.node = "human_intervention", !.awaiting = TRUE]
  ELSE [rec EXCEPT !.status = candidate, !.node = "completion_judge",
                   !.awaiting = FALSE]

\* The execution e as a copy of the task.
Projection(rec, e) ==
  [e EXCEPT !.status = rec.status, !.node = rec.node, !.rounds = rec.rounds,
            !.awaiting = rec.awaiting, !.finished = (rec.status # "running")]

\* Variant: the end of the task is not passed on to the execution.
SyncLeavesOpen(rec, es) ==
  IF rec.active = 0 \/ es[rec.active].finished THEN es
  ELSE [es EXCEPT ![rec.active] = [Projection(rec, @) EXCEPT !.finished = FALSE]]

\* Variant: a retry is projected onto the execution it retries.
SyncOntoSource(rec, es) ==
  IF rec.active = 0 THEN es
  ELSE LET n == IF es[rec.active].source # 0 THEN es[rec.active].source ELSE rec.active
       IN  [es EXCEPT ![n] = Projection(rec, @)]

(* sync_projection on the executions es of a task: the active execution     *)
(* follows the task until it is finished.  On a finished one that differs   *)
(* from the task the code raises; HistoryOK and the guards of the savers    *)
(* (a running task, or a fresh attempt) keep every save away from that.     *)
SyncProjection(rec, es) ==
  IF rec.active = 0 \/ es[rec.active].finished THEN es
  ELSE [es EXCEPT ![rec.active] = Projection(rec, @)]

Save(t, rec, es) ==
  /\ task' = [task EXCEPT ![t] = rec]
  /\ executions' = [executions EXCEPT ![t] = SyncProjection(rec, es)]

MarkStarted(rec, es) == [es EXCEPT ![rec.active] = [@ EXCEPT !.started = TRUE]]

\* Variant: any open execution will do.
RunnableAnyExecution(t, expected) ==
  LET rec == task[t] IN
  /\ rec.status = "running"
  /\ rec.active # 0
  /\ executions[t][rec.active].status = "running"
  /\ ~executions[t][rec.active].finished

\* _runnable_execution; 0 is "no expected execution".
Runnable(t, expected) ==
  LET rec == task[t] IN
  /\ rec.status = "running"
  /\ rec.active # 0
  /\ expected \in {0, rec.active}
  /\ executions[t][rec.active].status = "running"
  /\ ~executions[t][rec.active].finished

\* Variant: a started execution is never claimed again.
ResumesNever(rec) == FALSE

\* Variant: a started execution may always be claimed again.
ResumesAlways(rec) == TRUE

\* _started_execution_can_resume_after_human_round
ResumesAfterHumanRound(rec) ==
  /\ rec.node = "context_update"
  /\ rec.rounds # <<>>
  /\ LET latest == rec.rounds[Len(rec.rounds)]
     IN  Human(latest) /\ ~Running(latest)

(* What _run_automatic_flow may return for rec.  It adds one round with     *)
(* human subtasks, or proposes to succeed after rounds without (one of them *)
(* is kept apart).                                                          *)
AddRound(rec, H) == [rec EXCEPT !.rounds = Append(@, NewRound(H))]
CanGrow(t, rec) == Len(rec.rounds) < MaxRounds[t]
Worked(t, rec) == {rec} \cup {AddRound(rec, H) : H \in {G \in {{}} : CanGrow(t, rec)}}

\* The round waits for its human subtasks.
Pauses(t, rec) ==
  {[AddRound(rec, H) EXCEPT !.node = "human_execution"] :
     H \in {G \in SUBSET Slots : G # {} /\ CanGrow(t, rec)}}

\* An agent subtask of the round failed; its human subtasks may be left running.
FailedRounds(t, rec) ==
  {Finalize(AddRound(rec, H), "failed", FALSE) : H \in {G \in SUBSET Slots : CanGrow(t, rec)}}

Proposals(t, rec) ==
  {Finalize(w, "succeeded", gaps) : w \in Worked(t, rec), gaps \in BOOLEAN}

\* A workflow without a ready node is blocked; the planner has its loop limit.
DeadEnds(t, rec) ==
  {Finalize(rec, f, FALSE) : f \in {g \in Failures : g = "blocked" /\ t \in Workflow}}
  \cup {[w EXCEPT !.node = "human_intervention"] : w \in {v \in Worked(t, rec) : t \notin Workflow}}

\* A workflow run returns at once while a human subtask is open.
WaitsForHuman(t, rec) ==
  t \in Workflow /\ rec.node = "human_execution" /\ HasRunningHuman(rec)

FlowResults(t, rec) ==
  IF WaitsForHuman(t, rec) THEN {rec}
  ELSE Pauses(t, rec) \cup FailedRounds(t, rec) \cup Proposals(t, rec) \cup DeadEnds(t, rec)

(* A flow that raises inside a submit handler: the database copy is thrown  *)
(* away, the in-memory object keeps what the flow had already written.      *)
RaisedResults(t, rec) ==
  {[w EXCEPT !.node = n] : w \in Worked(t, rec),
     n \in {"dispatch_decision", "subtask_execution", "completion_judge"}}

LeftByRaise(t, rec) == IF Durable THEN {task[t]} ELSE RaisedResults(t, rec)

\* A thread about to do pc for execution e of t, with `ready` tasks to run after.
Doing(pc, t, e, ready) ==
  [Idle EXCEPT !.pc = pc, !.task = t, !.exec = e, !.ready = ready]

\* A claim or a run returns to its caller, a resume loop if tasks are left there.
Return(s) ==
  IF s.ready = {} THEN Idle ELSE [Idle EXCEPT !.pc = "resume", !.ready = s.ready]

\* Variant: the listing is filtered before the locks are taken.
StartResumeOfWaiting(s) ==
  [Idle EXCEPT !.pc = "resume", !.ready = s.ready,
     !.todo = {t \in Created : task[t].node = "waiting_dependencies"}]

\* _resume_unblocked_tasks: the listing is taken before the first lock.
StartResume(s) ==
  [Idle EXCEPT !.pc = "resume", !.todo = Created, !.ready = s.ready]

GoesTo(th, s) == thread' = [thread EXCEPT ![th] = s]
-----------------------------------------------------------------------------
(* Request handlers *)

CreateRequest(t) ==
  /\ task[t].status = "absent"
  /\ task' = [task EXCEPT ![t].status = "running"]
  /\ UNCHANGED <<executions, lock, thread>>

CancelUnconfirmed(t) ==
  /\ Free(t)
  /\ task[t].status = "running" /\ task[t].node = "human_confirmation"
  /\ Save(t, Finalize(task[t], "cancelled", FALSE), executions[t])
  /\ UNCHANGED <<lock, thread>>

\* confirm_task_details, first half: the prerequisites are looked at.
ConfirmBegin(th, t) ==
  /\ thread[th].pc = "idle"
  /\ t \in Created /\ Free(t)
  /\ task[t].node = "human_confirmation" /\ ~task[t].contract
  /\ lock' = [lock EXCEPT ![t] = th]
  /\ GoesTo(th, [Idle EXCEPT !.pc = "confirm", !.task = t,
                             !.sat = DependenciesSatisfied(t)])
  /\ UNCHANGED <<task, executions>>

NewExecution(rec, key, source) ==
  [status |-> rec.status, node |-> rec.node, rounds |-> rec.rounds,
   awaiting |-> rec.awaiting, start |-> rec.node, started |-> FALSE,
   finished |-> FALSE, key |-> key, source |-> source]

(* Second half: contract, first execution and node are saved together.      *)
(* A sync request then runs the task, an async one only if it need not wait.*)
ConfirmEnd(th, mode) ==
  LET s   == thread[th]
      t   == s.task
      rec == [task[t] EXCEPT
                !.contract = TRUE, !.active = 1,
                !.node = IF s.sat THEN "dispatch_decision" ELSE "waiting_dependencies"]
  IN  /\ s.pc = "confirm"
      /\ Save(t, rec, Append(executions[t], NewExecution(rec, NoKey, 0)))
      /\ lock' = [lock EXCEPT ![t] = NoThread]
      /\ GoesTo(th, IF mode = "sync" THEN Doing("claim", t, 0, {})
                    ELSE IF s.sat THEN Doing("claim", t, 1, {})
                    ELSE Idle)

(* _claim_execution, first half: an execution that cannot run, or whose      *)
(* prerequisites have not all succeeded, is left alone.                     *)
ClaimBegin(th) ==
  LET s   == thread[th]
      t   == s.task
      may == Runnable(t, s.exec) /\ DependenciesSatisfied(t)
  IN  /\ s.pc = "claim" /\ Free(t)
      /\ \/ /\ may
            /\ lock' = [lock EXCEPT ![t] = th]
            /\ GoesTo(th, [s EXCEPT !.pc = "claiming"])
         \/ /\ ~may
            /\ GoesTo(th, Return(s))
            /\ UNCHANGED lock
  /\ UNCHANGED <<task, executions>>

\* Second half: only the winner of the claim goes on to run the flow.
ClaimEnd(th) ==
  LET s   == thread[th]
      t   == s.task
      rec == task[t]
      e   == rec.active
  IN  /\ s.pc = "claiming"
      /\ lock' = [lock EXCEPT ![t] = NoThread]
      /\ \/ /\ ~executions[t][e].started
            /\ Save(t, rec, MarkStarted(rec, executions[t]))
            /\ GoesTo(th, Doing("run", t, e, s.ready))
         \/ /\ executions[t][e].started /\ ResumesAfterHumanRound(rec)
            /\ Save(t, [rec EXCEPT !.node = "dispatch_decision"], executions[t])
            /\ GoesTo(th, Doing("run", t, e, s.ready))
         \/ /\ executions[t][e].started /\ ~ResumesAfterHumanRound(rec)
            /\ GoesTo(th, Return(s))
            /\ UNCHANGED <<task, executions>>

(* _run_claimed_execution: the flow works on a deep copy under the lock and *)
(* one save publishes its result; a flow that raises fails the execution.   *)
RunClaimed(th) ==
  LET s   == thread[th]
      t   == s.task
      rec == task[t]
      mine == Runnable(t, s.exec) /\ executions[t][rec.active].started
  IN  /\ s.pc = "run" /\ Free(t)
      /\ \/ /\ mine
            /\ \E result \in FlowResults(t, rec) \cup {Finalize(rec, "failed", FALSE)} :
                 Save(t, result, executions[t])
            /\ GoesTo(th, StartResume(s))
         \/ /\ ~mine
            /\ GoesTo(th, Return(s))
            /\ UNCHANGED <<task, executions>>
      /\ UNCHANGED lock

(* One iteration of the scan of _resume_unblocked_tasks, up to the look at   *)
(* the prerequisites.  (Every confirmed task has a title and a description.)*)
ResumeScan(th, t) ==
  LET s == thread[th]
      released == /\ task[t].node = "waiting_dependencies"
                  /\ task[t].status = "running"
                  /\ DependenciesSatisfied(t)
  IN  /\ s.pc = "resume" /\ t \in s.todo /\ Free(t)
      /\ \/ /\ released
            /\ lock' = [lock EXCEPT ![t] = th]
            /\ GoesTo(th, [s EXCEPT !.pc = "release", !.task = t])
         \/ /\ ~released
            /\ GoesTo(th, [s EXCEPT !.todo = @ \ {t}])
            /\ UNCHANGED lock
  /\ UNCHANGED <<task, executions>>

\* The rest of it: the context of a released task is saved.
Release(th) ==
  LET s == thread[th]
      t == s.task
  IN  /\ s.pc = "release"
      /\ Save(t, [task[t] EXCEPT !.depctx = TRUE], executions[t])
      /\ lock' = [lock EXCEPT ![t] = NoThread]
      /\ GoesTo(th, [s EXCEPT !.pc = "resume", !.task = AnyTask, !.todo = @ \ {t},
                              !.ready = @ \cup {<<t, task[t].active>>}])

\* The scan is over: the released tasks are run one after the other.
ResumeNext(th) ==
  LET s == thread[th] IN
  /\ s.pc = "resume" /\ s.todo = {}
  /\ \/ s.ready = {} /\ GoesTo(th, Idle)
     \/ \E r \in s.ready :
          GoesTo(th, Doing("claim", r[1], r[2], s.ready \ {r}))
  /\ UNCHANGED <<task, executions, lock>>

(* submit_result: the task waits at human_intervention.  An adjudication    *)
(* that is pending takes only a final verdict; otherwise a success that     *)
(* should not complete the task restarts the flow in place.                 *)
PendingReview(t) ==
  task[t].awaiting /\ executions[t][task[t].active].awaiting

SubmitResult(th, t, result, complete) ==
  LET rec == task[t] IN
  /\ thread[th].pc = "idle" /\ Free(t)
  /\ rec.status = "running" /\ rec.contract /\ rec.node = "human_intervention"
  /\ PendingReview(t) => complete /\ result \in {"succeeded", "failed"}
  /\ \/ /\ complete \/ result # "succeeded"
        /\ \E gaps \in BOOLEAN : Save(t, Finalize(rec, result, gaps), executions[t])
        /\ GoesTo(th, StartResume(Idle))
     \/ /\ ~complete /\ result = "succeeded"
        /\ \/ /\ \E out \in FlowResults(t, rec) :
                   Save(t, out, MarkStarted(rec, executions[t]))
              /\ GoesTo(th, StartResume(Idle))
           \/ /\ \E out \in LeftByRaise(t, rec) : task' = [task EXCEPT ![t] = out]
              /\ UNCHANGED <<executions, thread>>
  /\ UNCHANGED lock

\* Variant: one result closes the round.
RoundClosedByAnyResult(rec, i) == FALSE

\* _round_has_running_subtasks
RoundHasRunningSubtasks(rec, i) == Running(rec.rounds[i])

(* submit_subtask_result for human h of round i.  The code looks at the     *)
(* status of the task, not of the subtask: Resubmit says whether clients    *)
(* make use of that.                                                        *)
SubmitSubtaskResult(th, t, i, h, result, mode) ==
  LET posted == [task[t] EXCEPT !.rounds[i][h] = result]
      merged == [posted EXCEPT !.node = "context_update"]
  IN  /\ thread[th].pc = "idle" /\ Free(t)
      /\ task[t].status = "running"
      /\ task[t].rounds[i][h] # "none"
      /\ Resubmit \/ task[t].rounds[i][h] = "running"
      /\ \/ /\ result # "succeeded"
            /\ Save(t, Finalize(merged, result, FALSE), executions[t])
            /\ GoesTo(th, StartResume(Idle))
         \/ /\ result = "succeeded" /\ RoundHasRunningSubtasks(posted, i)
            /\ Save(t, [posted EXCEPT !.node = "human_execution"], executions[t])
            /\ UNCHANGED thread
         \/ /\ result = "succeeded" /\ ~RoundHasRunningSubtasks(posted, i) /\ mode = "async"
            /\ Save(t, merged, executions[t])
            /\ GoesTo(th, Doing("claim", t, 0, {}))
         \/ /\ result = "succeeded" /\ ~RoundHasRunningSubtasks(posted, i) /\ mode = "sync"
            /\ \/ /\ \E out \in FlowResults(t, merged) :
                       Save(t, out, MarkStarted(merged, executions[t]))
                  /\ GoesTo(th, StartResume(Idle))
               \/ /\ \E out \in LeftByRaise(t, merged) : task' = [task EXCEPT ![t] = out]
                  /\ UNCHANGED <<executions, thread>>
      /\ UNCHANGED lock

\* Variant: the task may still be running.
RerunAllowedAnytime(t) == task[t].contract /\ task[t].active # 0

\* ExecutionService.preflight finds no issue with the task itself.
RerunAllowed(t) ==
  LET rec == task[t]
      es  == executions[t]
  IN  /\ rec.contract /\ rec.status # "running" /\ rec.active # 0
      /\ <<es[rec.active].status, es[rec.active].node,
           es[rec.active].rounds, es[rec.active].awaiting>>
           = <<rec.status, rec.node, rec.rounds, rec.awaiting>>
      /\ \A n \in DOMAIN es : es[n].status # "running" /\ es[n].finished

\* Variant: keys are not remembered.
KeyForgotten(es, k) == FALSE

\* Some execution was created under this key.
KeyUsed(es, k) == \E n \in DOMAIN es : es[n].key = k

(* create_rerun, first half.  Nothing about t can change while its lock is  *)
(* held, so the preflight of the second half is evaluated here.             *)
RerunBegin(th, t) ==
  /\ thread[th].pc = "idle" /\ Free(t)
  /\ RerunAllowed(t) /\ Len(executions[t]) < MaxAttempts[t]
  /\ lock' = [lock EXCEPT ![t] = th]
  /\ GoesTo(th, [Idle EXCEPT !.pc = "rerun", !.task = t,
                             !.sat = DependenciesSatisfied(t)])
  /\ UNCHANGED <<task, executions>>

(* Second half: a key that an execution already has is a replay and creates *)
(* nothing; a fresh one opens the next attempt and resets the task.         *)
RerunEnd(th, k, source) ==
  LET s   == thread[th]
      t   == s.task
      es  == executions[t]
      rec == [task[t] EXCEPT
                !.status = "running", !.active = Len(es) + 1,
                !.node = IF s.sat THEN "dispatch_decision" ELSE "waiting_dependencies",
                !.rounds = <<>>, !.awaiting = FALSE, !.depctx = FALSE]
  IN  /\ s.pc = "rerun"
      /\ lock' = [lock EXCEPT ![t] = NoThread]
      /\ \/ /\ ~KeyUsed(es, k)
            /\ source \in DOMAIN es
            /\ Save(t, rec, Append(es, NewExecution(rec, k, source)))
            /\ GoesTo(th, IF s.sat THEN Doing("claim", t, Len(es) + 1, {})
                          ELSE Idle)
         \/ /\ KeyUsed(es, k)
            /\ GoesTo(th, Idle)
            /\ UNCHANGED <<task, executions>>

\* The process dies and is started again on the same database.
Crash ==
  /\ Durable
  /\ thread' = [th \in Threads |-> Idle]
  /\ lock' = [t \in Tasks |-> NoThread]
  /\ UNCHANGED <<task, executions>>
-----------------------------------------------------------------------------
Results == {"succeeded"} \cup Failures

\* What a thread does on its own once its request has been accepted.
ThreadStep(th) ==
  \/ \E mode \in {"sync", "async"} : ConfirmEnd(th, mode)
  \/ ClaimBegin(th) \/ ClaimEnd(th)
  \/ RunClaimed(th)
  \/ (\E t \in Tasks : ResumeScan(th, t)) \/ Release(th)
  \/ ResumeNext(th)
  \/ \E k \in Keys, source \in DOMAIN executions[thread[th].task] :
       RerunEnd(th, k, source)

Request(th, t) ==
  \/ ConfirmBegin(th, t)
  \/ \E result \in Results, complete \in BOOLEAN : SubmitResult(th, t, result, complete)
  \/ \E i \in DOMAIN task[t].rounds, h \in Slots, result \in Results,
        mode \in {"sync", "async"} :
       SubmitSubtaskResult(th, t, i, h, result, mode)
  \/ RerunBegin(th, t)

Operation ==
  \/ \E t \in Tasks : CreateRequest(t) \/ CancelUnconfirmed(t)
  \/ \E th \in Threads, t \in Tasks : Request(th, t)
  \/ \E th \in Threads : ThreadStep(th)

Next == Operation \/ Crash

Spec == Init /\ [][Next]_vars

(* A server that is not killed: a thread that runs is scheduled again.      *)
(* Clients owe nothing, so requests are not fair.                           *)
UpSpec == Init /\ [][Operation]_vars /\ \A th \in Threads : WF_vars(ThreadStep(th))
-----------------------------------------------------------------------------
(* Properties *)

TypeOK ==
  /\ task \in [Tasks -> TaskRecord]
  /\ executions \in [Tasks -> Seq(Execution)]
  /\ lock \in [Tasks -> Threads \cup {NoThread}]
  /\ thread \in [Threads -> ThreadState]

(* Whatever requests, runs, reruns and crashes interleave, a task has one   *)
(* open execution at most: it is the last and the active one, it is open    *)
(* exactly while the task runs, and every earlier attempt is finished       *)
(* (preflight, create_rerun and sync_projection keep this between them).    *)
HistoryOf(rec, es) ==
  /\ rec.active = Len(es)
  /\ rec.contract <=> es # <<>>
  /\ \A n \in DOMAIN es : es[n].finished <=> es[n].status # "running"
  /\ \A n \in DOMAIN es : n < Len(es) => es[n].finished
  /\ es # <<>> => es[Len(es)].status = rec.status

HistoryOK == \A t \in Tasks : HistoryOf(task[t], executions[t])

(* A finished execution is history: no later result, retry or late thread   *)
(* rewrites it, and no attempt is ever dropped.                             *)
FinishedFrozen ==
  [][\A t \in Tasks : \A n \in DOMAIN executions[t] :
        /\ n \in DOMAIN executions'[t]
        /\ executions[t][n].finished => executions'[t][n] = executions[t][n]]_vars

(* Two requests with one idempotency key never make two executions, also    *)
(* when they race (create_rerun looks the key up under the task lock).      *)
KeysUnique ==
  \A t \in Tasks : \A m, n \in DOMAIN executions[t] :
    executions[t][m].key = executions[t][n].key /\ executions[t][m].key # NoKey
      => m = n

(* No task is reported as succeeded while a human subtask of it is still    *)
(* open or has failed, whichever path (flow, adjudication, late result)     *)
(* finalized it.                                                            *)
NoSuccessOverOpenWork ==
  \A t \in Tasks : task[t].status = "succeeded" => ~HasBlocking(task[t])

(* The result of an automatic run lands on the execution the thread claimed *)
(* or nowhere: a run that was overtaken by a result and a rerun must not    *)
(* write into the new attempt.                                              *)
ResultsLandOnOwnExecution ==
  [][\A th \in Threads :
       thread[th].pc = "run" /\ thread'[th].pc # "run" =>
         \A t \in Tasks : \A n \in DOMAIN executions[t] :
           executions'[t][n] # executions[t][n] =>
             t = thread[th].task /\ n = thread[th].exec]_vars

\* Some attempt of the task is recorded as succeeded.
HasSucceeded(d) == \E n \in DOMAIN executions[d] : executions[d][n].status = "succeeded"

(* An execution starts only after each prerequisite of its task has         *)
(* succeeded: it still stands at success, or has been rerun since.  (The    *)
(* claim looks at the prerequisites' rows, saves the start afterwards, and  *)
(* holds only the lock of its own task in between.)                         *)
StartsAfterPrerequisites ==
  [][\A t \in Tasks : \A n \in DOMAIN executions[t] :
        ~executions[t][n].started /\ executions'[t][n].started
          => \A d \in Deps[t] : HasSucceeded(d)]_vars

(* A task that had to wait for its prerequisites starts with their outputs  *)
(* in its context (_resume_unblocked_tasks sets it before it runs the task).*)
StartsWithDependencyContext ==
  [][\A t \in Tasks : \A n \in DOMAIN executions[t] :
        /\ ~executions[t][n].started /\ executions'[t][n].started
        /\ executions[t][n].start = "waiting_dependencies"
        => task'[t].depctx]_vars

(* A claim of an execution has one holder: the automatic flow of a task is  *)
(* never queued twice.                                                      *)
ClaimExclusive ==
  \A th1, th2 \in Threads :
    thread[th1].pc = "run" /\ thread[th2].pc = "run" /\ th1 # th2
      => thread[th1].task # thread[th2].task \/ thread[th1].exec # thread[th2].exec

(* A running task stands at human_execution exactly while somebody owes it  *)
(* a human result, and only its last round may owe one: no further round is *)
(* dispatched over an open one.                                             *)
PauseDiscipline ==
  \A t \in Tasks :
    LET rec == task[t] IN
    rec.status = "running" =>
      /\ rec.node = "human_execution" <=> HasRunningHuman(rec)
      /\ \A i \in DOMAIN rec.rounds : i < Len(rec.rounds) => ~Running(rec.rounds[i])

Ready(t) ==
  /\ task[t].status = "running" /\ task[t].active # 0
  /\ ~executions[t][task[t].active].started
  /\ DependenciesSatisfied(t)

\* A prerequisite has been run again.
PrerequisiteRerun(t) == \E d \in Deps[t] : Len(executions[d]) > 1

(* A confirmed task whose prerequisites have succeeded gets started: its    *)
(* release is not lost between its confirmation and the last prerequisite's *)
(* completion, whichever comes first.                                       *)
ReadyTaskRuns == \A t \in Tasks : Ready(t) ~> ~Ready(t)

(* What remains of it when prerequisites are rerun: nothing else than a     *)
(* rerun of a prerequisite leaves a task behind that could start.           *)
ReadyTaskRunsUnlessRerun ==
  \A t \in Tasks : Ready(t) ~> ~Ready(t) \/ PrerequisiteRerun(t)

(* The automatic flow does not stop in the middle: a confirmed task ends,   *)
(* or comes to wait for a human or for its prerequisites, unless one of     *)
(* them is run again, which makes the next claim of the task be refused.    *)
Settled(t) ==
  \/ task[t].status # "running"
  \/ task[t].node \in {"human_confirmation", "human_execution",
                       "human_intervention", "waiting_dependencies"}
FlowSettles == \A t \in Tasks : ~Settled(t) ~> Settled(t) \/ PrerequisiteRerun(t)

\* The executions of a task as their readers see them.
LedgerOf(es) ==
  [n \in DOMAIN es |->
     [state |-> IF es[n].finished THEN "closed"
                ELSE IF es[n].started THEN "started" ELSE "open",
      outcome |-> es[n].status,
      key |-> es[n].key]]

(* What the history of a task promises, as a specification of its own:      *)
(* attempts are opened one at a time under fresh keys, started before they  *)
(* end, and closed for good.                                                *)
Ledger == INSTANCE ExecutionLedger WITH
            ledger <- [t \in Tasks |-> LedgerOf(executions[t])]
ImplementsLedger == Ledger!Spec
=============================================================================
